----------------------------- MODULE NetmapCodec -----------------------------
(***************************************************************************)
(* crates/embrig-net/src/netmap.rs: the fields of a UDP or TCP message and *)
(* their bytes.  A message is [name, dst, length, fields]; fields is a     *)
(* sequence in the order of the names, as the code's map iterates them, of *)
(* [name, offset, type, factor, shift, values].  A value is [num] or       *)
(* [symbol].                                                               *)
(*                                                                         *)
(* Physical values, factors and shifts are whole multiples of a common     *)
(* unit.  f32le and f64le are left out: what they store is the bit pattern *)
(* of an IEEE number.                                                      *)
(***************************************************************************)
EXTENDS Integers, Sequences, FiniteSets, SequencesExt

CONSTANT Byte   (* how many values a byte has: 256                         *)

(* A call yields a value or an error.                                      *)
Done(v) == [result |-> "ok", value |-> v]
Err == [result |-> "err"]

-----------------------------------------------------------------------------
(* FieldType.                                                              *)

Types == {"u8", "bool", "u16le", "u16be", "u32le", "u32be", "i16le", "i32le"}

Size(type) ==
  CASE type \in {"u8", "bool"} -> 1
    [] type \in {"u16le", "u16be", "i16le"} -> 2
    [] OTHER -> 4

Signed(type) == type \in {"i16le", "i32le"}
BigEndian(type) == type \in {"u16be", "u32be"}

\* The weight of a byte of a number, of the lowest one first.
Weight == <<1, Byte, Byte * Byte, Byte * Byte * Byte, Byte * Byte * Byte * Byte>>

\* How many numbers there are of that many bytes.
Span(type) == Weight[Size(type) + 1]

FitsType(type, raw) ==
  CASE type = "bool" -> raw \in {0, 1}
    [] Signed(type) -> -(Span(type) \div 2) <= raw /\ raw < Span(type) \div 2
    [] OTHER -> 0 <= raw /\ raw < Span(type)

\* The place of the k-th lowest byte.
At(type, k) == IF BigEndian(type) THEN Size(type) + 1 - k ELSE k

\* raw_bytes: the casts keep the low bytes.
RawBytes(type, raw) ==
  IF type = "bool" THEN <<IF raw # 0 THEN 1 ELSE 0>>
  ELSE [k \in 1 .. Size(type) |-> (raw \div Weight[At(type, k)]) % Byte]

\* raw_int
RawInt(type, bytes) ==
  LET low(k) == bytes[At(type, k)] * Weight[k]
      sum == low(1) + (IF Size(type) < 2 THEN 0 ELSE low(2))
                    + (IF Size(type) < 4 THEN 0 ELSE low(3) + low(4))
  IN  IF type = "bool" THEN (IF bytes[1] # 0 THEN 1 ELSE 0)
      ELSE IF Signed(type) /\ 2 * sum >= Span(type) THEN sum - Span(type) ELSE sum

-----------------------------------------------------------------------------
(* Scaling and symbols.                                                    *)

\* f64::round of a quotient: to the nearest, halves away from zero.
Rounded(a, b) ==
  LET n == IF b < 0 THEN -a ELSE a
      d == IF b < 0 THEN -b ELSE b
  IN  IF n >= 0 THEN (2 * n + d) \div (2 * d) ELSE -((2 * (-n) + d) \div (2 * d))

PhysicalToRaw(field, value) ==
  IF field.factor = 0 THEN Err
  ELSE LET raw == Rounded(value - field.shift, field.factor)
       IN  IF FitsType(field.type, raw) THEN Done(raw) ELSE Err

RawToPhysical(field, raw) == raw * field.factor + field.shift

HasField(message, name) == \E f \in Range(message.fields) : f.name = name
FieldOf(message, name) == CHOOSE f \in Range(message.fields) : f.name = name

\* The lowest raw value with that symbol.
ResolveSymbol(field, symbol) ==
  LET raws == {r \in DOMAIN field.values : field.values[r] = symbol}
  IN  IF raws = {} THEN Err ELSE Done(CHOOSE r \in raws : \A q \in raws : r <= q)

\* resolve_all: a symbol's raw value is taken as it is.
RawOf(field, value) ==
  IF "symbol" \in DOMAIN value THEN ResolveSymbol(field, value.symbol)
                               ELSE PhysicalToRaw(field, value.num)

-----------------------------------------------------------------------------
(* encode_fields, decode_field.                                            *)

WriteField(field, raw, payload) ==
  LET bytes == RawBytes(field.type, raw)
      end == field.offset + Size(field.type)
  IN  IF end > Len(payload) THEN Err
      ELSE Done([b \in DOMAIN payload |->
                   IF field.offset < b /\ b <= end
                   THEN bytes[b - field.offset] ELSE payload[b]])

ReadField(field, payload) ==
  LET end == field.offset + Size(field.type)
  IN  IF end > Len(payload) THEN Err
      ELSE Done(RawInt(field.type, SubSeq(payload, field.offset + 1, end)))

\* One step of encode_fields: nothing behind an error or for a field not given.
Written(values, payload, field) ==
  IF payload.result # "ok" \/ field.name \notin DOMAIN values THEN payload
  ELSE WriteField(field, RawOf(field, values[field.name]).value, payload.value)

\* The first error ends the call; names nobody defines are passed over.
EncodeFields(message, values) ==
  IF \E f \in Range(message.fields) :
       f.name \in DOMAIN values /\ RawOf(f, values[f.name]).result # "ok"
  THEN Err
  ELSE FoldLeft(LAMBDA payload, field : Written(values, payload, field),
                Done([b \in 1 .. message.length |-> 0]), message.fields)

DecodeField(message, payload, name) ==
  IF ~HasField(message, name) THEN Err
  ELSE LET f == FieldOf(message, name)
           raw == ReadField(f, payload)
       IN  IF raw.result # "ok" THEN Err
           ELSE Done([value |-> RawToPhysical(f, raw.value),
                      symbol |-> IF raw.value \in DOMAIN f.values
                                 THEN f.values[raw.value] ELSE ""])
=============================================================================
