------------------------------ MODULE DbcCodec ------------------------------
(***************************************************************************)
(* crates/embrig-dbc/src/codec.rs: how the signals of a CAN message are    *)
(* packed into its bytes.  A signal is a record [name, start, length,      *)
(* order, signed, factor, offset, table]; data is a sequence of bytes and  *)
(* a byte is the set of its bits that are one.                             *)
(*                                                                         *)
(* Physical values, factors and offsets are whole multiples of a common    *)
(* unit; what is lost is the rounding inside of f64.                       *)
(***************************************************************************)
EXTENDS Integers, Sequences, FiniteSets, SequencesExt

(* A call yields a value, an error, or a panic.                            *)
Done(v) == [result |-> "ok", value |-> v]
Err == [result |-> "err"]
Panic == [result |-> "panic"]

-----------------------------------------------------------------------------
(* positions(): which bit of which byte holds bit i of the raw value.      *)

\* Mutant: a Motorola signal goes on in the next byte at its lowest bit.
PositionsLowFirst(signal) ==
  LET p[i \in 0 .. signal.length - 1] ==
        IF signal.order = "intel" THEN signal.start + i
        ELSE IF i = signal.length - 1 THEN signal.start
        ELSE IF p[i + 1] % 8 = 0 THEN p[i + 1] + 8
        ELSE p[i + 1] - 1
  IN  [i \in 0 .. signal.length - 1 |-> <<p[i] \div 8, p[i] % 8>>]

Positions(signal) ==
  LET p[i \in 0 .. signal.length - 1] ==
        IF signal.order = "intel" THEN signal.start + i
        ELSE IF i = signal.length - 1 THEN signal.start
        ELSE IF p[i + 1] % 8 = 0 THEN p[i + 1] + 15
        ELSE p[i + 1] - 1
  IN  [i \in 0 .. signal.length - 1 |-> <<p[i] \div 8, p[i] % 8>>]

\* The check write_signal and read_signal make: positions.last() is the highest
\* bit of the value, for Motorola the one in the first byte.
LastOutside(signal, size) == Positions(signal)[signal.length - 1][1] >= size

\* An index behind the data panics.
SomeOutside(signal, size) ==
  \E i \in 0 .. signal.length - 1 : Positions(signal)[i][1] >= size

-----------------------------------------------------------------------------
(* Numbers and their bits.                                                 *)

\* 2 to the power of i.
Power[i \in Nat] == IF i = 0 THEN 1 ELSE 2 * Power[i - 1]

\* The number with those bits.
FromBits(bits) == FoldSet(LAMBDA i, sum : sum + Power[i], 0, bits)

Bit(raw, i) == (raw \div Power[i]) % 2 = 1

-----------------------------------------------------------------------------
(* Scaling.                                                                *)

FitsBits(raw, signal) ==
  IF signal.signed
  THEN -Power[signal.length - 1] <= raw /\ raw <= Power[signal.length - 1] - 1
  ELSE 0 <= raw /\ raw <= Power[signal.length] - 1

\* f64::round of a quotient: to the nearest, halves away from zero.
Rounded(a, b) ==
  LET n == IF b < 0 THEN -a ELSE a
      d == IF b < 0 THEN -b ELSE b
  IN  IF n >= 0 THEN (2 * n + d) \div (2 * d) ELSE -((2 * (-n) + d) \div (2 * d))

\* A factor of zero makes the quotient infinite or NaN.
PhysicalToRaw(signal, value) ==
  IF signal.factor = 0 THEN Err
  ELSE LET raw == Rounded(value - signal.offset, signal.factor)
       IN  IF FitsBits(raw, signal) THEN Done(raw) ELSE Err

RawToPhysical(signal, raw) == raw * signal.factor + signal.offset

SignExtend(raw, signal) ==
  IF signal.signed /\ raw >= Power[signal.length - 1]
  THEN raw - Power[signal.length] ELSE raw

-----------------------------------------------------------------------------
(* write_signal, read_signal.                                              *)

WriteSignal(signal, raw, data) ==
  IF LastOutside(signal, Len(data)) THEN Err
  ELSE IF SomeOutside(signal, Len(data)) THEN Panic
  ELSE LET p == Positions(signal)
           In(b) == {i \in DOMAIN p : p[i][1] = b - 1}
       IN  Done([b \in DOMAIN data |->
                   (data[b] \ {p[i][2] : i \in In(b)})
                   \cup {p[i][2] : i \in {j \in In(b) : Bit(raw, j)}}])

ReadSignal(signal, data) ==
  IF LastOutside(signal, Len(data)) THEN Err
  ELSE IF SomeOutside(signal, Len(data)) THEN Panic
  ELSE LET p == Positions(signal)
           ones == {i \in DOMAIN p : p[i][2] \in data[p[i][1] + 1]}
       IN  Done(SignExtend(FromBits(ones), signal))

-----------------------------------------------------------------------------
(* The messages' operations.                                               *)

\* The signal a name stands for is the first of that name.
Defines(message, name) == \E s \in Range(message.signals) : s.name = name
SignalOf(message, name) ==
  LET signals == message.signals
  IN  signals[CHOOSE i \in DOMAIN signals :
                signals[i].name = name /\ \A j \in 1 .. i - 1 : signals[j].name # name]

\* The raw value of a physical one, in that signal.
RawFor(message, name, value) ==
  [signal \in Range(message.signals) |-> PhysicalToRaw(signal, value)][SignalOf(message, name)]

\* Values a signal cannot hold are left out; so are names nobody defines.
Resolved(message, values) ==
  {name \in DOMAIN values :
     /\ Defines(message, name)
     /\ RawFor(message, name, values[name]).result = "ok"}

EncodeSignals(message, values) ==
  LET zero == [b \in 1 .. (IF message.dlc = 0 THEN 1 ELSE message.dlc) |-> {}]
      Write(data, signal) ==
        IF data.result # "ok" \/ signal.name \notin Resolved(message, values) THEN data
        ELSE WriteSignal(signal, RawFor(message, signal.name, values[signal.name]).value,
                         data.value)
  IN  FoldLeft(Write, Done(zero), message.signals)

DecodeSignal(message, data, name) ==
  IF ~Defines(message, name) THEN Err
  ELSE LET Physical(signal) ==
             LET raw == ReadSignal(signal, data)
             IN  IF raw.result # "ok" THEN raw ELSE Done(RawToPhysical(signal, raw.value))
       IN  [signal \in Range(message.signals) |-> Physical(signal)][SignalOf(message, name)]

CheckValue(message, name, value) ==
  Defines(message, name) /\ RawFor(message, name, value).result = "ok"

\* The lowest raw value with that symbol.
PhysicalForSymbol(message, name, symbol) ==
  IF ~Defines(message, name) THEN Err
  ELSE LET s == SignalOf(message, name)
           raws == {r \in DOMAIN s.table : s.table[r] = symbol}
       IN  IF raws = {} THEN Err
           ELSE Done(RawToPhysical(s, CHOOSE r \in raws : \A q \in raws : r <= q))
=============================================================================
