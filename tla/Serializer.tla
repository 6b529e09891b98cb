----------------------------- MODULE Serializer -----------------------------
(***************************************************************************)
(* BinaryWriter and BinaryReader: how values become bytes and bytes become *)
(* values again.  A byte is a number below Base, which is 256 in the code; *)
(* the widths of the integers are those of the code.  A value is a number, *)
(* a truth value, a string without null characters, or a point in time,    *)
(* counted in the ticks of the clock, TicksPerMs to the millisecond.       *)
(*                                                                         *)
(* A reader is the bytes not read yet, the values read so far, and whether *)
(* it is still going or has thrown an exception.                           *)
(***************************************************************************)
EXTENDS Integers, Sequences

CONSTANTS Base, TicksPerMs

ASSUME SerializerAssumption == Base \in Nat \ {0, 1} /\ TicksPerMs \in Nat \ {0}

Width == [u8 |-> 1, u16 |-> 2, u32 |-> 4, u64 |-> 8, bool |-> 1, time |-> 8]

\* Most significant byte first.
write_integral(v, width) == [i \in 1..width |-> (v \div Base^(width - i)) % Base]

write_string(s) == Append(s, 0)

write(t, v) ==
    CASE t = "string" -> write_string(v)
      [] t = "bool" -> write_integral(IF v THEN 1 ELSE 0, 1)
      [] t = "time" -> write_integral(v \div TicksPerMs, 8)
      [] OTHER -> write_integral(v, Width[t])

WriteAll(types, values) ==
    LET written[i \in 0..Len(types)] ==
            IF i = 0 THEN << >> ELSE written[i - 1] \o write(types[i], values[i])
    IN  written[Len(types)]

Reader(bytes) == [data |-> bytes, values |-> << >>, ok |-> TRUE]
Throw(r) == [r EXCEPT !.ok = FALSE]
Advance(r, n, v) ==
    [r EXCEPT !.data = SubSeq(@, n + 1, Len(@)), !.values = Append(@, v)]

\* What the bytes are worth; what is missing counts as nothing.
Worth(bytes) ==
    LET bits[i \in 0..Len(bytes)] == IF i = 0 THEN 0 ELSE bits[i - 1] * Base + bytes[i]
    IN  bits[Len(bytes)]

read_integral_unchecked(r, width) ==
    Advance(r, IF width < Len(r.data) THEN width ELSE Len(r.data),
            Worth(SubSeq(r.data, 1, IF width < Len(r.data) THEN width ELSE Len(r.data))))

read_integral(r, width) ==
    IF width > Len(r.data) THEN Throw(r)
    ELSE Advance(r, width, Worth(SubSeq(r.data, 1, width)))

read_string(r) ==
    LET nulls == {i \in 1..Len(r.data) : r.data[i] = 0} IN
    IF nulls = {} THEN Throw(r)
    ELSE LET end == CHOOSE i \in nulls : \A j \in nulls : i <= j
         IN  Advance(r, end, SubSeq(r.data, 1, end - 1))

\* The value read last, converted.
Convert(r, f(_)) ==
    IF r.ok THEN [r EXCEPT !.values = [i \in 1..Len(@) |-> IF i = Len(@) THEN f(@[i]) ELSE @[i]]] ELSE r

read(r, t) ==
    IF ~r.ok THEN r
    ELSE CASE t = "string" -> read_string(r)
           [] t = "bool" -> Convert(read_integral(r, 1), LAMBDA v : v = 1)
           [] t = "time" -> Convert(read_integral(r, 8), LAMBDA v : v * TicksPerMs)
           [] OTHER -> read_integral(r, Width[t])

ReadAll(r, types) ==
    LET reader[i \in 0..Len(types)] == IF i = 0 THEN r ELSE read(reader[i - 1], types[i])
    IN  reader[Len(types)]

at_end(r) == r.data = << >>

assert_at_end(r) == IF at_end(r) THEN r ELSE Throw(r)

\* What is left of a value that is written and read: times lose what is below
\* a millisecond.
Kept(t, v) == IF t = "time" THEN TicksPerMs * (v \div TicksPerMs) ELSE v
=============================================================================
