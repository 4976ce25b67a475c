-------------------------------- MODULE Bytes --------------------------------
(* Byte buffers as the packet code handles them: slices counted from 0,     *)
(* big-endian words, and fields that start and end inside a byte; and what  *)
(* is left of a list.                                                       *)
EXTENDS Integers, Sequences, FiniteSets, SequencesExt, FiniteSetsExt

At(b, i) == b[i + 1]

\* b[i..j] of the code: the bytes i to j - 1.
Cut(b, i, j) == SubSeq(b, i + 1, j)
From(b, i) == SubSeq(b, i + 1, Len(b))

\* b[i..i + s.len()].copy_from_slice(s)
Put(b, i, s) ==
    [k \in DOMAIN b |-> IF k - i \in DOMAIN s THEN s[k - i] ELSE b[k]]

U16(b, i) == At(b, i) * 256 + At(b, i + 1)
Be16(v) == <<v \div 256, v % 256>>
Zeros(n) == [i \in 1..n |-> 0]

\* 2^n, by doubling.
Power2(n) ==
    LET power[k \in 0..n] == IF k = 0 THEN 1 ELSE 2 * power[k - 1]
    IN  power[n]

\* The bits first, ..., first + width - 1 of the buffer, the highest of byte
\* 0 being bit 0.
Bit(b, i) == (At(b, i \div 8) \div 2^(7 - (i % 8))) % 2
Field(b, f) == [i \in 1..f[2] |-> Bit(b, f[1] + i - 1)]
Bits(v, width) == [i \in 1..width |-> (v \div 2^(width - i)) % 2]

\* &, | and << of two bytes.
BitsOf(x) == {j \in 0..7 : (x \div 2^j) % 2 = 1}
ByteOf(bits) == SumSet({2^j : j \in bits})
And(x, y) == ByteOf(BitsOf(x) \cap BitsOf(y))
Or(x, y) == ByteOf(BitsOf(x) \cup BitsOf(y))
Shl(x, n) == (x * 2^n) % 256

\* c is b with bits in the field f and the other fields as they were.
OnlyField(fields, b, c, f, bits) ==
    /\ Field(c, fields[f]) = bits
    /\ \A g \in DOMAIN fields \ {f} : Field(c, fields[g]) = Field(b, fields[g])

\* What retain or filter leaves of a list: the elements of the set good, in
\* order.
Kept(s, good) ==
    LET kept[i \in 0..Len(s)] ==
            IF i = 0 THEN << >>
            ELSE IF s[i] \in good THEN Append(kept[i - 1], s[i]) ELSE kept[i - 1]
    IN  kept[Len(s)]

\* A code of one or two bytes: a named one keeps its name, any other one is
\* carried as Unknown.
Name(v, names) == IF v \in names THEN <<"named", v>> ELSE <<"Unknown", v>>
Code(name) == name[2]
==============================================================================
