-------------------------------- MODULE Bytes --------------------------------
(* Byte sequences, as the parsers and encoders of the repository use them. *)
EXTENDS Integers, Sequences

Byte == 0..255

Zero(n) == [i \in 1..n |-> 0]

smaller(m, n) == IF m < n THEN m ELSE n

\* At most n elements of s behind the first offset ones.
Slice(s, offset, n) == SubSeq(s, offset + 1, smaller(offset + n, Len(s)))

\* memcpy of bytes to the start of a buffer.
Overwrite(buf, bytes) == bytes \o Slice(buf, Len(bytes), Len(buf))

\* Little-endian numbers of 16 bits; offsets count from 0, as in C.
put_u16(n) == <<n % 256, (n \div 256) % 256>>
get_u16(s, offset) == s[offset + 1] + 256 * s[offset + 2]
=============================================================================
