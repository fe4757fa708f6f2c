-------------------------------- MODULE Lz4 --------------------------------
(***************************************************************************)
(* The LZ4 block format of gutted-proto/src/lib.rs: a four byte length,    *)
(* then sequences of a token, literals, an offset and a match length.      *)
(* This module holds the pieces of a block and its decoder; Lz4Encoder     *)
(* walks the encoder's loop and emits blocks from the same pieces.         *)
(*                                                                         *)
(* A buffer is a sequence of bytes, indexed from 1; positions named in the *)
(* code (ip, anchor, sp) count from 0 as there.                            *)
(***************************************************************************)
EXTENDS Integers, Sequences, FiniteSetsExt

CONSTANTS TokenMax,   \* 15: the largest count half a token byte holds
          LenMax,     \* 255: a length byte of this value is continued
          MaxMessage  \* MAX_MESSAGE_BYTES

MinMatch == 4      \* what a match length counts from
MaxDistance == 65535  \* the furthest a match starts back: two bytes
Short    == 13     \* an input below this length is one run of literals

\* Half a token holds the length of every short input, and four bytes hold that
\* of every message with the sign bit clear.
ASSUME Lz4Assumption ==
    /\ TokenMax \in Short..15
    /\ LenMax \in 1..255
    /\ MaxMessage \in Nat /\ MaxMessage \div 16777216 < 128

Least(a, b) == IF a <= b THEN a ELSE b

\* A result of a reader: an error name, or the value and what is left to read.
Ok(v, rest) == [err |-> "none", val |-> v, rest |-> rest]
Err(e)      == [err |-> e, val |-> <<>>, rest |-> <<>>]
Failed(r)   == r.err # "none"

\* The error of r, or Fn of the result; Map keeps what r left to read.
Bind(r, Fn(_)) == IF Failed(r) THEN r ELSE Fn(r)
Map(r, Fn(_))  == Bind(r, LAMBDA x : Bind(Fn(x.val), LAMBDA y : Ok(y.val, x.rest)))

\* The n little-endian bytes of v; v < 2^31, so the bytes above the fourth are
\* zero.  A negative v is written in two's complement.
Power    == <<1, 256, 65536, 16777216>>
Le(v, n) == [i \in 1..n |-> IF i > 4 THEN 0 ELSE (v \div Power[i]) % 256]
FromLe(b) ==
    b[1] + (IF Len(b) > 1 THEN b[2] * 256 ELSE 0)
         + (IF Len(b) > 2 THEN b[3] * 65536 ELSE 0)
         + (IF Len(b) > 3 THEN (IF b[4] > 127 THEN b[4] - 256 ELSE b[4]) * 16777216 ELSE 0)

----------------------------------------------------------------------------
\* The parts of a block

Token(literals, match) == Least(literals, TokenMax) * (TokenMax + 1) + Least(match, TokenMax)

write_lz4_len(rem) == [i \in 1..(rem \div LenMax) |-> LenMax] \o <<rem % LenMax>>

\* The bytes of a length that did not fit into its half of the token.
LenTail(n) == IF n >= TokenMax THEN write_lz4_len(n - TokenMax) ELSE <<>>

\* Literals, then a match of length mlen that starts offset bytes back.
EmitSequence(literals, offset, mlen) ==
    <<Token(Len(literals), mlen - MinMatch)>> \o LenTail(Len(literals)) \o literals
        \o Le(offset, 2) \o LenTail(mlen - MinMatch)

\* Mutant of EmitLast: the length of a long run does not go on after the token.
EmitLastShort(literals) == <<Token(Len(literals), 0)>> \o literals

EmitLast(literals) == <<Token(Len(literals), 0)>> \o LenTail(Len(literals)) \o literals

\* lz4_encode_into of an input too short for a match.
Lz4Short(input) == Le(Len(input), 4) \o <<Len(input) * (TokenMax + 1)>> \o input

common_prefix_len(a, b) ==
    LET n == Least(Len(a), Len(b))
        differ == {i \in 1..n : a[i] # b[i]}
    IN  IF differ = {} THEN n ELSE Min(differ) - 1

----------------------------------------------------------------------------
\* Decoding

\* The length continued at src[sp + 1], and the position after it.
read_lz4_len(src, sp) ==
    LET ends == {i \in (sp + 1)..Len(src) : src[i] # LenMax}
    IN  IF ends = {} THEN Err("InvalidValue")
        ELSE LET e == Min(ends) IN Ok((e - 1 - sp) * LenMax + src[e], e)

\* A count taken from half a token, with its continuation if it has one.
Count(half, src, sp) ==
    IF half # TokenMax THEN Ok(half, sp)
    ELSE Bind(read_lz4_len(src, sp), LAMBDA more : Ok(half + more.val, more.rest))

\* n bytes copied from offset back; a copy that overlaps its own output repeats.
Repeat(out, offset, n) ==
    out \o [i \in 1..n |-> out[Len(out) - offset + 1 + ((i - 1) % offset)]]

\* The literals of the sequence at position sp of src, behind out.
Literals(src, total, sp, out) ==
    Bind(Count(src[sp + 1] \div (TokenMax + 1), src, sp + 1), LAMBDA lit :
         IF lit.rest + lit.val > Len(src) \/ Len(out) + lit.val > total THEN Err("InvalidValue")
         ELSE Ok(out \o SubSeq(src, lit.rest + 1, lit.rest + lit.val), lit.rest + lit.val))

\* The match behind them: its offset at position at, its length begun in half
\* a token.
Match(src, total, at, half, out) ==
    LET offset == FromLe(SubSeq(src, at + 1, at + 2))
    IN  IF at + 2 > Len(src) \/ offset = 0 \/ offset > Len(out) THEN Err("InvalidValue")
        ELSE Bind(Count(half, src, at + 2), LAMBDA m :
                  IF Len(out) + m.val + MinMatch > total THEN Err("InvalidValue")
                  ELSE Ok(Repeat(out, offset, m.val + MinMatch), m.rest))

\* One turn of the decoder's loop: the sequence of src at position sp, decoded
\* behind out.  The last one of a block ends with its literals.
Sequence(src, total, sp, out) ==
    Bind(Literals(src, total, sp, out), LAMBDA l :
         IF l.rest >= Len(src) THEN l
         ELSE Match(src, total, l.rest, src[sp + 1] % (TokenMax + 1), l.val))

\* The sequences of src from position at on, decoded behind decoded.
Sequences(src, total, at, decoded) ==
    LET Run[s \in [err : {"none"}, val : Seq(Nat), rest : Nat]] ==
            IF s.rest >= Len(src) THEN Ok(s.val, <<>>)
            ELSE Bind(Sequence(src, total, s.rest, s.val), LAMBDA next : Run[next])
    IN  Run[Ok(decoded, at)]

AnyLength == -1     \* expected_len = None

lz4_decode(src, expected) ==
    IF Len(src) < 4 THEN Err("InvalidValue")
    ELSE
    LET total == FromLe(SubSeq(src, 1, 4))
    IN  IF total > MaxMessage THEN Err("MessageTooLarge")
        ELSE IF expected # AnyLength /\ total # expected THEN Err("InvalidValue")
        ELSE Bind(Sequences(src, total, 4, <<>>), LAMBDA r :
                  IF Len(r.val) # total THEN Err("InvalidValue") ELSE r)
============================================================================
