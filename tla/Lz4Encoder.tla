----------------------------- MODULE Lz4Encoder -----------------------------
(***************************************************************************)
(* write_payload_geom for a compressed picture: the transforms of Pixels,  *)
(* then the loop of lz4_encode_into, once or (LZ4_DELTA) twice.  One step  *)
(* is one turn of the loop.  The hash table is abstracted: the position it *)
(* suggests may be any earlier one, so a step allows every table a picture *)
(* could lead to, colliding entries included.                              *)
(***************************************************************************)
EXTENDS Pixels

CONSTANT Pictures  \* records [w, h, pixels], tightly packed

\* A picture is a byte for each channel of each of its pixels, and its block, a
\* little longer at worst, is still no longer than a message.
ASSUME PicturesAssumption ==
    \A p \in Pictures :
        /\ p.w \in Nat \ {0} /\ p.h \in Nat \ {0}
        /\ p.pixels \in [1..(4 * (p.w * p.h)) -> 0..255]
        /\ 4 * (p.w * p.h) + (4 * (p.w * p.h)) \div LenMax + 6 <= MaxMessage

VARIABLES picture,     \* the argument, a member of Pictures
          compression, \* LZ4, LZ4_DELTA or LZ4_DELTA_Q2
          pass,        \* blocks finished so far
          input,       \* what the current block encodes
          ip,          \* next position to match
          anchor,      \* everything before it is in out
          out          \* the block so far

encoderVars == <<picture, compression, pass, input, ip, anchor, out>>

Passes == IF compression = LZ4_DELTA THEN 2 ELSE 1

StartBlock(data) ==
    /\ input' = data
    /\ ip' = 0
    /\ anchor' = 0
    /\ out' = Le(Len(data), 4)

EncoderInit ==
    /\ picture \in Pictures
    /\ compression \in {LZ4, LZ4_DELTA, LZ4_DELTA_Q2}
    /\ pass = 0
    /\ input = Prepared(compression, picture.w, picture.h, picture.pixels)
    /\ ip = 0
    /\ anchor = 0
    /\ out = Le(Len(input), 4)

\* input[from..to] of the code: from is counted from 0, to is exclusive.
Slice(from, to) == SubSeq(input, from + 1, to)

Word(p) == Slice(p, p + MinMatch)

Searching == pass < Passes /\ Len(input) >= Short /\ ip <= Len(input) - 12

\* A repeat of the byte before or of the pixel before, tried ahead of the hash.
Repeats == {p \in {ip - 1, ip - 4} : p >= 0 /\ Word(p) = Word(ip)}

MatchFrom(p) ==
    /\ Word(p) = Word(ip)
    /\ IF Repeats # {} THEN p = Max(Repeats) ELSE ip - p <= MaxDistance

MatchLength(p) ==
    LET limit == Len(input) - 5
    IN  MinMatch + common_prefix_len(Slice(p + MinMatch, limit), Slice(ip + MinMatch, limit))

\* A match: its literals and itself go out, and the next one is looked for
\* behind it.
EmitMatch(p) ==
    /\ Searching
    /\ MatchFrom(p)
    /\ LET mlen == MatchLength(p)
       IN  /\ out' = out \o EmitSequence(Slice(anchor, ip), ip - p, mlen)
           /\ ip' = ip + mlen
           /\ anchor' = ip + mlen
    /\ UNCHANGED <<picture, compression, pass, input>>

\* Mutant of Skip: it moves only when misses have piled up.
SkipStays ==
    /\ Searching
    /\ Repeats = {}
    /\ ip' = ip + ((ip - anchor) \div 32)
    /\ UNCHANGED <<picture, compression, pass, input, anchor, out>>

\* No match, or a hash entry that holds none: on, faster the longer it lasts.
Skip ==
    /\ Searching
    /\ Repeats = {}
    /\ ip' = ip + 1 + ((ip - anchor) \div 32)
    /\ UNCHANGED <<picture, compression, pass, input, anchor, out>>

Finished ==
    IF Len(input) < Short THEN Lz4Short(input)
    ELSE out \o EmitLast(Slice(anchor, Len(input)))

\* The literals that are left close the block; the first block of LZ4_DELTA is
\* the input of the second.
FinishBlock ==
    /\ pass < Passes
    /\ ~Searching
    /\ pass' = pass + 1
    /\ IF pass' < Passes THEN StartBlock(Finished)
       ELSE out' = Finished /\ UNCHANGED <<input, ip, anchor>>
    /\ UNCHANGED <<picture, compression>>

EncoderNext == (\E p \in 0..(ip - 1) : EmitMatch(p)) \/ Skip \/ FinishBlock

EncoderSpec == EncoderInit /\ [][EncoderNext]_encoderVars /\ WF_encoderVars(EncoderNext)

----------------------------------------------------------------------------
(***************************************************************************)
(* Properties.                                                             *)
(***************************************************************************)

Decoded == read_payload_geom(out, compression, picture.w, picture.h, Len(picture.pixels))

\* Whatever the hash table suggests, the client gets the picture the host drew
\* (the encoder and the decoder are two hand-written halves of a format, and a
\* slip in either shows only on inputs with the right repeats): bit for bit from the lossless
\* forms; from the half resolution one a picture of the same size whose colours
\* all lie between those the host had, opaque whatever alpha was.
PictureSurvives ==
    pass = Passes =>
        /\ ~Failed(Decoded)
        /\ compression # LZ4_DELTA_Q2 => Decoded.val = picture.pixels
        /\ \A k \in 1..Len(picture.pixels) :
               LET channel == {picture.pixels[j] : j \in {i \in 1..Len(picture.pixels) :
                                                          (i - k) % 4 = 0}}
               IN  IF k % 4 = 0 /\ compression = LZ4_DELTA_Q2 THEN Decoded.val[k] = 255
                   ELSE Decoded.val[k] \in Min(channel)..Max(channel)

\* The loop ends: every turn moves ip (a match by at least four, a miss by at
\* least one), so every picture is encoded.
Encodes == <>(pass = Passes)
============================================================================
