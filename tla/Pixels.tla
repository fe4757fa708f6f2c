------------------------------- MODULE Pixels -------------------------------
(***************************************************************************)
(* The pixel payload of RawFrame, Subframe and TileData: the transforms    *)
(* that make a picture compress well and the reader that undoes them.      *)
(* A picture is a row-major sequence of BGRA bytes; channel 3 is alpha.    *)
(***************************************************************************)
EXTENDS Lz4

RAW == 0            \* compression::*; the numbers are the code's, and 1 and 2
LZ4 == 1            \* are its ZSTD and ZSTD_DELTA, which hold LZ4 blocks
LZ4_DELTA == 2
LZ4_DELTA_Q2 == 3

HalfUp(n) == (n + 1) \div 2

\* One channel averaged over four samples, rounded.
Mean(a, b, c, d) == (a + b + c + d + 2) \div 4

\* A picture of n pixels whose colour channels are colour(i, c); alpha is opaque.
Opaque(n, Colour(_, _)) ==
    [k \in 1..(4 * n) |-> IF (k - 1) % 4 = 3 THEN 255 ELSE Colour((k - 1) \div 4, (k - 1) % 4)]

\* Half the resolution each way: a 2x2 box, the last row and column repeated.
downsample_2x2_bgra(src, w, h) ==
    LET qw == HalfUp(w)
        At(x, y, c) == src[4 * (Least(y, h - 1) * w + Least(x, w - 1)) + c + 1]
    IN  Opaque(qw * HalfUp(h), LAMBDA i, c :
            LET x == 2 * (i % qw)
                y == 2 * (i \div qw)
            IN  Mean(At(x, y, c), At(x + 1, y, c), At(x, y + 1, c), At(x + 1, y + 1, c)))

\* And back: an odd position is the mean of the neighbours it lies between.
\* A buffer too short for the picture gives a picture of zeros.
upsample_2x2_bgra(qsrc, w, h) ==
    LET qw == HalfUp(w)
        qh == HalfUp(h)
        At(qx, qy, c) == qsrc[4 * (Least(qy, qh - 1) * qw + Least(qx, qw - 1)) + c + 1]
    IN  IF qw = 0 \/ qh = 0 \/ Len(qsrc) < qw * qh * 4 THEN [k \in 1..(w * h * 4) |-> 0]
        ELSE Opaque(w * h, LAMBDA i, c :
            LET x0 == (i % w) \div 2
                y0 == (i \div w) \div 2
                x1 == x0 + ((i % w) % 2)
                y1 == y0 + ((i \div w) % 2)
            IN  Mean(At(x0, y0, c), At(x1, y0, c), At(x0, y1, c), At(x1, y1, c)))

\* Each pixel as its difference from the one before, channel by channel; bytes
\* past the last whole pixel are left zero.
spatial_filter_sub_into(pixels) ==
    [k \in 1..Len(pixels) |->
        IF k > 4 * (Len(pixels) \div 4) THEN 0
        ELSE IF k <= 4 THEN pixels[k] ELSE (pixels[k] - pixels[k - 4]) % 256]

spatial_unfilter_sub_in_place(buf) ==
    LET Sum[k \in 1..Len(buf)] ==
            IF k <= 4 \/ k > 4 * (Len(buf) \div 4) THEN buf[k] ELSE (buf[k] + Sum[k - 4]) % 256
    IN  [k \in 1..Len(buf) |-> Sum[k]]

\* What the compressed forms put through the block encoder first.
Prepared(compression, w, h, pixels) ==
    CASE compression = LZ4          -> pixels
      [] compression = LZ4_DELTA    -> spatial_filter_sub_into(pixels)
      [] compression = LZ4_DELTA_Q2 ->
             spatial_filter_sub_into(downsample_2x2_bgra(pixels, w, h))

\* The picture held by the rest of a payload, which is consumed whole.
read_payload_geom(wire, compression, w, h, expected) ==
    LET Unfiltered(r) == Map(r, LAMBDA b : Ok(spatial_unfilter_sub_in_place(b), <<>>))
    IN  Bind(CASE compression = RAW -> Ok(wire, <<>>)
               [] compression = LZ4 -> lz4_decode(wire, expected)
               [] compression = LZ4_DELTA ->
                      Bind(lz4_decode(wire, AnyLength), LAMBDA stage1 :
                           Unfiltered(lz4_decode(stage1.val, expected)))
               [] compression = LZ4_DELTA_Q2 ->
                      Map(Unfiltered(lz4_decode(wire, HalfUp(w) * HalfUp(h) * 4)),
                          LAMBDA q : Ok(upsample_2x2_bgra(q, w, h), <<>>))
               [] OTHER -> Err("InvalidValue"),
             LAMBDA p : IF Len(p.val) = expected THEN p ELSE Err("InvalidValue"))
============================================================================
