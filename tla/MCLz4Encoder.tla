---------------------------- MODULE MCLz4Encoder ----------------------------
(* Every picture of a few shapes in two colours, one of them translucent.   *)
EXTENDS Lz4Encoder

MCSizes == {<<1, 1>>, <<3, 1>>, <<2, 2>>, <<5, 1>>, <<3, 2>>, <<7, 1>>}

Palette == {<<0, 0, 0, 255>>, <<7, 7, 7, 7>>}

MCPictures ==
    UNION {{[w |-> s[1], h |-> s[2],
             pixels |-> [k \in 1..(4 * s[1] * s[2]) |->
                            colours[((k - 1) \div 4) + 1][((k - 1) % 4) + 1]]] :
                colours \in [1..(s[1] * s[2]) -> Palette]} : s \in MCSizes}
============================================================================
