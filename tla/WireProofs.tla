----------------------------- MODULE WireProofs -----------------------------
(***************************************************************************)
(* Proofs about the pixel codec and about the framing of messages.         *)
(*                                                                         *)
(* The codec: what Lz4Encoder writes, the readers of Lz4 and Pixels read   *)
(* back, for every picture, every choice of matches and every width of the *)
(* format the assumptions allow.  Its invariant is Reads(out, input,       *)
(* anchor): whatever bytes follow the block so far, the decoder gets to    *)
(* its end with the first anchor bytes of the input.  The decoder's loop   *)
(* is a recursive function; that it is defined and unfolds is proved from  *)
(* the order of the positions it moves through (LoopUnfolds), and so are   *)
(* the facts about the running sums of the delta filter (Unfiltered).      *)
(*                                                                         *)
(* The framing: however a stream of messages is cut, the reader waits for  *)
(* the rest of a frame (FrameCut) and takes a whole one out exactly        *)
(* (FrameRead).  Held says what a connection and its buffer hold of the    *)
(* stream when k messages are applied; with it the events of the host      *)
(* reach the render loop in order, and those of the user reach the host.   *)
(***************************************************************************)
EXTENDS NetThread, Lz4Encoder, TLAPS

WF == INSTANCE WellFoundedInduction

Byte == 0..255

(* The widths of the format, as small as the proofs need them.               *)
LEMMA TokenBounds == TokenMax \in 1..15 /\ LenMax \in 1..255
BY Lz4Assumption, SMT DEF Short

(* A set of numbers that is not empty has its least one.                     *)
LEMMA HasMin ==
  ASSUME NEW S \in SUBSET Nat, S # {}
  PROVE  Min(S) \in S /\ \A k \in S : Min(S) <= k
<1>1. PICK m \in S : \A k \in S : <<k, m>> \notin WF!OpToRel(<, Nat)
  BY WF!WFMin, WF!NatLessThanWellFounded
<1>2. \A k \in S : ~(k < m)
  BY <1>1 DEF WF!OpToRel
<1>3. \A k \in S : m <= k
  BY <1>2
<1>4. QED
  BY <1>3 DEF Min

(* Euclid: a quotient and a remainder.                                       *)
LEMMA Division ==
  ASSUME NEW a \in Nat, NEW m \in Nat \ {0}
  PROVE  \E q \in Nat, r \in 0 .. m - 1 : a = m * q + r /\ a \div m = q /\ a % m = r
<1>1. PICK q, r : q = a \div m /\ r = a % m
  OBVIOUS
<1>2. q \in Nat /\ r \in 0 .. m - 1
  BY <1>1, SMT
<1>3. a = m * q + r
  BY <1>1, SMT
<1>4. QED
  BY <1>1, <1>2, <1>3

(* A quotient and a remainder in range are the quotient and the remainder.   *)
LEMMA DivisionUnique ==
  ASSUME NEW a \in Nat, NEW m \in Nat \ {0}, NEW q \in Int, NEW r \in 0 .. m - 1, a = m * q + r
  PROVE  a \div m = q /\ a % m = r
BY SMT

(* Taking m away leaves the remainder as it was.                             *)
LEMMA ModBack ==
  ASSUME NEW a \in Nat, NEW m \in Nat \ {0}, a >= m
  PROVE  (a - m) % m = a % m
<1>1. PICK q \in Nat, r \in 0 .. m - 1 : a = m * q + r /\ a % m = r
  BY Division
<1>2. a - m \in Nat /\ a - m = m * (q - 1) + r /\ q - 1 \in Int
  BY <1>1, SMT
<1>3. (a - m) % m = r
  BY <1>2, DivisionUnique
<1>4. QED
  BY <1>1, <1>3

(* Quotients of a sum: at least the sum of the quotients.                    *)
LEMMA DivAdd ==
  ASSUME NEW a \in Nat, NEW b \in Nat, NEW m \in Nat \ {0}
  PROVE  (a \div m) + (b \div m) <= (a + b) \div m
BY SMT

(* A token gives back the two halves it was made of.                         *)
LEMMA TokenHalves ==
  ASSUME NEW a \in 0..TokenMax, NEW b \in 0..TokenMax
  PROVE  /\ a * (TokenMax + 1) + b \in Byte
         /\ (a * (TokenMax + 1) + b) \div (TokenMax + 1) = a
         /\ (a * (TokenMax + 1) + b) % (TokenMax + 1) = b
BY TokenBounds, SMT DEF Byte

(* Numbers are written as bytes.                                             *)
LEMMA LeIsBytes ==
  ASSUME NEW v \in Int, NEW n \in Nat
  PROVE  Le(v, n) \in Seq(Byte) /\ Len(Le(v, n)) = n
<1>1. Le(v, n) \in [1..n -> Byte]
  BY SMT DEF Le, Byte, Power
<1>2. QED
  BY <1>1, SMT

(* FromLe undoes Le: two bytes hold every distance of a match.               *)
LEMMA Le2 ==
  ASSUME NEW v \in 0..MaxDistance
  PROVE  FromLe(Le(v, 2)) = v
<1> DEFINE b == <<v % 256, (v \div 256) % 256>>
<1>0. v \in Nat /\ v < 65536
  <2>1. MaxDistance = 65535
    BY DEF MaxDistance
  <2>2. QED
    BY <2>1, SMT
<1>1. Le(v,2) = b
  BY <1>0, SMT DEF Le, Power
<1>2. FromLe(b) = b[1] + b[2]*256
  BY SMT DEF FromLe
<1>3. b[1] + b[2]*256 = v
  BY <1>0, SMT
<1> QED BY <1>1, <1>2, <1>3, SMT

(* FromLe undoes Le: four bytes hold every length of a message.              *)
LEMMA Le4 ==
  ASSUME NEW v \in Nat, v \div 16777216 < 128
  PROVE  FromLe(Le(v, 4)) = v
<1> DEFINE b == <<v % 256, (v \div 256) % 256, (v \div 65536) % 256, (v \div 16777216) % 256>>
<1>1. Le(v,4) = b
  BY SMT DEF Le, Power
<1>2. FromLe(b) = b[1] + b[2]*256 + b[3]*65536 + (IF b[4] > 127 THEN b[4] - 256 ELSE b[4]) * 16777216
  BY SMT DEF FromLe
<1>3. b[4] <= 127
  BY SMT
<1>4. b[1] + b[2]*256 + b[3]*65536 + b[4] * 16777216 = v
  BY SMT
<1> HIDE DEF b
<1>5. b[4] \in Int
  BY SMT DEF b
<1>6. FromLe(b) = v
  BY <1>2, <1>3, <1>4, <1>5, SMT
<1> QED BY <1>1, <1>6

-----------------------------------------------------------------------------
(* w stands at position p of src. *)
Holds(src, p, w) ==
  /\ p + Len(w) <= Len(src)
  /\ \A i \in 1..Len(w) : src[p + i] = w[i]

(* What holds a concatenation holds its parts.                               *)
LEMMA HoldsParts ==
  ASSUME NEW src \in Seq(Byte), NEW p \in Nat, NEW v \in Seq(Byte), NEW w \in Seq(Byte),
         Holds(src, p, v \o w)
  PROVE  Holds(src, p, v) /\ Holds(src, p + Len(v), w)
<1>1. Len(v \o w) = Len(v) + Len(w) /\ Len(v) \in Nat /\ Len(w) \in Nat
  OBVIOUS
<1>2. \A i \in 1..Len(v) : src[p + i] = v[i]
  <2> TAKE i \in 1..Len(v)
  <2>1. i \in 1..Len(v \o w) /\ (v \o w)[i] = v[i]
    BY <1>1
  <2> QED BY <2>1 DEF Holds
<1>3. \A i \in 1..Len(w) : src[p + Len(v) + i] = w[i]
  <2> TAKE i \in 1..Len(w)
  <2>1. Len(v) + i \in 1..Len(v \o w) /\ (v \o w)[Len(v) + i] = w[i]
    BY <1>1
  <2>2. src[p + (Len(v) + i)] = (v \o w)[Len(v) + i]
    BY <2>1 DEF Holds
  <2>3. p + (Len(v) + i) = p + Len(v) + i
    BY <1>1
  <2> QED BY <2>1, <2>2, <2>3
<1>4. QED
  BY <1>1, <1>2, <1>3 DEF Holds

(* What is held at a position is the slice there.                            *)
LEMMA HoldsSlice ==
  ASSUME NEW src \in Seq(Byte), NEW p \in Nat, NEW w \in Seq(Byte), Holds(src, p, w)
  PROVE  SubSeq(src, p + 1, p + Len(w)) = w
<1> DEFINE s == SubSeq(src, p + 1, p + Len(w))
<1>1. p + Len(w) <= Len(src) /\ Len(w) \in Nat /\ Len(src) \in Nat
  BY DEF Holds
<1>2. s \in Seq(Byte) /\ Len(s) = Len(w)
  BY <1>1
<1>3. \A i \in 1..Len(w) : s[i] = w[i]
  BY <1>1 DEF Holds
<1>4. QED
  BY <1>2, <1>3

(* A sequence holds itself.                                                  *)
LEMMA HoldsItself ==
  ASSUME NEW w \in Seq(Byte)
  PROVE  Holds(w, 0, w)
BY DEF Holds

(* The parts of a sequence. *)
LEMMA LenBytes ==
  ASSUME NEW n \in Nat
  PROVE  /\ write_lz4_len(n) \in Seq(Byte)
         /\ Len(write_lz4_len(n)) = n \div LenMax + 1
         /\ \A i \in 1 .. n \div LenMax : write_lz4_len(n)[i] = LenMax
         /\ write_lz4_len(n)[n \div LenMax + 1] = n % LenMax
<1> DEFINE w == write_lz4_len(n)
<1>1. LenMax \in Nat \ {0} /\ LenMax \in Byte
  BY TokenBounds DEF Byte
<1>2. PICK q \in Nat, r \in 0 .. LenMax - 1 : n \div LenMax = q /\ n % LenMax = r
  BY <1>1, Division
<1>3. r \in Byte
  BY <1>1 DEF Byte
<1> DEFINE run == [i \in 1 .. q |-> LenMax]
<1>4. run \in Seq(Byte) /\ Len(run) = q
  BY <1>1
<1>5. w = run \o <<r>>
  BY <1>2 DEF write_lz4_len
<1>6. <<r>> \in Seq(Byte) /\ Len(<<r>>) = 1 /\ <<r>>[1] = r
  BY <1>3
<1> HIDE DEF run
<1>7. w \in Seq(Byte) /\ Len(w) = q + 1
  BY <1>4, <1>5, <1>6
<1>8. \A i \in 1 .. q : w[i] = run[i]
  BY <1>4, <1>5, <1>6
<1>9. w[q + 1] = r
  BY <1>4, <1>5, <1>6
<1>10. QED
  BY <1>2, <1>7, <1>8, <1>9 DEF run

(* read_lz4_len undoes write_lz4_len.                                        *)
LEMMA LenRead ==
  ASSUME NEW n \in Nat, NEW src \in Seq(Byte), NEW p \in Nat, Holds(src, p, write_lz4_len(n))
  PROVE  read_lz4_len(src, p) = Ok(n, p + Len(write_lz4_len(n)))
<1> DEFINE w == write_lz4_len(n)
           ends == {i \in (p + 1) .. Len(src) : src[i] # LenMax}
<1>1. LenMax \in Nat \ {0}
  BY TokenBounds
<1>2. PICK q \in Nat, r \in 0 .. LenMax - 1 : n \div LenMax = q /\ n % LenMax = r /\ n = LenMax * q + r
  BY <1>1, Division, ZenonT(30)
<1>3. /\ w \in Seq(Byte) /\ Len(w) = q + 1 /\ w[q + 1] = r
      /\ \A i \in 1 .. q : w[i] = LenMax
  BY <1>2, LenBytes
<1>0. Holds(src, p, w)
  OBVIOUS
<1> HIDE DEF w
<1>4. p + q + 1 <= Len(src) /\ Len(src) \in Nat
  BY <1>0, <1>3 DEF Holds
<1>5. \A i \in 1 .. q : src[p + i] = LenMax
  <2> TAKE i \in 1 .. q
  <2>1. i \in 1 .. Len(w) /\ w[i] = LenMax
    BY <1>3
  <2>2. QED
    BY <1>0, <2>1 DEF Holds
<1>6. src[p + q + 1] = r
  <2>1. src[p + (q + 1)] = w[q + 1]
    BY <1>0, <1>3 DEF Holds
  <2>2. QED
    BY <1>3, <2>1
<1>7. p + q + 1 \in ends
  BY <1>4, <1>6, <1>1
<1>8. \A k \in ends : p + q + 1 <= k
  <2> SUFFICES ASSUME NEW k \in ends, k < p + q + 1
               PROVE  FALSE
      BY <1>4
  <2>1. k - p \in 1 .. q /\ p + (k - p) = k
    OBVIOUS
  <2>2. QED
    BY <1>5, <2>1
<1>9. Min(ends) = p + q + 1
  <2>1. ends \in SUBSET Nat /\ ends # {}
    BY <1>7
  <2>2. Min(ends) \in ends /\ Min(ends) <= p + q + 1
    BY <1>7, <2>1, HasMin
  <2>3. QED
    BY <1>8, <2>1, <2>2
<1>10. read_lz4_len(src, p) = Ok((p + q + 1 - 1 - p) * LenMax + r, p + q + 1)
  BY <1>6, <1>7, <1>9 DEF read_lz4_len
<1>11. (p + q + 1 - 1 - p) * LenMax + r = n
  BY <1>1, <1>2, SMT
<1>12. QED
  BY <1>3, <1>10, <1>11 DEF w

(* The continuation of a length is bytes.                                    *)
LEMMA TailBytes ==
  ASSUME NEW n \in Nat
  PROVE  LenTail(n) \in Seq(Byte)
<1>1. CASE n >= TokenMax
  <2>1. n - TokenMax \in Nat
    BY <1>1, TokenBounds
  <2>2. QED
    BY <1>1, <2>1, LenBytes DEF LenTail
<1>2. CASE ~(n >= TokenMax)
  BY <1>2 DEF LenTail
<1>3. QED
  BY <1>1, <1>2

(* A count is read back from its half of the token and its tail. *)
LEMMA CountRead ==
  ASSUME NEW n \in Nat, NEW src \in Seq(Byte), NEW p \in Nat, Holds(src, p, LenTail(n))
  PROVE  Count(Least(n, TokenMax), src, p) = Ok(n, p + Len(LenTail(n)))
<1>1. CASE n >= TokenMax
  <2>1. n - TokenMax \in Nat /\ TokenMax \in Nat
    BY <1>1, TokenBounds
  <2>2. LenTail(n) = write_lz4_len(n - TokenMax) /\ Least(n, TokenMax) = TokenMax
    BY <1>1, <2>1 DEF LenTail, Least
  <2>3. read_lz4_len(src, p) = Ok(n - TokenMax, p + Len(LenTail(n)))
    BY <2>1, <2>2, LenRead
  <2>4. TokenMax + (n - TokenMax) = n
    BY <2>1
  <2>5. QED
    BY <2>2, <2>3, <2>4 DEF Count, Bind, Failed, Ok
<1>2. CASE ~(n >= TokenMax)
  <2>1. LenTail(n) = <<>> /\ Least(n, TokenMax) = n /\ n # TokenMax
    BY <1>2, TokenBounds DEF LenTail, Least
  <2>2. QED
    BY <2>1 DEF Count
<1>3. QED
  BY <1>1, <1>2

(* The length and the bytes of a concatenation.                              *)
LEMMA Concat ==
  ASSUME NEW v \in Seq(Byte), NEW w \in Seq(Byte)
  PROVE  v \o w \in Seq(Byte) /\ Len(v \o w) = Len(v) + Len(w) /\ Len(v) \in Nat /\ Len(w) \in Nat
OBVIOUS

(* The same of three.                                                        *)
LEMMA Concat3 ==
  ASSUME NEW u \in Seq(Byte), NEW v \in Seq(Byte), NEW w \in Seq(Byte)
  PROVE  /\ u \o v \o w \in Seq(Byte) /\ u \o v \o w = u \o (v \o w)
         /\ Len(u \o v \o w) = Len(u) + Len(v) + Len(w)
BY Concat

(* What holds a concatenation of three holds each.                           *)
LEMMA HoldsThree ==
  ASSUME NEW u \in Seq(Byte), NEW v \in Seq(Byte), NEW w \in Seq(Byte), 
         NEW src \in Seq(Byte), NEW p \in Nat, Holds(src, p, u \o v \o w)
  PROVE  Holds(src, p, u) /\ Holds(src, p + Len(u), v) /\ Holds(src, p + Len(u) + Len(v), w)
<1>1. u \o v \in Seq(Byte) /\ Len(u \o v) = Len(u) + Len(v) /\ Len(u) \in Nat /\ Len(v) \in Nat
  BY Concat
<1>2. Holds(src, p, u \o v) /\ Holds(src, p + Len(u \o v), w)
  BY <1>1, HoldsParts
<1>3. Holds(src, p, u) /\ Holds(src, p + Len(u), v)
  BY <1>2, HoldsParts
<1>4. p + Len(u \o v) = p + Len(u) + Len(v)
  BY <1>1
<1>5. QED
  BY <1>2, <1>3, <1>4

(* The halves of the token at the front of a sequence are what Count starts with.*)
LEMMA TokenRead ==
  ASSUME NEW n \in Nat, NEW m \in Nat
  PROVE  /\ Token(n, m) \in Byte
         /\ Token(n, m) \div (TokenMax + 1) = Least(n, TokenMax)
         /\ Token(n, m) % (TokenMax + 1) = Least(m, TokenMax)
<1>1. Least(n, TokenMax) \in 0 .. TokenMax /\ Least(m, TokenMax) \in 0 .. TokenMax
  BY TokenBounds DEF Least
<1>2. QED
  BY <1>1, TokenHalves DEF Token

(* Where the literals of a sequence at position p begin. *)
LiteralsAt(p, n) == p + 1 + Len(LenTail(n))

Opening(lits, m) == <<Token(Len(lits), m)>> \o LenTail(Len(lits)) \o lits

(* The opening of a sequence is bytes, and where its literals end.           *)
LEMMA OpeningBytes ==
  ASSUME NEW lits \in Seq(Byte), NEW m \in Nat, NEW p \in Nat
  PROVE  /\ Opening(lits, m) \in Seq(Byte)
         /\ LiteralsAt(p, Len(lits)) \in Nat
         /\ LiteralsAt(p, Len(lits)) + Len(lits) = p + Len(Opening(lits, m))
<1> DEFINE tok == <<Token(Len(lits), m)>>
           tail == LenTail(Len(lits))
<1>1. tok \in Seq(Byte) /\ Len(tok) = 1 /\ Len(lits) \in Nat
  BY TokenRead
<1>2. tail \in Seq(Byte) /\ Len(tail) \in Nat
  BY TailBytes
<1> HIDE DEF tok, tail
<1>3. tok \o tail \o lits \in Seq(Byte) /\ Len(tok \o tail \o lits) = Len(tok) + Len(tail) + Len(lits)
  BY <1>1, <1>2, Concat3, Zenon
<1>4. p + 1 + Len(tail) + Len(lits) = p + (Len(tok) + Len(tail) + Len(lits))
  BY <1>1, <1>2
<1>5. QED
  BY <1>1, <1>2, <1>3, <1>4 DEF Opening, LiteralsAt, tok, tail

(* A token, the count of its literals and they themselves. *)
LEMMA LiteralsRead ==
  ASSUME NEW lits \in Seq(Byte), NEW m \in Nat, NEW src \in Seq(Byte), NEW p \in Nat,
         Holds(src, p, Opening(lits, m))
  PROVE  /\ p < Len(src) /\ LiteralsAt(p, Len(lits)) + Len(lits) <= Len(src)
         /\ Count(src[p + 1] \div (TokenMax + 1), src, p + 1)
              = Ok(Len(lits), LiteralsAt(p, Len(lits)))
         /\ src[p + 1] % (TokenMax + 1) = Least(m, TokenMax)
         /\ SubSeq(src, LiteralsAt(p, Len(lits)) + 1, LiteralsAt(p, Len(lits)) + Len(lits)) = lits
<1> DEFINE q == LiteralsAt(p, Len(lits))
           L == Len(lits)
           tok == <<Token(L, m)>>
           tail == LenTail(L)
<1>1. L \in Nat
  OBVIOUS
<1>2. tok \in Seq(Byte) /\ Len(tok) = 1 /\ tok[1] = Token(L, m)
  BY <1>1, TokenRead
<1>3. tail \in Seq(Byte) /\ Len(tail) \in Nat /\ q = p + 1 + Len(tail)
  BY <1>1, TailBytes DEF LiteralsAt
<1>4. Opening(lits, m) = tok \o tail \o lits
  BY DEF Opening
<1>5. tok[1] \div (TokenMax + 1) = Least(L, TokenMax) /\ tok[1] % (TokenMax + 1) = Least(m, TokenMax)
  BY <1>1, <1>2, TokenRead
<1>6. ASSUME Holds(src, p + 1, tail)
      PROVE  Count(Least(L, TokenMax), src, p + 1) = Ok(L, p + 1 + Len(tail))
  BY <1>1, <1>6, CountRead
<1> HIDE DEF tok, tail, q
<1>8. Holds(src, p, tok) /\ Holds(src, p + 1, tail) /\ Holds(src, q, lits)
  <2>0. Holds(src, p, tok \o tail \o lits)
    BY <1>4
  <2>1. /\ Holds(src, p, tok) /\ Holds(src, p + Len(tok), tail)
        /\ Holds(src, p + Len(tok) + Len(tail), lits)
    BY <1>2, <1>3, <2>0, HoldsThree
  <2>2. p + Len(tok) = p + 1 /\ p + Len(tok) + Len(tail) = q
    BY <1>2, <1>3
  <2>3. QED
    BY <2>1, <2>2
<1>9. src[p + 1] = tok[1] /\ p < Len(src)
  BY <1>2, <1>8 DEF Holds
<1>10. q \in Nat /\ q + L <= Len(src) /\ SubSeq(src, q + 1, q + L) = lits
  BY <1>1, <1>3, <1>8, HoldsSlice DEF Holds
<1>11. Count(src[p + 1] \div (TokenMax + 1), src, p + 1) = Ok(L, q)
  BY <1>3, <1>5, <1>6, <1>8, <1>9
<1>12. src[p + 1] % (TokenMax + 1) = Least(m, TokenMax)
  BY <1>5, <1>9
<1>13. QED
  BY <1>9, <1>10, <1>11, <1>12 DEF q

(* Literals read without an error come out behind what was decoded. *)
LEMMA LiteralsOut ==
  ASSUME NEW lits \in Seq(Byte), NEW m \in Nat, NEW src \in Seq(Byte), NEW p \in Nat,
         NEW total \in Nat, NEW done \in Seq(Byte),
         Holds(src, p, Opening(lits, m)), Len(done) + Len(lits) <= total
  PROVE  Literals(src, total, p, done) = Ok(done \o lits, p + Len(Opening(lits, m)))
<1>1. PICK q \in Nat : q = LiteralsAt(p, Len(lits))
  BY OpeningBytes
<1>2. PICK c : c = Count(src[p + 1] \div (TokenMax + 1), src, p + 1)
  OBVIOUS
<1>3. /\ c = Ok(Len(lits), q) /\ q + Len(lits) <= Len(src)
      /\ SubSeq(src, q + 1, q + Len(lits)) = lits
  BY <1>1, <1>2, LiteralsRead, SMTT(30)
<1>4. q + Len(lits) = p + Len(Opening(lits, m))
  BY <1>1, OpeningBytes
<1>5. c.err = "none" /\ c.val = Len(lits) /\ c.rest = q
  BY <1>3 DEF Ok
<1>6. ~(q + Len(lits) > Len(src) \/ Len(done) + Len(lits) > total)
  BY <1>3
<1>7. QED
  BY <1>2, <1>3, <1>4, <1>5, <1>6 DEF Literals, Bind, Failed

(* The decoder reads what EmitLast wrote, and the block ends there.          *)
LEMMA LastRead ==
  ASSUME NEW lits \in Seq(Byte), NEW src \in Seq(Byte), NEW p \in Nat, NEW total \in Nat,
         NEW done \in Seq(Byte),
         Holds(src, p, EmitLast(lits)), Len(src) = p + Len(EmitLast(lits)),
         Len(done) + Len(lits) <= total
  PROVE  Sequence(src, total, p, done) = Ok(done \o lits, Len(src))
<1>1. EmitLast(lits) = Opening(lits, 0) /\ 0 \in Nat
  BY DEF EmitLast, Opening
<1>2. PICK m \in Nat : EmitLast(lits) = Opening(lits, m)
  BY <1>1
<1>3. PICK l : l = Ok(done \o lits, p + Len(Opening(lits, m)))
  OBVIOUS
<1>4. l.err = "none" /\ l.rest >= Len(src)
  BY <1>2, <1>3 DEF Ok
<1>5. Literals(src, total, p, done) = l
  BY <1>2, <1>3, LiteralsOut
<1>7. Sequence(src, total, p, done) = l
  BY <1>4, <1>5 DEF Sequence, Bind, Failed
<1>6. QED
  BY <1>2, <1>3, <1>7

Distances == 1..MaxDistance

(* A sequence that the encoder emitted is read back as its literals and its  *)
(* match.                                                                    *)
LEMMA SequenceRead ==
  ASSUME NEW lits \in Seq(Byte), NEW offset \in Distances, NEW mlen \in Nat, mlen >= MinMatch,
         NEW src \in Seq(Byte), NEW p \in Nat, NEW total \in Nat, NEW done \in Seq(Byte),
         Holds(src, p, EmitSequence(lits, offset, mlen)),
         offset <= Len(done) + Len(lits), Len(done) + Len(lits) + mlen <= total
  PROVE  Sequence(src, total, p, done)
           = Ok(Repeat(done \o lits, offset, mlen), p + Len(EmitSequence(lits, offset, mlen)))
<1>1. PICK m \in Nat : m = mlen - MinMatch /\ m + MinMatch = mlen
  BY DEF MinMatch
<1>2. PICK o, t : o = Opening(lits, m) /\ t = LenTail(m)
  OBVIOUS
<1>21. o \in Seq(Byte) /\ t \in Seq(Byte)
  BY <1>2, OpeningBytes, TailBytes
<1>22. Len(o) \in Nat /\ Len(t) \in Nat
  BY <1>21
<1>3. PICK d : d = Le(offset, 2) /\ d \in Seq(Byte) /\ Len(d) = 2 /\ FromLe(d) = offset
  <2>0. MaxDistance \in Int
    BY SMT DEF MaxDistance
  <2>1. offset \in 0..MaxDistance /\ offset \in Int /\ 2 \in Nat
    BY <2>0 DEF Distances
  <2>2. QED
    BY <2>1, LeIsBytes, Le2
<1>4. EmitSequence(lits, offset, mlen) = o \o d \o t
  BY <1>1, <1>2, <1>3 DEF EmitSequence, Opening
<1>5. Holds(src, p, o \o d \o t)
  BY <1>4
<1>6. src[p + 1] % (TokenMax + 1) = Least(m, TokenMax)
  <2>2. Holds(src, p, o)
    BY <1>21, <1>3, <1>5, HoldsThree
  <2>3. QED
    BY <1>2, <2>2, LiteralsRead
<1>7. Holds(src, p, o) /\ Holds(src, p + Len(o), d) /\ Holds(src, p + Len(o) + 2, t)
  BY <1>21, <1>3, <1>5, HoldsThree
<1>8. PICK at \in Nat : at = p + Len(o)
  BY <1>22
<1>9. /\ at + 2 <= Len(src) /\ SubSeq(src, at + 1, at + 2) = d
      /\ Holds(src, at + 2, t) /\ Len(src) \in Nat
  <2>1. Holds(src, at, d) /\ Holds(src, at + 2, t)
    BY <1>3, <1>7, <1>8
  <2>2. SubSeq(src, at + 1, at + Len(d)) = d /\ at + Len(d) <= Len(src)
    BY <1>3, <2>1, HoldsSlice DEF Holds
  <2>3. at + Len(d) = at + 2
    BY <1>3
  <2>5. Len(src) \in Nat
    OBVIOUS
  <2>4. QED
    BY <2>1, <2>2, <2>3, <2>5
<1>10. PICK both \in Seq(Byte) : both = done \o lits /\ Len(both) = Len(done) + Len(lits)
  BY Concat
<1>11. Literals(src, total, p, done) = Ok(both, at)
  <2>1. Len(done) + Len(lits) <= total
    BY <1>1
  <2>2. QED
    BY <1>2, <1>7, <1>8, <1>10, <2>1, LiteralsOut, SMTT(30)
<1>12. Count(Least(m, TokenMax), src, at + 2) = Ok(m, at + 2 + Len(t))
  <2>1. PICK x \in Nat : x = at + 2
    OBVIOUS
  <2>2. QED
    BY <1>2, <1>9, <2>1, CountRead
<1>13. Match(src, total, at, Least(m, TokenMax), both) = Ok(Repeat(both, offset, mlen), at + 2 + Len(t))
  <2>0. offset \in Int /\ offset >= 1
    <3>1. MaxDistance \in Int
      BY SMT DEF MaxDistance
    <3>2. QED
      BY <3>1 DEF Distances
  <2>1. ~(at + 2 > Len(src) \/ offset = 0 \/ offset > Len(both))
    BY <1>9, <1>10, <2>0
  <2>2. PICK c : c = Ok(m, at + 2 + Len(t))
    OBVIOUS
  <2>3. c.err = "none" /\ c.val = m /\ c.rest = at + 2 + Len(t)
    BY <2>2 DEF Ok
  <2>4. Len(both) + (m + MinMatch) <= total /\ Len(both) \in Nat
    BY <1>1, <1>10 DEF MinMatch
  <2>5. ~(Len(both) + m + MinMatch > total)
    BY <1>1, <2>4 DEF MinMatch
  <2>6. QED
    BY <1>1, <1>3, <1>9, <1>12, <2>1, <2>2, <2>3, <2>5 DEF Match, Bind, Failed
<1>14. PICK l : l = Ok(both, at)
  OBVIOUS
<1>141. l.err = "none" /\ l.rest = at /\ l.val = both
  BY <1>14 DEF Ok
<1>15. Sequence(src, total, p, done) = Ok(Repeat(both, offset, mlen), at + 2 + Len(t))
  <2>1. ~(at >= Len(src))
    BY <1>9
  <2>2. QED
    BY <1>6, <1>11, <1>13, <1>14, <1>141, <2>1 DEF Sequence, Bind, Failed
<1>16. at + 2 + Len(t) = p + Len(EmitSequence(lits, offset, mlen))
  <2>1. Len(o \o d \o t) = Len(o) + 2 + Len(t)
    <3>1. Len(o \o d \o t) = Len(o) + Len(d) + Len(t)
      BY <1>21, <1>3, Concat3
    <3>2. QED
      BY <1>3, <3>1
  <2>2. QED
    BY <1>22, <1>4, <1>8, <2>1
<1>17. QED
  BY <1>10, <1>15, <1>16

(* The premises of the two lemmas above in one predicate each.               *)
SequenceAt(src, total, p, done, lits, offset, mlen) ==
  /\ lits \in Seq(Byte) /\ offset \in Distances /\ mlen \in Nat /\ mlen >= MinMatch
  /\ src \in Seq(Byte) /\ p \in Nat /\ total \in Nat /\ done \in Seq(Byte)
  /\ Holds(src, p, EmitSequence(lits, offset, mlen))
  /\ offset <= Len(done) + Len(lits) /\ Len(done) + Len(lits) + mlen <= total

LastAt(src, total, p, done, lits) ==
  /\ lits \in Seq(Byte) /\ src \in Seq(Byte) /\ p \in Nat /\ total \in Nat /\ done \in Seq(Byte)
  /\ Holds(src, p, EmitLast(lits)) /\ Len(src) = p + Len(EmitLast(lits))
  /\ Len(done) + Len(lits) <= total

(* SequenceRead, its premises bundled.                                       *)
LEMMA SequenceAtRead ==
  ASSUME NEW lits, NEW offset, NEW mlen, NEW src, NEW p, NEW total, NEW done,
         SequenceAt(src, total, p, done, lits, offset, mlen)
  PROVE  Sequence(src, total, p, done)
           = Ok(Repeat(done \o lits, offset, mlen), p + Len(EmitSequence(lits, offset, mlen)))
BY SequenceRead, SMT DEF SequenceAt

(* LastRead, its premises bundled.                                           *)
LEMMA LastAtRead ==
  ASSUME NEW lits, NEW src, NEW p, NEW total, NEW done, LastAt(src, total, p, done, lits)
  PROVE  Sequence(src, total, p, done) = Ok(done \o lits, Len(src))
BY LastRead, ZenonT(30) DEF LastAt

(* The states of the decoder's loop, one turn of it, and the loop itself as  *)
(* the function Sequences defines.                                           *)
Turns == [err : {"none"}, val : Seq(Nat), rest : Nat]

Turned(src, total, s, F) ==
  IF s.rest >= Len(src) THEN Ok(s.val, <<>>)
  ELSE Bind(Sequence(src, total, s.rest, s.val), LAMBDA next : F[next])

Loop(src, total) == CHOOSE Run : Run = [s \in Turns |-> Turned(src, total, s, Run)]

(* Bytes are numbers.                                                        *)
LEMMA ByteIsNat == \A b \in Byte : b \in Nat
BY DEF Byte

(* A byte is a number.                                                       *)
LEMMA BytesAreNumbers ==
  ASSUME NEW w \in Seq(Byte)
  PROVE  w \in Seq(Nat)
<1>1. w \in [1..Len(w) -> Byte] /\ Len(w) \in Nat
  OBVIOUS
<1>2. w \in [1..Len(w) -> Nat]
  BY <1>1, ByteIsNat
<1>3. QED
  BY <1>1, <1>2

(* The members of a byte string are bytes.                                   *)
LEMMA ByteAt ==
  ASSUME NEW w \in Seq(Byte), NEW i \in 1..Len(w)
  PROVE  w[i] \in Byte /\ w[i] \in Nat
<1>1. w[i] \in Byte
  OBVIOUS
<1>2. QED
  BY <1>1, ByteIsNat

(* The length of a concatenation of numbers.                                 *)
LEMMA ConcatN ==
  ASSUME NEW v \in Seq(Nat), NEW w \in Seq(Nat)
  PROVE  v \o w \in Seq(Nat) /\ Len(v \o w) = Len(v) + Len(w)
OBVIOUS

(* A slice of numbers, position by position.                                 *)
LEMMA SliceN ==
  ASSUME NEW w \in Seq(Nat), NEW i \in Nat, NEW j \in Nat, i <= j, j <= Len(w)
  PROVE  /\ SubSeq(w, i + 1, j) \in Seq(Nat) /\ Len(SubSeq(w, i + 1, j)) = j - i
         /\ \A k \in 1..(j - i) : SubSeq(w, i + 1, j)[k] = w[i + k]
<1>1. SubSeq(w, i + 1, j) \in Seq(Nat) /\ Len(SubSeq(w, i + 1, j)) = j - i
  OBVIOUS
<1>2. \A k \in 1..(j - i) : SubSeq(w, i + 1, j)[k] = w[i + k]
  <2> TAKE k \in 1..(j - i)
  <2>1. (i + 1) + k - 1 = i + k
    OBVIOUS
  <2>2. SubSeq(w, i + 1, j)[k] = w[(i + 1) + k - 1]
    BY <1>1
  <2>3. QED
    BY <2>1, <2>2
<1>3. QED
  BY <1>1, <1>2

(* A length or a count that was read is a number, and reading it moves on.   *)
LEMMA LenMoves ==
  ASSUME NEW src \in Seq(Byte), NEW p \in Nat, read_lz4_len(src, p).err = "none"
  PROVE  /\ read_lz4_len(src, p).val \in Nat
         /\ read_lz4_len(src, p).rest \in Nat
         /\ read_lz4_len(src, p).rest > p
<1> DEFINE ends == {i \in (p + 1)..Len(src) : src[i] # LenMax}
           e == Min(ends)
<1>1. ends # {}
  BY DEF read_lz4_len, Err
<1>2. ends \in SUBSET Nat
  OBVIOUS
<1>3. e \in ends
  BY <1>1, <1>2, HasMin
<1>4. e \in Nat /\ e > p /\ src[e] \in Nat
  <2>1. PICK i : i = e
    OBVIOUS
  <2>2. i \in ends
    BY <1>3, <2>1
  <2>3. i \in Nat /\ i > p /\ i \in 1..Len(src)
    BY <2>2
  <2>4. src[i] \in Nat
    BY <2>3, ByteAt
  <2>5. QED
    BY <2>1, <2>3, <2>4
<1>5. read_lz4_len(src, p) = Ok((e - 1 - p) * LenMax + src[e], e)
  BY <1>1 DEF read_lz4_len
<1>6. LenMax \in Nat
  BY TokenBounds
<1>7. (e - 1 - p) * LenMax + src[e] \in Nat
  <2> HIDE DEF e
  <2>1. e - 1 - p \in Nat
    BY <1>4
  <2>2. (e - 1 - p) * LenMax \in Nat
    BY <1>6, <2>1, SMT
  <2>3. QED
    BY <1>4, <2>2
<1>8. QED
  BY <1>4, <1>5, <1>7 DEF Ok

(* Reading a length does not move back.                                      *)
LEMMA CountMoves ==
  ASSUME NEW src \in Seq(Byte), NEW p \in Nat, NEW half \in Nat, Count(half, src, p).err = "none"
  PROVE  /\ Count(half, src, p).val \in Nat
         /\ Count(half, src, p).rest \in Nat
         /\ Count(half, src, p).rest >= p
<1>1. CASE half # TokenMax
  <2>1. Count(half, src, p) = Ok(half, p)
    BY <1>1 DEF Count
  <2>2. p >= p
    OBVIOUS
  <2>3. QED
    BY <2>1, <2>2 DEF Ok
<1>2. CASE half = TokenMax
  <2>1. PICK r : r = read_lz4_len(src, p)
    OBVIOUS
  <2>2. Count(half, src, p) = IF r.err # "none" THEN r ELSE Ok(half + r.val, r.rest)
    BY <1>2, <2>1 DEF Count, Bind, Failed
  <2>3. r.err = "none"
    BY <2>2
  <2>4. Count(half, src, p) = Ok(half + r.val, r.rest) /\ r.val \in Nat /\ r.rest \in Nat /\ r.rest > p
    BY <2>1, <2>2, <2>3, LenMoves
  <2>5. half + r.val \in Nat /\ r.rest >= p
    BY <2>4
  <2>6. QED
    BY <2>4, <2>5 DEF Ok
<1>3. QED
  BY <1>1, <1>2

(* Both halves of a token are numbers.                                       *)
LEMMA Halves ==
  ASSUME NEW b \in Byte
  PROVE  b \div (TokenMax + 1) \in Nat /\ b % (TokenMax + 1) \in Nat
BY TokenBounds, SMT DEF Byte

(* Reading the literals of a sequence moves on, so a turn of the loop does.  *)
LEMMA LiteralsMove ==
  ASSUME NEW src \in Seq(Byte), NEW total, NEW p \in Nat, p < Len(src), NEW done \in Seq(Nat),
         Literals(src, total, p, done).err = "none"
  PROVE  /\ Literals(src, total, p, done) \in Turns
         /\ Literals(src, total, p, done).rest > p
<1>1. PICK c : c = Count(src[p + 1] \div (TokenMax + 1), src, p + 1)
  OBVIOUS
<1>2. PICK l : l = Literals(src, total, p, done)
  OBVIOUS
<1>3. l = IF c.err # "none" THEN c
          ELSE IF c.rest + c.val > Len(src) \/ Len(done) + c.val > total THEN Err("InvalidValue")
          ELSE Ok(done \o SubSeq(src, c.rest + 1, c.rest + c.val), c.rest + c.val)
  BY <1>1, <1>2 DEF Literals, Bind, Failed
<1>4. c.err = "none" /\ ~(c.rest + c.val > Len(src))
  BY <1>2, <1>3 DEF Err
<1>5. l = Ok(done \o SubSeq(src, c.rest + 1, c.rest + c.val), c.rest + c.val)
  BY <1>2, <1>3 DEF Err
<1>6. c.val \in Nat /\ c.rest \in Nat /\ c.rest >= p + 1
  <2>1. src[p + 1] \div (TokenMax + 1) \in Nat
    BY Halves
  <2>2. QED
    BY <1>1, <1>4, <2>1, CountMoves
<1>7. SubSeq(src, c.rest + 1, c.rest + c.val) \in Seq(Nat)
  <2>1. src \in Seq(Nat)
    BY BytesAreNumbers
  <2>2. PICK i, j : i = c.rest /\ j = c.rest + c.val
    OBVIOUS
  <2>3. i \in Nat /\ j \in Nat /\ i <= j /\ j <= Len(src)
    BY <1>4, <1>6, <2>2
  <2>4. QED
    BY <2>1, <2>2, <2>3, SliceN
<1>8. done \o SubSeq(src, c.rest + 1, c.rest + c.val) \in Seq(Nat)
  BY <1>7
<1>9. c.rest + c.val \in Nat /\ c.rest + c.val > p
  BY <1>6
<1>10. QED
  BY <1>2, <1>5, <1>8, <1>9 DEF Ok, Turns

(* A match adds as many numbers as it is long.                               *)
LEMMA RepeatIsNumbers ==
  ASSUME NEW done \in Seq(Nat), NEW offset \in 1..Len(done), NEW n \in Nat
  PROVE  Repeat(done, offset, n) \in Seq(Nat) /\ Len(Repeat(done, offset, n)) = Len(done) + n
<1> DEFINE copy == [i \in 1..n |-> done[Len(done) - offset + 1 + ((i - 1) % offset)]]
<1>1. copy \in Seq(Nat) /\ Len(copy) = n
  <2>1. \A i \in 1..n : Len(done) - offset + 1 + ((i - 1) % offset) \in 1..Len(done)
    <3> TAKE i \in 1..n
    <3>1. (i - 1) % offset \in 0..(offset - 1)
      BY SMT
    <3>2. QED
      BY <3>1
  <2>2. \A i \in 1..n : done[Len(done) - offset + 1 + ((i - 1) % offset)] \in Nat
    BY <2>1
  <2>3. copy \in [1..n -> Nat]
    BY <2>2
  <2>4. QED
    BY <2>3
<1> HIDE DEF copy
<1>2. done \o copy \in Seq(Nat) /\ Len(done \o copy) = Len(done) + n
  BY <1>1, ConcatN
<1>3. QED
  BY <1>2 DEF Repeat, copy

(* Reading a whole sequence moves on.                                        *)
LEMMA SequenceMoves ==
  ASSUME NEW src \in Seq(Byte), NEW total, NEW p \in Nat, p < Len(src), NEW done \in Seq(Nat),
         Sequence(src, total, p, done).err = "none"
  PROVE  /\ Sequence(src, total, p, done) \in Turns
         /\ Sequence(src, total, p, done).rest > p
<1>1. PICK n : n = Sequence(src, total, p, done)
  OBVIOUS
<1>2. PICK l : l = Literals(src, total, p, done)
  OBVIOUS
<1>3. PICK half : half = src[p + 1] % (TokenMax + 1)
  OBVIOUS
<1>4. half \in Nat
  BY <1>3, Halves
<1>5. n = IF l.err # "none" THEN l ELSE IF l.rest >= Len(src) THEN l
          ELSE Match(src, total, l.rest, half, l.val)
  BY <1>1, <1>2, <1>3 DEF Sequence, Bind, Failed
<1>6. l.err = "none"
  BY <1>1, <1>5
<1>7. l \in Turns /\ l.rest > p
  BY <1>2, <1>6, LiteralsMove
<1>8. CASE l.rest >= Len(src)
  BY <1>1, <1>5, <1>6, <1>7, <1>8
<1>9. CASE ~(l.rest >= Len(src))
  <2>1. PICK at, both : at = l.rest /\ both = l.val
    OBVIOUS
  <2>2. at \in Nat /\ both \in Seq(Nat) /\ at > p
    BY <1>7, <2>1 DEF Turns
  <2>3. n = Match(src, total, at, half, both) /\ n.err = "none"
    BY <1>1, <1>5, <1>6, <1>9, <2>1
  <2>4. PICK offset : offset = FromLe(SubSeq(src, at + 1, at + 2))
    OBVIOUS
  <2>5. PICK c : c = Count(half, src, at + 2)
    OBVIOUS
  <2>6. n = IF at + 2 > Len(src) \/ offset = 0 \/ offset > Len(both) THEN Err("InvalidValue")
            ELSE IF c.err # "none" THEN c
            ELSE IF Len(both) + c.val + MinMatch > total THEN Err("InvalidValue")
            ELSE Ok(Repeat(both, offset, c.val + MinMatch), c.rest)
    BY <2>3, <2>4, <2>5 DEF Match, Bind, Failed
  <2>7. /\ ~(at + 2 > Len(src) \/ offset = 0 \/ offset > Len(both))
        /\ c.err = "none"
        /\ n = Ok(Repeat(both, offset, c.val + MinMatch), c.rest)
    BY <2>3, <2>6 DEF Err
  <2>8. c.val \in Nat /\ c.rest \in Nat /\ c.rest >= at + 2
    BY <1>4, <2>2, <2>5, <2>7, CountMoves
  <2>9. offset \in Nat
    <3>1. PICK s : s = SubSeq(src, at + 1, at + 2)
      OBVIOUS
    <3>2. Len(s) = 2 /\ s[1] = src[at + 1] /\ s[2] = src[at + 2]
      BY <2>2, <2>7, <3>1
    <3>3. src[at + 1] \in Nat /\ src[at + 2] \in Nat
      <4>1. at + 1 \in 1..Len(src) /\ at + 2 \in 1..Len(src)
        BY <2>2, <2>7
      <4>2. QED
        BY <4>1, ByteAt
    <3>4. FromLe(s) = s[1] + s[2] * 256
      BY <3>2, <3>3 DEF FromLe
    <3>5. s[1] \in Nat /\ s[2] \in Nat
      BY <3>2, <3>3
    <3>6. s[1] + s[2] * 256 \in Nat
      BY <3>5, SMT
    <3>7. QED
      BY <2>4, <3>1, <3>4, <3>6
  <2>10. offset \in 1..Len(both)
    BY <2>2, <2>7, <2>9
  <2>11. c.val + MinMatch \in Nat
    BY <2>8 DEF MinMatch
  <2>12. Repeat(both, offset, c.val + MinMatch) \in Seq(Nat)
    BY <2>2, <2>10, <2>11, RepeatIsNumbers
  <2>13. c.rest > p
    BY <2>2, <2>8
  <2>14. QED
    BY <1>1, <2>7, <2>8, <2>12, <2>13 DEF Turns, Ok
<1>10. QED
  BY <1>8, <1>9

(* The loop does what its definition says: it is defined on every state of a *)
(* decoder, since every turn moves on.                                       *)
Below(src, k) == {s \in Turns : Len(src) - s.rest <= k}

Approximates(src, total, k, F) == F = [s \in Below(src, k) |-> Turned(src, total, s, F)]

(* A turn asks the loop only for positions behind its own.                   *)
LEMMA TurnedLocal ==
  ASSUME NEW src \in Seq(Byte), NEW total, NEW k \in Nat, NEW s \in Below(src, k + 1),
         NEW F, NEW G, \A x \in Below(src, k) : F[x] = G[x]
  PROVE  Turned(src, total, s, F) = Turned(src, total, s, G)
<1>1. s.rest \in Nat /\ s.val \in Seq(Nat) /\ Len(src) - s.rest <= k + 1 /\ Len(src) \in Nat
  BY DEF Below, Turns
<1>2. CASE s.rest >= Len(src)
  BY <1>2 DEF Turned
<1>3. CASE ~(s.rest >= Len(src))
  <2>1. PICK n : n = Sequence(src, total, s.rest, s.val)
    OBVIOUS
  <2>2. /\ Turned(src, total, s, F) = IF n.err # "none" THEN n ELSE F[n]
        /\ Turned(src, total, s, G) = IF n.err # "none" THEN n ELSE G[n]
    BY <1>3, <2>1 DEF Turned, Bind, Failed
  <2>3. CASE n.err # "none"
    BY <2>2, <2>3
  <2>4. CASE n.err = "none"
    <3>1. n \in Turns /\ n.rest > s.rest
      BY <1>1, <1>3, <2>1, <2>4, SequenceMoves
    <3>2. n.rest \in Nat
      BY <3>1 DEF Turns
    <3>3. n \in Below(src, k)
      BY <1>1, <3>1, <3>2 DEF Below
    <3>4. QED
      BY <2>2, <3>3
  <2>5. QED
    BY <2>3, <2>4
<1>4. QED
  BY <1>2, <1>3

(* The loop as far as k bytes from the end exists.                           *)
LEMMA Approximation ==
  ASSUME NEW src \in Seq(Byte), NEW total, NEW k \in Nat
  PROVE  \E F : Approximates(src, total, k, F)
<1> DEFINE Bad == {j \in Nat : ~ \E F : Approximates(src, total, j, F)}
<1>1. SUFFICES ASSUME Bad # {}
               PROVE  FALSE
  OBVIOUS
<1>2. PICK j \in Bad : \A i \in Bad : j <= i
  BY <1>1, HasMin
<1>3. CASE j = 0
  <2> DEFINE F == [s \in Below(src, 0) |-> Turned(src, total, s, <<>>)]
  <2>1. \A s \in Below(src, 0) : Turned(src, total, s, <<>>) = Turned(src, total, s, F)
    <3> TAKE s \in Below(src, 0)
    <3>1. s.rest \in Nat /\ Len(src) - s.rest <= 0 /\ Len(src) \in Nat
      BY DEF Below, Turns
    <3>2. s.rest >= Len(src)
      BY <3>1
    <3>3. QED
      BY <3>2 DEF Turned
  <2>2. F = [s \in Below(src, 0) |-> Turned(src, total, s, F)]
    BY <2>1
  <2>3. Approximates(src, total, 0, F)
    BY <2>2 DEF Approximates
  <2>4. QED
    BY <1>2, <1>3, <2>3
<1>4. CASE j # 0
  <2>1. PICK i \in Nat : j = i + 1
    <3>1. j - 1 \in Nat /\ j = (j - 1) + 1
      BY <1>2, <1>4
    <3>2. QED
      BY <3>1
  <2>2. i \notin Bad
    BY <1>2, <2>1
  <2>3. PICK F : Approximates(src, total, i, F)
    BY <2>2
  <2> DEFINE G == [s \in Below(src, i + 1) |-> Turned(src, total, s, F)]
  <2>4. \A x \in Below(src, i) : x \in Below(src, i + 1)
    <3> TAKE x \in Below(src, i)
    <3>1. x \in Turns /\ x.rest \in Nat /\ Len(src) - x.rest <= i /\ Len(src) \in Nat
      BY DEF Below, Turns
    <3>2. QED
      BY <3>1 DEF Below
  <2>5. \A x \in Below(src, i) : F[x] = G[x]
    BY <2>3, <2>4 DEF Approximates
  <2>6. \A s \in Below(src, i + 1) : Turned(src, total, s, F) = Turned(src, total, s, G)
    <3> TAKE s \in Below(src, i + 1)
    <3>1. PICK H : H = G
      OBVIOUS
    <3>2. \A x \in Below(src, i) : F[x] = H[x]
      BY <2>5, <3>1
    <3>3. Turned(src, total, s, F) = Turned(src, total, s, H)
      BY <3>2, TurnedLocal
    <3>4. QED
      BY <3>1, <3>3
  <2>7. G = [s \in Below(src, i + 1) |-> Turned(src, total, s, G)]
    BY <2>6
  <2>8. Approximates(src, total, i + 1, G)
    BY <2>7 DEF Approximates
  <2>9. QED
    BY <1>2, <2>1, <2>8
<1>5. QED
  BY <1>3, <1>4

(* The recursive function of the loop is defined: every turn moves on, so that*)
(* the recursion is well-founded.                                            *)
LEMMA LoopUnfolds ==
  ASSUME NEW src \in Seq(Byte), NEW total, NEW s \in Turns
  PROVE  Loop(src, total)[s] = Turned(src, total, s, Loop(src, total))
<1>1. Len(src) \in Nat
  OBVIOUS
<1>2. PICK F : Approximates(src, total, Len(src), F)
  BY <1>1, Approximation
<1>3. Below(src, Len(src)) = Turns
  <2>1. \A x \in Turns : Len(src) - x.rest <= Len(src)
    BY <1>1 DEF Turns
  <2>2. QED
    BY <2>1 DEF Below
<1>4. F = [x \in Turns |-> Turned(src, total, x, F)]
  BY <1>2, <1>3 DEF Approximates
<1>5. Loop(src, total) = [x \in Turns |-> Turned(src, total, x, Loop(src, total))]
  BY <1>4 DEF Loop
<1>6. QED
  BY <1>5

(* The decoder is that loop.                                                 *)
LEMMA SequencesLoop ==
  ASSUME NEW src, NEW total, NEW at, NEW decoded
  PROVE  Sequences(src, total, at, decoded) = Loop(src, total)[Ok(decoded, at)]
BY DEF Sequences, Loop, Turned, Turns

(* A sequence that reads without an error, and the rest behind it.           *)
LEMMA SequencesStep ==
  ASSUME NEW src \in Seq(Byte), NEW total, NEW p \in Nat, p < Len(src), NEW done \in Seq(Nat),
         NEW q, NEW more, Sequence(src, total, p, done) = Ok(more, q)
  PROVE  Sequences(src, total, p, done) = Sequences(src, total, q, more)
<1>1. Ok(done, p) \in Turns /\ Ok(done, p).rest = p /\ Ok(done, p).val = done /\ Ok(more, q).err = "none"
  BY DEF Ok, Turns
<1>2. PICK s, n, F : s = Ok(done, p) /\ n = Ok(more, q) /\ F = Loop(src, total)
  OBVIOUS
<1>3. F[s] = Turned(src, total, s, F)
  BY <1>1, <1>2, LoopUnfolds
<1>4. ~(s.rest >= Len(src)) /\ n.err = "none"
  BY <1>1, <1>2
<1>5. Turned(src, total, s, F) = F[n]
  BY <1>1, <1>2, <1>4 DEF Turned, Bind, Failed
<1>6. QED
  BY <1>2, <1>3, <1>5, SequencesLoop

(* At the end of the block the loop is done.                                 *)
LEMMA SequencesEnd ==
  ASSUME NEW src \in Seq(Byte), NEW total, NEW done \in Seq(Nat)
  PROVE  Sequences(src, total, Len(src), done) = Ok(done, <<>>)
<1>1. /\ Ok(done, Len(src)) \in Turns /\ Ok(done, Len(src)).rest = Len(src)
      /\ Ok(done, Len(src)).val = done /\ Len(src) \in Nat
  BY DEF Ok, Turns
<1>2. PICK s, F : s = Ok(done, Len(src)) /\ F = Loop(src, total)
  OBVIOUS
<1>3. F[s] = Turned(src, total, s, F)
  BY <1>1, <1>2, LoopUnfolds
<1>4. s.rest >= Len(src)
  BY <1>1, <1>2
<1>5. QED
  BY <1>1, <1>2, <1>3, <1>4, SequencesLoop DEF Turned

(* A slice of bytes, position by position.                                   *)
LEMMA SliceB ==
  ASSUME NEW w \in Seq(Byte), NEW i \in Nat, NEW j \in Nat, i <= j, j <= Len(w)
  PROVE  /\ SubSeq(w, i + 1, j) \in Seq(Byte) /\ Len(SubSeq(w, i + 1, j)) = j - i
         /\ \A k \in 1..(j - i) : SubSeq(w, i + 1, j)[k] = w[i + k]
<1>1. SubSeq(w, i + 1, j) \in Seq(Byte) /\ Len(SubSeq(w, i + 1, j)) = j - i
  OBVIOUS
<1>2. \A k \in 1..(j - i) : SubSeq(w, i + 1, j)[k] = w[i + k]
  <2> TAKE k \in 1..(j - i)
  <2>1. (i + 1) + k - 1 = i + k
    OBVIOUS
  <2>2. SubSeq(w, i + 1, j)[k] = w[(i + 1) + k - 1]
    BY <1>1
  <2>3. QED
    BY <2>1, <2>2
<1>3. QED
  BY <1>1, <1>2

(* The first bytes of a sequence.                                            *)
LEMMA FirstB ==
  ASSUME NEW w \in Seq(Byte), NEW j \in Nat, j <= Len(w)
  PROVE  /\ SubSeq(w, 1, j) \in Seq(Byte) /\ Len(SubSeq(w, 1, j)) = j
         /\ \A k \in 1..j : SubSeq(w, 1, j)[k] = w[k]
<1>1. SubSeq(w, 1, j) \in Seq(Byte) /\ Len(SubSeq(w, 1, j)) = j
  OBVIOUS
<1>2. \A k \in 1..j : SubSeq(w, 1, j)[k] = w[k]
  <2> TAKE k \in 1..j
  <2>1. 1 + k - 1 = k
    OBVIOUS
  <2>2. SubSeq(w, 1, j)[k] = w[1 + k - 1]
    BY <1>1
  <2>3. QED
    BY <2>1, <2>2
<1>3. QED
  BY <1>1, <1>2

(* What stands in a concatenation.                                           *)
LEMMA ConcatAt ==
  ASSUME NEW v \in Seq(Byte), NEW w \in Seq(Byte)
  PROVE  /\ \A k \in 1..Len(v) : (v \o w)[k] = v[k]
         /\ \A k \in 1..Len(w) : (v \o w)[Len(v) + k] = w[k]
OBVIOUS

(* Two sequences of bytes that agree everywhere are one.                     *)
LEMMA SameBytes ==
  ASSUME NEW v \in Seq(Byte), NEW w \in Seq(Byte), Len(v) = Len(w),
         \A k \in 1..Len(v) : v[k] = w[k]
  PROVE  v = w
OBVIOUS

(* Two adjacent slices make one.                                             *)
LEMMA SliceJoin ==
  ASSUME NEW d \in Seq(Byte), NEW a \in Nat, NEW b \in Nat, a <= b, b <= Len(d)
  PROVE  SubSeq(d, 1, a) \o SubSeq(d, a + 1, b) = SubSeq(d, 1, b)
<1>0. a <= Len(d)
  OBVIOUS
<1>9. PICK u, v, w : u = SubSeq(d, 1, a) /\ v = SubSeq(d, a + 1, b) /\ w = SubSeq(d, 1, b)
  OBVIOUS
<1>1. u \in Seq(Byte) /\ Len(u) = a /\ \A k \in 1..a : u[k] = d[k]
  BY <1>0, <1>9, FirstB
<1>2. v \in Seq(Byte) /\ Len(v) = b - a /\ \A k \in 1..(b - a) : v[k] = d[a + k]
  BY <1>9, SliceB
<1>3. w \in Seq(Byte) /\ Len(w) = b /\ \A k \in 1..b : w[k] = d[k]
  BY <1>9, FirstB
<1>10. PICK j : j = u \o v
  OBVIOUS
<1>11. j \in Seq(Byte) /\ Len(j) = Len(u) + Len(v)
  BY <1>1, <1>2, <1>10, Concat
<1>12. (\A k \in 1..Len(u) : j[k] = u[k]) /\ (\A k \in 1..Len(v) : j[Len(u) + k] = v[k])
  BY <1>1, <1>2, <1>10, ConcatAt
<1>4. /\ j \in Seq(Byte) /\ Len(j) = a + (b - a)
      /\ (\A k \in 1..a : j[k] = u[k]) /\ (\A k \in 1..(b - a) : j[a + k] = v[k])
  BY <1>1, <1>2, <1>11, <1>12
<1>5. Len(j) = b
  BY <1>4
<1>6. \A k \in 1..b : j[k] = w[k]
  <2> TAKE k \in 1..b
  <2>1. CASE k <= a
    <3>1. k \in 1..a
      BY <2>1
    <3>2. QED
      BY <1>1, <1>3, <1>4, <3>1
  <2>2. CASE ~(k <= a)
    <3>1. k - a \in 1..(b - a) /\ a + (k - a) = k
      BY <2>2
    <3>2. j[k] = v[k - a] /\ v[k - a] = d[k]
      BY <1>2, <1>4, <3>1
    <3>3. QED
      BY <1>3, <3>2
  <2>3. QED
    BY <2>1, <2>2
<1>7. QED
  BY <1>3, <1>4, <1>5, <1>6, <1>9, <1>10, SameBytes

(* common_prefix_len: both begin alike for that many bytes.                  *)
LEMMA PrefixAgrees ==
  ASSUME NEW a \in Seq(Byte), NEW b \in Seq(Byte)
  PROVE  /\ common_prefix_len(a, b) \in Nat
         /\ common_prefix_len(a, b) <= Len(a) /\ common_prefix_len(a, b) <= Len(b)
         /\ \A i \in 1..common_prefix_len(a, b) : a[i] = b[i]
<1> DEFINE n == Least(Len(a), Len(b))
           differ == {i \in 1..n : a[i] # b[i]}
<1>1. n \in Nat /\ n <= Len(a) /\ n <= Len(b)
  BY DEF Least
<1>2. CASE differ = {}
  <2>1. common_prefix_len(a, b) = n
    BY <1>2 DEF common_prefix_len
  <2>2. \A i \in 1..n : a[i] = b[i]
    BY <1>2
  <2>3. QED
    BY <1>1, <2>1, <2>2
<1>3. CASE differ # {}
  <2>1. differ \in SUBSET Nat
    BY <1>1
  <2>2. PICK m : m = Min(differ)
    OBVIOUS
  <2>3. m \in differ /\ \A k \in differ : m <= k
    BY <1>3, <2>1, <2>2, HasMin
  <2>4. m \in 1..n
    BY <2>3
  <2>5. common_prefix_len(a, b) = m - 1
    BY <1>3, <2>2 DEF common_prefix_len
  <2> HIDE DEF n
  <2>6. \A i \in 1..(m - 1) : a[i] = b[i]
    <3> SUFFICES ASSUME NEW i \in 1..(m - 1), a[i] # b[i]
                 PROVE  FALSE
        OBVIOUS
    <3>1. i \in 1..n /\ i < m
      BY <1>1, <2>4
    <3>2. i \in differ
      BY <3>1
    <3>3. m <= i
      BY <2>3, <3>2
    <3>4. QED
      BY <2>4, <3>1, <3>3
  <2>7. m - 1 \in Nat /\ m - 1 <= Len(a) /\ m - 1 <= Len(b)
    BY <1>1, <2>4
  <2>8. QED
    BY <2>5, <2>6, <2>7
<1>4. QED
  BY <1>2, <1>3

(* The m bytes behind ip are those behind p.                                  *)
Again(d, p, at, m) == \A i \in 1..m : d[p + i] = d[at + i]

(* What repeats with a period is a copy of its first period.                 *)
LEMMA Periodic ==
  ASSUME NEW d, NEW p \in Nat, NEW at \in Nat, p < at, NEW m \in Nat,
         Again(d, p, at, m)
  PROVE  \A i \in 1..m : d[at + i] = d[p + 1 + ((i - 1) % (at - p))]
<1>0. PICK off \in Nat \ {0} : off = at - p /\ p + off = at
  <2>1. at - p \in Nat \ {0}
    OBVIOUS
  <2>2. p + (at - p) = at
    OBVIOUS
  <2>3. QED
    BY <2>1, <2>2
<1> DEFINE Bad == {i \in 1..m : d[at + i] # d[p + 1 + ((i - 1) % off)]}
<1>1. SUFFICES ASSUME Bad # {}
               PROVE  FALSE
  BY <1>0
<1>2. Bad \in SUBSET Nat
  OBVIOUS
<1>3. PICK i \in Bad : \A k \in Bad : i <= k
  BY <1>1, <1>2, HasMin
<1>4. i \in 1..m /\ d[at + i] # d[p + 1 + ((i - 1) % off)]
  BY <1>3
<1>40. d[p + i] = d[at + i]
  BY <1>4 DEF Again
<1>5. CASE i <= off
  <2>1. (i - 1) % off = i - 1
    BY <1>4, <1>5, SMT
  <2>2. p + 1 + (i - 1) = p + i
    BY <1>4
  <2>3. QED
    BY <1>4, <1>40, <2>1, <2>2
<1>6. CASE ~(i <= off)
  <2>1. PICK j : j = i - off /\ j \in 1..m /\ j < i
    BY <1>4, <1>6
  <2>2. j \notin Bad
    <3>1. ~(i <= j)
      BY <2>1, <1>4
    <3>2. QED
      BY <1>3, <3>1
  <2>3. d[at + j] = d[p + 1 + ((j - 1) % off)]
    BY <2>1, <2>2
  <2>4. (j - 1) % off = (i - 1) % off
    <3>1. PICK k \in Nat : k = i - 1 /\ k >= off /\ j - 1 = k - off
      BY <1>4, <1>6, <2>1
    <3>2. (k - off) % off = k % off
      BY <3>1, ModBack
    <3>3. QED
      BY <3>1, <3>2
  <2>5. at + j = p + i
    BY <1>0, <1>4, <2>1
  <2>6. QED
    BY <1>4, <1>40, <2>3, <2>4, <2>5
<1>7. QED
  BY <1>5, <1>6

(* A match copied behind what was decoded is what stands in the input there. *)
LEMMA RepeatIsSlice ==
  ASSUME NEW d \in Seq(Byte), NEW p \in Nat, NEW at \in Nat, p < at, NEW m \in Nat,
         at + m <= Len(d), Again(d, p, at, m)
  PROVE  Repeat(SubSeq(d, 1, at), at - p, m) = SubSeq(d, 1, at + m)
<1>0. /\ 0 \in Nat /\ 0 <= at /\ at <= Len(d) /\ 0 + 1 = 1 /\ at - 0 = at
      /\ at + m \in Nat /\ at <= at + m /\ at + m - at = m
  OBVIOUS
<1>10. PICK u, v : u = SubSeq(d, 1, at) /\ v = SubSeq(d, at + 1, at + m)
  OBVIOUS
<1>1. u \in Seq(Byte) /\ Len(u) = at /\ \A k \in 1..at : u[k] = d[k]
  BY <1>0, <1>10, FirstB
<1>2. v \in Seq(Byte) /\ Len(v) = m /\ \A k \in 1..m : v[k] = d[at + k]
  <2>1. PICK e \in Nat : e = at + m
    BY <1>0
  <2>2. v = SubSeq(d, at + 1, e) /\ at <= e /\ e <= Len(d) /\ e - at = m
    BY <1>0, <1>10, <2>1
  <2>3. v \in Seq(Byte) /\ Len(v) = e - at /\ \A k \in 1..(e - at) : v[k] = d[at + k]
    BY <2>2, SliceB
  <2>4. QED
    BY <2>2, <2>3
<1>4. \A i \in 1..m : d[at + i] = d[p + 1 + ((i - 1) % (at - p))]
  BY Periodic
<1>3. PICK off \in Nat \ {0} : off = at - p
  <2>1. at - p \in Nat \ {0}
    OBVIOUS
  <2>2. QED
    BY <2>1
<1>30. Len(u) - off = p
  BY <1>1, <1>3
<1> DEFINE copy == [i \in 1..m |-> u[Len(u) - off + 1 + ((i - 1) % off)]]
<1>5. \A i \in 1..m : u[Len(u) - off + 1 + ((i - 1) % off)] = v[i]
  <2> TAKE i \in 1..m
  <2>1. (i - 1) % off \in 0..(off - 1)
    BY SMT
  <2>2. p + 1 + ((i - 1) % off) \in 1..at
    <3>1. PICK k : k = (i - 1) % off
      OBVIOUS
    <3>2. k \in 0..(off - 1)
      BY <2>1, <3>1
    <3>3. p + 1 + k \in 1..at
      BY <1>3, <3>2
    <3>4. QED
      BY <3>1, <3>3
  <2>3. u[p + 1 + ((i - 1) % off)] = d[p + 1 + ((i - 1) % off)]
    BY <1>1, <2>2
  <2>4. QED
    BY <1>2, <1>3, <1>30, <1>4, <2>3
<1>6. copy = v
  <2>1. v \in [1..m -> Byte]
    BY <1>2
  <2>2. v = [i \in 1..m |-> v[i]]
    BY <2>1
  <2>3. QED
    BY <1>5, <2>2
<1>7. Repeat(u, off, m) = u \o v
  BY <1>6 DEF Repeat
<1>8. u \o v = SubSeq(d, 1, at + m)
  BY <1>0, <1>10, SliceJoin
<1>9. QED
  BY <1>3, <1>7, <1>8, <1>10

(* A match begins like what it starts: MatchLength bytes are the same.       *)
LEMMA MatchAgain ==
  ASSUME input \in Seq(Byte), Searching, ip \in Nat, NEW p \in Nat, p < ip, Word(p) = Word(ip)
  PROVE  /\ MatchLength(p) \in Nat /\ MatchLength(p) >= MinMatch
         /\ ip + MatchLength(p) <= Len(input) - 5
         /\ Again(input, p, ip, MatchLength(p))
<1> DEFINE n == Len(input)
<1>1. n \in Nat /\ ip + 4 <= n - 8 /\ n - 5 \in Nat /\ n - 5 <= n
  BY DEF Searching, Short
<1>2. PICK a, b : /\ a = SubSeq(input, (p + 4) + 1, n - 5)
                  /\ b = SubSeq(input, (ip + 4) + 1, n - 5)
  OBVIOUS
<1>3. /\ p + 4 \in Nat /\ p + 4 <= n - 5
      /\ ip + 4 \in Nat /\ ip + 4 <= n - 5
  BY <1>1
<1>4. PICK e \in Nat : e = n - 5 /\ e <= n
  BY <1>1
<1>5. /\ a \in Seq(Byte) /\ Len(a) = e - (p + 4)
      /\ \A k \in 1..(e - (p + 4)) : a[k] = input[(p + 4) + k]
  BY <1>2, <1>3, <1>4, SliceB
<1>6. /\ b \in Seq(Byte) /\ Len(b) = e - (ip + 4)
      /\ \A k \in 1..(e - (ip + 4)) : b[k] = input[(ip + 4) + k]
  BY <1>2, <1>3, <1>4, SliceB
<1>7. PICK c : c = common_prefix_len(a, b)
  OBVIOUS
<1>8. c \in Nat /\ c <= Len(a) /\ c <= Len(b) /\ \A i \in 1..c : a[i] = b[i]
  BY <1>5, <1>6, <1>7, PrefixAgrees
<1>9. MatchLength(p) = 4 + c
  BY <1>2, <1>7 DEF MatchLength, Slice, MinMatch
<1>10. 4 + c \in Nat /\ 4 + c >= MinMatch /\ ip + (4 + c) <= n - 5
  BY <1>3, <1>4, <1>6, <1>8, SMTT(30) DEF MinMatch
<1>11. \A i \in 1..4 : input[p + i] = input[ip + i]
  <2>1. p <= p + 4 /\ p + 4 <= n /\ ip <= ip + 4 /\ ip + 4 <= n
    BY <1>1
  <2>2. PICK v, w, s, t : /\ s = p + 4 /\ t = ip + 4
                          /\ v = SubSeq(input, p + 1, s) /\ w = SubSeq(input, ip + 1, t)
    OBVIOUS
  <2>3. v = w
    BY <2>2 DEF Word, Slice, MinMatch
  <2>4. \A k \in 1..(s - p) : v[k] = input[p + k]
    BY <1>3, <2>1, <2>2, SliceB
  <2>5. \A k \in 1..(t - ip) : w[k] = input[ip + k]
    BY <1>3, <2>1, <2>2, SliceB
  <2>6. s - p = 4 /\ t - ip = 4
    BY <2>2
  <2>7. QED
    BY <2>3, <2>4, <2>5, <2>6
<1>12. \A i \in 1..(4 + c) : input[p + i] = input[ip + i]
  <2> TAKE i \in 1..(4 + c)
  <2>1. CASE i <= 4
    <3>1. i \in 1..4
      BY <2>1
    <3>2. QED
      BY <1>11, <3>1
  <2>2. CASE ~(i <= 4)
    <3>1. PICK k : k = i - 4 /\ k \in 1..c
      BY <1>8, <2>2
    <3>2. a[k] = b[k]
      BY <1>8, <3>1
    <3>3. k \in 1..(e - (p + 4)) /\ k \in 1..(e - (ip + 4))
      BY <1>3, <1>4, <1>5, <1>6, <1>8, <3>1
    <3>4. a[k] = input[(p + 4) + k] /\ b[k] = input[(ip + 4) + k]
      BY <1>5, <1>6, <3>3
    <3>5. (p + 4) + k = p + i /\ (ip + 4) + k = ip + i
      BY <1>8, <3>1
    <3>6. QED
      BY <3>2, <3>4, <3>5
  <2>3. QED
    BY <2>1, <2>2
<1>13. QED
  BY <1>9, <1>10, <1>12 DEF Again

(* Decoding block gives data, its length asked for or not.                   *)
BlockOf(block, data) ==
  \A x \in {AnyLength, Len(data)} : lz4_decode(block, x) = Ok(data, <<>>)

(* The block so far, b, stands for the first a bytes of data: whatever       *)
(* follows, the decoder gets there with these.                               *)
Reads(b, data, a) ==
  /\ b \in Seq(Byte) /\ a \in Nat /\ a <= Len(data)
  /\ Holds(b, 0, Le(Len(data), 4))
  /\ \A src \in Seq(Byte) :
       Holds(src, 0, b) => Sequences(src, Len(data), 4, <<>>)
                             = Sequences(src, Len(data), Len(b), SubSeq(data, 1, a))

(* StartBlock: the length alone stands for no data yet.                      *)
LEMMA ReadsStart ==
  ASSUME NEW data \in Seq(Byte)
  PROVE  Reads(Le(Len(data), 4), data, 0)
<1>1. PICK b : b = Le(Len(data), 4)
  OBVIOUS
<1>2. Len(data) \in Int /\ 4 \in Nat
  OBVIOUS
<1>3. b \in Seq(Byte) /\ Len(b) = 4
  BY <1>1, <1>2, LeIsBytes
<1>4. SubSeq(data, 1, 0) = <<>>
  OBVIOUS
<1>5. Holds(b, 0, b)
  BY <1>3, HoldsItself
<1>6. 0 \in Nat /\ 0 <= Len(data)
  OBVIOUS
<1>7. Holds(b, 0, Le(Len(data), 4))
  BY <1>1, <1>5
<1>8. \A src \in Seq(Byte) : Sequences(src, Len(data), 4, <<>>)
                             = Sequences(src, Len(data), Len(b), SubSeq(data, 1, 0))
  BY <1>3, <1>4
<1>9. Reads(b, data, 0)
  BY <1>3, <1>6, <1>7, <1>8 DEF Reads
<1>10. QED
  BY <1>1, <1>9

(* A sequence with a match is bytes.                                         *)
LEMMA EmittedBytes ==
  ASSUME NEW lits \in Seq(Byte), NEW offset \in Int, NEW mlen \in Nat, mlen >= MinMatch
  PROVE  EmitSequence(lits, offset, mlen) \in Seq(Byte) /\ Len(EmitSequence(lits, offset, mlen)) >= 1
<1>1. PICK m \in Nat : m = mlen - MinMatch
  BY DEF MinMatch
<1>2. PICK o, t, d : o = Opening(lits, m) /\ t = LenTail(m) /\ d = Le(offset, 2)
  OBVIOUS
<1>3. o \in Seq(Byte) /\ t \in Seq(Byte)
  BY <1>2, OpeningBytes, TailBytes
<1>4. d \in Seq(Byte) /\ Len(d) = 2
  <2>1. 2 \in Nat
    OBVIOUS
  <2>2. QED
    BY <1>2, <2>1, LeIsBytes
<1>5. EmitSequence(lits, offset, mlen) = o \o d \o t
  BY <1>1, <1>2 DEF EmitSequence, Opening
<1>6. o \o d \o t \in Seq(Byte) /\ Len(o \o d \o t) = Len(o) + Len(d) + Len(t)
  BY <1>3, <1>4, Concat3, ZenonT(30)
<1>7. Len(o) \in Nat /\ Len(t) \in Nat
  BY <1>3
<1>8. QED
  BY <1>4, <1>5, <1>6, <1>7

(* EmitMatch: a match that repeats the data stands for more of it.           *)
LEMMA ReadsMatch ==
  ASSUME NEW data \in Seq(Byte), NEW b, NEW a, Reads(b, data, a),
         NEW p \in Nat, NEW at \in Nat, NEW m \in Nat, p < at, a <= at, at - p <= MaxDistance,
         m >= MinMatch, at + m <= Len(data), Again(data, p, at, m)
  PROVE  Reads(b \o EmitSequence(SubSeq(data, a + 1, at), at - p, m), data, at + m)
<1>1. PICK off : off = at - p
  OBVIOUS
<1>2. off \in Distances /\ off \in Int
  <2>1. MaxDistance \in Int
    BY SMT DEF MaxDistance
  <2>2. QED
    BY <1>1, <2>1 DEF Distances
<1>3. b \in Seq(Byte) /\ Len(b) \in Nat /\ a \in Nat /\ Len(data) \in Nat /\ at <= Len(data)
  BY DEF Reads
<1>4. PICK lits : lits = SubSeq(data, a + 1, at)
  OBVIOUS
<1>5. lits \in Seq(Byte) /\ Len(lits) = at - a
  BY <1>3, <1>4, SliceB
<1>6. PICK done : done = SubSeq(data, 1, a)
  OBVIOUS
<1>7. done \in Seq(Byte) /\ Len(done) = a
  <2>1. a <= Len(data)
    BY DEF Reads
  <2>2. QED
    BY <1>3, <1>6, <2>1, FirstB
<1>8. PICK e : e = EmitSequence(lits, off, m)
  OBVIOUS
<1>9. e \in Seq(Byte) /\ Len(e) >= 1 /\ Len(e) \in Nat
  BY <1>2, <1>5, <1>8, EmittedBytes
<1>10. PICK w : w = b \o e
  OBVIOUS
<1>11. w \in Seq(Byte) /\ Len(w) = Len(b) + Len(e)
  BY <1>3, <1>9, <1>10, Concat
<1>12. Len(done) + Len(lits) = at
  BY <1>3, <1>5, <1>7
<1>13. done \o lits = SubSeq(data, 1, at)
  BY <1>3, <1>4, <1>6, SliceJoin
<1>14. Repeat(done \o lits, off, m) = SubSeq(data, 1, at + m)
  <2>1. Repeat(SubSeq(data, 1, at), at - p, m) = SubSeq(data, 1, at + m)
    BY RepeatIsSlice
  <2>2. QED
    BY <1>1, <1>13, <2>1
<1>15. Holds(w, 0, Le(Len(data), 4))
  <2>1. Holds(b, 0, Le(Len(data), 4))
    BY DEF Reads
  <2>2. PICK h : h = Le(Len(data), 4)
    OBVIOUS
  <2>3. h \in Seq(Byte)
    <3>1. Len(data) \in Int /\ 4 \in Nat
      OBVIOUS
    <3>2. QED
      BY <2>2, <3>1, LeIsBytes
  <2>4. 0 + Len(h) <= Len(b) /\ \A i \in 1..Len(h) : b[0 + i] = h[i]
    BY <2>1, <2>2 DEF Holds
  <2>5. \A i \in 1..Len(h) : w[0 + i] = h[i]
    <3> TAKE i \in 1..Len(h)
    <3>1. i \in 1..Len(b) /\ 0 + i = i
      BY <2>3, <2>4, <1>3
    <3>2. w[i] = b[i]
      BY <1>3, <1>9, <1>10, <3>1, ConcatAt
    <3>3. QED
      BY <2>4, <3>1, <3>2
  <2>6. 0 + Len(h) <= Len(w)
    BY <1>3, <1>9, <1>11, <2>3, <2>4
  <2>7. QED
    BY <2>2, <2>5, <2>6 DEF Holds
<1>16. ASSUME NEW src \in Seq(Byte), Holds(src, 0, w)
       PROVE  Sequences(src, Len(data), 4, <<>>)
                = Sequences(src, Len(data), Len(w), SubSeq(data, 1, at + m))
  <2>0. PICK zero, N : zero = 0 /\ zero \in Nat /\ N = Len(data) /\ N \in Nat
    BY <1>3
  <2>1. Holds(src, zero, b) /\ Holds(src, zero + Len(b), e)
    <3>1. Holds(src, zero, b \o e)
      BY <1>10, <1>16, <2>0
    <3>2. QED
      BY <1>3, <1>9, <2>0, <3>1, HoldsParts
  <2>2. Holds(src, 0, b) /\ Holds(src, Len(b), e)
    <3>1. zero + Len(b) = Len(b)
      BY <1>3, <2>0
    <3>2. QED
      BY <2>0, <2>1, <3>1
  <2>3. Sequences(src, N, 4, <<>>) = Sequences(src, N, Len(b), done)
    BY <1>6, <2>0, <2>2 DEF Reads
  <2>4. Sequence(src, N, Len(b), done) = Ok(Repeat(done \o lits, off, m), Len(b) + Len(e))
    <3>1. off <= Len(done) + Len(lits) /\ Len(done) + Len(lits) + m <= N
      BY <1>1, <1>12, <2>0
    <3>2. Holds(src, Len(b), EmitSequence(lits, off, m))
      BY <1>8, <2>2
    <3>3. PICK pos \in Nat : pos = Len(b)
      BY <1>3
    <3>4. Sequence(src, N, pos, done)
            = Ok(Repeat(done \o lits, off, m), pos + Len(EmitSequence(lits, off, m)))
      <4>1. lits \in Seq(Byte)
        BY <1>5
      <4>2. done \in Seq(Byte)
        BY <1>7
      <4>3. off \in Distances /\ N \in Nat
        BY <1>2, <2>0
      <4>4. SequenceAt(src, N, pos, done, lits, off, m)
        BY <4>1, <4>2, <4>3, <3>1, <3>2, <3>3 DEF SequenceAt
      <4>5. QED
        BY <4>4, SequenceAtRead
    <3>5. QED
      BY <1>8, <3>3, <3>4
  <2>5. Sequence(src, N, Len(b), done) = Ok(SubSeq(data, 1, at + m), Len(w))
    BY <1>11, <1>14, <2>4
  <2>6. Len(b) < Len(src)
    BY <1>3, <1>9, <2>2 DEF Holds
  <2>7. done \in Seq(Nat)
    BY <1>7, BytesAreNumbers
  <2>8. Sequences(src, N, Len(b), done) = Sequences(src, N, Len(w), SubSeq(data, 1, at + m))
    BY <1>3, <2>5, <2>6, <2>7, SequencesStep
  <2>9. QED
    BY <2>0, <2>3, <2>8
<1>17. at + m \in Nat
  OBVIOUS
<1>18. Reads(w, data, at + m)
  BY <1>11, <1>15, <1>16, <1>17 DEF Reads
<1>19. QED
  BY <1>1, <1>4, <1>8, <1>10, <1>18

(* FinishBlock: with the literals that are left the block decodes to the data.*)
LEMMA ReadsLast ==
  ASSUME NEW data \in Seq(Byte), NEW b, NEW a, Reads(b, data, a), Len(data) <= MaxMessage
  PROVE  /\ b \o EmitLast(SubSeq(data, a + 1, Len(data))) \in Seq(Byte)
         /\ BlockOf(b \o EmitLast(SubSeq(data, a + 1, Len(data))), data)
<1>1. b \in Seq(Byte) /\ Len(b) \in Nat /\ a \in Nat /\ a <= Len(data)
  BY DEF Reads
<1>2. PICK N \in Nat : N = Len(data)
  OBVIOUS
<1>3. PICK lits, done : lits = SubSeq(data, a + 1, N) /\ done = SubSeq(data, 1, a)
  OBVIOUS
<1>4. lits \in Seq(Byte) /\ Len(lits) = N - a
  BY <1>1, <1>2, <1>3, SliceB
<1>5. done \in Seq(Byte) /\ Len(done) = a
  BY <1>1, <1>3, FirstB
<1>6. done \o lits = data
  <2>1. SubSeq(data, 1, N) = data
    BY <1>2
  <2>2. done \o lits = SubSeq(data, 1, N)
    <3>1. a <= N /\ N <= Len(data)
      BY <1>1, <1>2
    <3>2. QED
      BY <1>1, <1>3, <3>1, SliceJoin
  <2>3. QED
    BY <2>1, <2>2
<1>7. PICK e : e = EmitLast(lits)
  OBVIOUS
<1>8. e \in Seq(Byte) /\ Len(e) \in Nat /\ Len(e) >= 1
  <2>1. e = Opening(lits, 0) /\ 0 \in Nat
    BY <1>7 DEF EmitLast, Opening
  <2>2. PICK m \in Nat : e = Opening(lits, m)
    BY <2>1
  <2>3. PICK p \in Nat : p = 0
    OBVIOUS
  <2>4. e \in Seq(Byte) /\ LiteralsAt(p, Len(lits)) + Len(lits) = p + Len(e)
    BY <1>4, <2>2, <2>3, OpeningBytes
  <2>5. Len(LenTail(Len(lits))) \in Nat /\ Len(lits) \in Nat
    BY <1>4, TailBytes
  <2>6. Len(e) \in Nat
    BY <2>4
  <2>7. Len(e) >= 1
    BY <2>3, <2>4, <2>5, <2>6 DEF LiteralsAt
  <2>8. QED
    BY <2>4, <2>6, <2>7
<1>9. PICK w : w = b \o e
  OBVIOUS
<1>10. w \in Seq(Byte) /\ Len(w) = Len(b) + Len(e)
  BY <1>1, <1>8, <1>9, Concat
<1>11. Holds(w, 0, w)
  BY <1>10, HoldsItself
<1>12. Holds(w, 0, b) /\ Holds(w, Len(b), e)
  <2>1. PICK zero \in Nat : zero = 0
    OBVIOUS
  <2>2. Holds(w, zero, b \o e)
    BY <1>9, <1>11, <2>1
  <2>3. Holds(w, zero, b) /\ Holds(w, zero + Len(b), e)
    BY <1>1, <1>8, <1>10, <2>1, <2>2, HoldsParts
  <2>4. zero + Len(b) = Len(b)
    BY <1>1, <2>1
  <2>5. QED
    BY <2>1, <2>3, <2>4
<1>13. Sequences(w, N, 4, <<>>) = Sequences(w, N, Len(b), done)
  BY <1>2, <1>3, <1>10, <1>12 DEF Reads
<1>14. Sequence(w, N, Len(b), done) = Ok(data, Len(w))
  <2>1. Len(done) + Len(lits) <= N
    BY <1>1, <1>2, <1>4, <1>5
  <2>2. Sequence(w, N, Len(b), done) = Ok(done \o lits, Len(w))
    <3>1. PICK pos \in Nat : pos = Len(b)
      BY <1>1
    <3>2. Holds(w, pos, EmitLast(lits)) /\ Len(w) = pos + Len(EmitLast(lits))
      BY <1>7, <1>10, <1>12, <3>1
    <3>3. Sequence(w, N, pos, done) = Ok(done \o lits, Len(w))
      <4>1. lits \in Seq(Byte)
        BY <1>4
      <4>2. done \in Seq(Byte)
        BY <1>5
      <4>3. w \in Seq(Byte)
        BY <1>10
      <4>4. LastAt(w, N, pos, done, lits)
        BY <4>1, <4>2, <4>3, <2>1, <3>2 DEF LastAt
      <4>5. QED
        BY <4>4, LastAtRead
    <3>4. QED
      BY <3>1, <3>3
  <2>3. QED
    BY <1>6, <2>2
<1>15. Sequences(w, N, 4, <<>>) = Ok(data, <<>>)
  <2>1. Len(b) < Len(w)
    BY <1>1, <1>8, <1>10
  <2>2. done \in Seq(Nat) /\ data \in Seq(Nat)
    BY <1>5, BytesAreNumbers
  <2>3. Sequences(w, N, Len(b), done) = Sequences(w, N, Len(w), data)
    BY <1>1, <1>10, <1>14, <2>1, <2>2, SequencesStep
  <2>4. Sequences(w, N, Len(w), data) = Ok(data, <<>>)
    BY <1>10, <2>2, SequencesEnd
  <2>5. QED
    BY <1>13, <2>3, <2>4
<1>16. Len(w) >= 4 /\ FromLe(SubSeq(w, 1, 4)) = N
  <2>1. PICK h : h = Le(N, 4)
    OBVIOUS
  <2>2. h \in Seq(Byte) /\ Len(h) = 4
    <3>1. N \in Int /\ 4 \in Nat
      OBVIOUS
    <3>2. QED
      BY <2>1, <3>1, LeIsBytes
  <2>3. Holds(b, 0, h)
    BY <1>2, <2>1 DEF Reads
  <2>4. Len(h) <= Len(b) /\ \A i \in 1..Len(h) : b[0 + i] = h[i]
    BY <1>1, <2>2, <2>3 DEF Holds
  <2>5. Len(w) >= 4
    BY <1>1, <1>8, <1>10, <2>2, <2>4
  <2>6. PICK s : s = SubSeq(w, 1, 4)
    OBVIOUS
  <2>7. s \in Seq(Byte) /\ Len(s) = 4 /\ \A k \in 1..4 : s[k] = w[k]
    BY <1>10, <2>5, <2>6, FirstB
  <2>8. \A k \in 1..Len(h) : h[k] = s[k]
    <3> TAKE k \in 1..Len(h)
    <3>1. k \in 1..4 /\ k \in 1..Len(b) /\ 0 + k = k
      BY <1>1, <2>2, <2>4
    <3>2. w[k] = b[k]
      BY <1>1, <1>8, <1>9, <3>1, ConcatAt
    <3>3. QED
      BY <2>4, <2>7, <3>1, <3>2
  <2>9. h = s
    BY <2>2, <2>7, <2>8, SameBytes
  <2>10. N \div 16777216 < 128
    BY <1>2, Lz4Assumption, SMT
  <2>11. FromLe(h) = N
    BY <2>1, <2>10, Le4
  <2>12. QED
    BY <2>5, <2>6, <2>9, <2>11
<1>17. \A x \in {AnyLength, N} : lz4_decode(w, x) = Ok(data, <<>>)
  <2> TAKE x \in {AnyLength, N}
  <2>1. ~(Len(w) < 4)
    BY <1>10, <1>16
  <2>2. ~(N > MaxMessage) /\ ~(x # AnyLength /\ N # x)
    BY <1>2, Lz4Assumption
  <2>3. PICK r : r = Sequences(w, N, 4, <<>>)
    OBVIOUS
  <2>4. r.err = "none" /\ r.val = data /\ r = Ok(data, <<>>)
    BY <1>15, <2>3 DEF Ok
  <2>5. QED
    BY <1>2, <1>16, <2>1, <2>2, <2>3, <2>4 DEF lz4_decode, Bind, Failed
<1>18. QED
  BY <1>2, <1>3, <1>7, <1>9, <1>10, <1>17 DEF BlockOf

(* How much longer than its data a block is at worst.                        *)
LEMMA DivLess ==
  ASSUME NEW a \in Nat, NEW b \in Nat, a <= b, NEW m \in Nat \ {0}
  PROVE  a \div m \in Nat /\ a \div m <= b \div m
BY SMT

(* A continued length takes a byte more than its share of LenMax.            *)
LEMMA TailSize ==
  ASSUME NEW n \in Nat
  PROVE  /\ Len(LenTail(n)) \in Nat /\ n \div LenMax \in Nat
         /\ Len(LenTail(n)) <= n \div LenMax + 1
         /\ n < TokenMax => Len(LenTail(n)) = 0
<1>1. LenMax \in Nat \ {0} /\ TokenMax \in Nat
  BY TokenBounds
<1>2. n \div LenMax \in Nat
  <2>1. n <= n
    OBVIOUS
  <2>2. QED
    BY <1>1, <2>1, DivLess
<1>3. CASE n >= TokenMax
  <2>1. PICK k \in Nat : k = n - TokenMax
    BY <1>1, <1>3
  <2>2. k <= n
    BY <1>1, <2>1
  <2>3. k \div LenMax \in Nat /\ k \div LenMax <= n \div LenMax
    BY <1>1, <2>2, DivLess
  <2>4. Len(LenTail(n)) = k \div LenMax + 1
    BY <1>3, <2>1, LenBytes DEF LenTail
  <2>5. QED
    BY <1>1, <1>2, <1>3, <2>3, <2>4
<1>4. CASE ~(n >= TokenMax)
  <2>1. LenTail(n) = <<>>
    BY <1>4 DEF LenTail
  <2>2. Len(LenTail(n)) = 0
    BY <2>1
  <2>3. QED
    BY <1>2, <2>2
<1>5. QED
  BY <1>3, <1>4

(* The bytes of an opening.                                                  *)
LEMMA OpeningSize ==
  ASSUME NEW lits \in Seq(Byte), NEW m \in Nat
  PROVE  Len(Opening(lits, m)) = 1 + Len(LenTail(Len(lits))) + Len(lits)
<1>1. PICK p \in Nat : p = 0
  OBVIOUS
<1>2. LiteralsAt(p, Len(lits)) + Len(lits) = p + Len(Opening(lits, m)) /\ Opening(lits, m) \in Seq(Byte)
  BY OpeningBytes
<1>3. Len(lits) \in Nat /\ Len(LenTail(Len(lits))) \in Nat /\ Len(Opening(lits, m)) \in Nat
  <2>1. PICK n \in Nat : n = Len(lits)
    OBVIOUS
  <2>2. Len(LenTail(n)) \in Nat
    BY TailSize
  <2>3. QED
    BY <1>2, <2>1, <2>2
<1>4. QED
  BY <1>1, <1>2, <1>3 DEF LiteralsAt

(* A sequence with a match is no longer than its data and their share of LenMax.*)
LEMMA SequenceSize ==
  ASSUME NEW lits \in Seq(Byte), NEW offset \in Int, NEW m \in Nat, m >= MinMatch
  PROVE  Len(EmitSequence(lits, offset, m)) <= (Len(lits) + m) + (Len(lits) + m) \div LenMax
<1>1. PICK k \in Nat : k = m - MinMatch /\ k = m - 4 /\ k + 4 = m
  BY DEF MinMatch
<1>2. PICK n \in Nat : n = Len(lits)
  OBVIOUS
<1>3. PICK o, t, d : o = Opening(lits, k) /\ t = LenTail(k) /\ d = Le(offset, 2)
  OBVIOUS
<1>4. o \in Seq(Byte) /\ t \in Seq(Byte)
  BY <1>3, OpeningBytes, TailBytes
<1>5. d \in Seq(Byte) /\ Len(d) = 2
  <2>1. 2 \in Nat
    OBVIOUS
  <2>2. QED
    BY <1>3, <2>1, LeIsBytes
<1>6. EmitSequence(lits, offset, m) = o \o d \o t
  BY <1>1, <1>3 DEF EmitSequence, Opening
<1>7. Len(o \o d \o t) = Len(o) + Len(d) + Len(t)
  BY <1>4, <1>5, Concat3, ZenonT(30)
<1>8. Len(o) = 1 + Len(LenTail(n)) + n
  BY <1>2, <1>3, OpeningSize
<1>9. LenMax \in Nat \ {0} /\ TokenMax \in Nat /\ TokenMax >= 1
  BY TokenBounds
<1>10. PICK x, y, z, u, v, w : /\ x = n \div LenMax /\ y = k \div LenMax /\ z = (n + m) \div LenMax
                               /\ u = Len(LenTail(n)) /\ v = Len(t) /\ w = m \div LenMax
  OBVIOUS
<1>11. x \in Nat /\ y \in Nat /\ w \in Nat /\ y <= w
  <2>1. n <= n /\ k <= m /\ m <= m
    BY <1>1
  <2>2. (n \div LenMax) \in Nat
    BY <1>9, <2>1, DivLess
  <2>3. (k \div LenMax) \in Nat /\ (k \div LenMax) <= (m \div LenMax)
    BY <1>9, <2>1, DivLess
  <2>4. (m \div LenMax) \in Nat
    BY <1>9, <2>1, DivLess
  <2>5. QED
    BY <1>10, <2>2, <2>3, <2>4
<1>12. x + w <= z /\ z \in Nat
  <2>1. n + m \in Nat /\ n + m <= n + m
    OBVIOUS
  <2>2. z \in Nat
    BY <1>9, <1>10, <2>1, DivLess
  <2>3. x + w <= z
    BY <1>9, <1>10, DivAdd
  <2>4. QED
    BY <2>2, <2>3
<1>13. u \in Nat /\ u <= x + 1
  BY <1>10, TailSize
<1>14. v \in Nat /\ v <= y + 1 /\ (k < TokenMax => v = 0)
  BY <1>3, <1>10, TailSize
<1>15. Len(EmitSequence(lits, offset, m)) = (1 + u + n) + 2 + v
  BY <1>5, <1>6, <1>7, <1>8, <1>10
<1>16. (1 + u + n) + 2 + v <= (n + m) + z
  BY <1>1, <1>9, <1>11, <1>12, <1>13, <1>14
<1>17. QED
  BY <1>2, <1>10, <1>15, <1>16

(* The last literals take two bytes more at worst.                           *)
LEMMA LastSize ==
  ASSUME NEW lits \in Seq(Byte)
  PROVE  /\ Len(EmitLast(lits)) \in Nat
         /\ Len(EmitLast(lits)) <= Len(lits) + Len(lits) \div LenMax + 2
<1>1. PICK m \in Nat : EmitLast(lits) = Opening(lits, m)
  <2>1. EmitLast(lits) = Opening(lits, 0) /\ 0 \in Nat
    BY DEF EmitLast, Opening
  <2>2. QED
    BY <2>1
<1>2. Len(EmitLast(lits)) = 1 + Len(LenTail(Len(lits))) + Len(lits)
  BY <1>1, OpeningSize
<1>3. PICK n \in Nat : n = Len(lits)
  OBVIOUS
<1>4. /\ Len(LenTail(n)) \in Nat /\ n \div LenMax \in Nat
      /\ Len(LenTail(n)) <= n \div LenMax + 1
  BY TailSize
<1>5. QED
  BY <1>2, <1>3, <1>4

(* The block so far is no longer than that.                                  *)
Small(b, a) == Len(b) <= 4 + a + a \div LenMax

(* EmitMatch keeps the block small.                                          *)
LEMMA SmallMatch ==
  ASSUME NEW b \in Seq(Byte), NEW a \in Nat, Small(b, a),
         NEW lits \in Seq(Byte), NEW offset \in Int, NEW m \in Nat, m >= MinMatch
  PROVE  Small(b \o EmitSequence(lits, offset, m), a + Len(lits) + m)
<1>1. PICK e : e = EmitSequence(lits, offset, m)
  OBVIOUS
<1>2. e \in Seq(Byte)
  BY <1>1, EmittedBytes
<1>3. Len(b \o e) = Len(b) + Len(e) /\ Len(b) \in Nat /\ Len(e) \in Nat
  BY <1>2, Concat
<1>4. PICK n \in Nat : n = Len(lits) + m
  OBVIOUS
<1>5. Len(e) <= n + n \div LenMax
  BY <1>1, <1>4, SequenceSize
<1>6. LenMax \in Nat \ {0}
  BY TokenBounds
<1>7. PICK x, y, z : x = a \div LenMax /\ y = n \div LenMax /\ z = (a + n) \div LenMax
  OBVIOUS
<1>8. x + y <= z
  BY <1>6, <1>7, DivAdd
<1>9. x \in Nat /\ y \in Nat /\ z \in Nat
  <2>1. a <= a + n /\ n <= a + n /\ a + n <= a + n /\ a + n \in Nat
    OBVIOUS
  <2>2. QED
    BY <1>6, <1>7, <2>1, DivLess
<1>10. Len(b) <= 4 + a + x /\ Len(e) <= n + y
  BY <1>5, <1>7 DEF Small
<1>11. Len(b \o e) <= 4 + (a + n) + z
  BY <1>3, <1>8, <1>9, <1>10
<1>12. a + Len(lits) + m = a + n
  BY <1>4
<1>13. QED
  BY <1>1, <1>7, <1>11, <1>12 DEF Small

(* FinishBlock adds two bytes at worst.                                      *)
LEMMA SmallLast ==
  ASSUME NEW b \in Seq(Byte), NEW a \in Nat, Small(b, a), NEW lits \in Seq(Byte)
  PROVE  Len(b \o EmitLast(lits)) <= (a + Len(lits)) + (a + Len(lits)) \div LenMax + 6
<1>1. PICK e : e = EmitLast(lits)
  OBVIOUS
<1>2. e \in Seq(Byte)
  <2>1. PICK m \in Nat : e = Opening(lits, m)
    <3>1. EmitLast(lits) = Opening(lits, 0) /\ 0 \in Nat
      BY DEF EmitLast, Opening
    <3>2. QED
      BY <1>1, <3>1
  <2>2. PICK p \in Nat : p = 0
    OBVIOUS
  <2>3. QED
    BY <2>1, <2>2, OpeningBytes
<1>3. Len(b \o e) = Len(b) + Len(e) /\ Len(b) \in Nat /\ Len(e) \in Nat
  BY <1>2, Concat
<1>4. PICK n \in Nat : n = Len(lits)
  OBVIOUS
<1>5. Len(e) <= n + n \div LenMax + 2
  BY <1>1, <1>4, LastSize
<1>6. LenMax \in Nat \ {0}
  BY TokenBounds
<1>7. PICK x, y, z : x = a \div LenMax /\ y = n \div LenMax /\ z = (a + n) \div LenMax
  OBVIOUS
<1>8. x + y <= z
  BY <1>6, <1>7, DivAdd
<1>9. x \in Nat /\ y \in Nat /\ z \in Nat
  <2>1. a <= a + n /\ n <= a + n /\ a + n <= a + n /\ a + n \in Nat
    OBVIOUS
  <2>2. QED
    BY <1>6, <1>7, <2>1, DivLess
<1>10. Len(b) <= 4 + a + x /\ Len(e) <= n + y + 2
  BY <1>5, <1>7 DEF Small
<1>11. Len(b \o e) <= (a + n) + z + 6
  BY <1>3, <1>8, <1>9, <1>10
<1>12. QED
  BY <1>1, <1>4, <1>7, <1>11

(* A difference of bytes, added again.                                       *)
LEMMA DifferenceAdded ==
  ASSUME NEW a \in Byte, NEW b \in Byte
  PROVE  (a - b) % 256 \in Byte /\ (((a - b) % 256) + b) % 256 = a
BY SMT DEF Byte

(* spatial_filter_sub_into gives bytes, as many as it was given.             *)
LEMMA FilterBytes ==
  ASSUME NEW x \in Seq(Byte), 4 * (Len(x) \div 4) = Len(x)
  PROVE  /\ spatial_filter_sub_into(x) \in Seq(Byte)
         /\ Len(spatial_filter_sub_into(x)) = Len(x)
         /\ \A k \in 1..Len(x) : spatial_filter_sub_into(x)[k]
                                   = IF k <= 4 THEN x[k] ELSE (x[k] - x[k - 4]) % 256
<1>1. PICK n \in Nat : n = Len(x)
  OBVIOUS
<1>2. spatial_filter_sub_into(x)
        = [k \in 1..n |-> IF k <= 4 THEN x[k] ELSE (x[k] - x[k - 4]) % 256]
  <2>1. \A k \in 1..n : ~(k > 4 * (n \div 4))
    BY <1>1
  <2>2. QED
    BY <1>1, <2>1 DEF spatial_filter_sub_into
<1>3. \A k \in 1..n : (IF k <= 4 THEN x[k] ELSE (x[k] - x[k - 4]) % 256) \in Byte
  <2> TAKE k \in 1..n
  <2>1. x[k] \in Byte
    BY <1>1
  <2>2. CASE k <= 4
    BY <2>1, <2>2
  <2>3. CASE ~(k <= 4)
    <3>1. k - 4 \in 1..Len(x)
      BY <1>1, <2>3
    <3>2. x[k - 4] \in Byte
      BY <3>1
    <3>3. (x[k] - x[k - 4]) % 256 \in Byte
      BY <2>1, <3>2, DifferenceAdded
    <3>4. QED
      BY <2>3, <3>3
  <2>4. QED
    BY <2>2, <2>3
<1> DEFINE f == [k \in 1..n |-> IF k <= 4 THEN x[k] ELSE (x[k] - x[k - 4]) % 256]
<1>4. f \in [1..n -> Byte]
  BY <1>3
<1>5. f \in Seq(Byte) /\ Len(f) = n
  <2> HIDE DEF f
  <2>1. QED
    BY <1>4
<1>6. QED
  BY <1>1, <1>2, <1>5

(* The running sum undoes the differences: the picture itself satisfies the  *)
(* recursion that defines it, and nothing else does.                         *)
LEMMA Unfiltered ==
  ASSUME NEW x \in Seq(Byte), 4 * (Len(x) \div 4) = Len(x)
  PROVE  spatial_unfilter_sub_in_place(spatial_filter_sub_into(x)) = x
<1>1. PICK n \in Nat : n = Len(x)
  OBVIOUS
<1>2. PICK f : f = spatial_filter_sub_into(x)
  OBVIOUS
<1>3. /\ f \in Seq(Byte) /\ Len(f) = n
      /\ \A k \in 1..n : f[k] = IF k <= 4 THEN x[k] ELSE (x[k] - x[k - 4]) % 256
  BY <1>1, <1>2, FilterBytes
<1>4. \A k \in 1..n : ~(k > 4 * (n \div 4))
  BY <1>1
<1> DEFINE At(g, k) == IF k <= 4 \/ k > 4 * (Len(f) \div 4) THEN f[k] ELSE (f[k] + g[k - 4]) % 256
           Sum == CHOOSE g : g = [k \in 1..Len(f) |-> At(g, k)]
<1>5. spatial_unfilter_sub_in_place(f) = [k \in 1..n |-> Sum[k]]
  BY <1>3 DEF spatial_unfilter_sub_in_place
<1>6. \A k \in 1..n : At(x, k) = x[k]
  <2> TAKE k \in 1..n
  <2>1. ~(k > 4 * (Len(f) \div 4)) /\ x[k] \in Byte
    BY <1>1, <1>3, <1>4
  <2>2. CASE k <= 4
    BY <1>3, <2>2
  <2>3. CASE ~(k <= 4)
    <3>1. k - 4 \in 1..Len(x)
      BY <1>1, <2>3
    <3>2. x[k - 4] \in Byte
      BY <3>1
    <3>3. (((x[k] - x[k - 4]) % 256) + x[k - 4]) % 256 = x[k]
      BY <2>1, <3>2, DifferenceAdded
    <3>4. At(x, k) = (f[k] + x[k - 4]) % 256
      BY <2>1, <2>3
    <3>5. f[k] = (x[k] - x[k - 4]) % 256
      BY <1>3, <2>3
    <3>6. QED
      BY <3>3, <3>4, <3>5
  <2>4. QED
    BY <2>2, <2>3
<1> HIDE DEF At
<1>7. x = [k \in 1..Len(f) |-> At(x, k)]
  <2>1. x = [k \in 1..n |-> x[k]]
    <3>1. x \in [1..n -> Byte]
      BY <1>1
    <3>2. QED
      BY <3>1
  <2>2. QED
    BY <1>3, <1>6, <2>1
<1>8. PICK g : g = Sum
  OBVIOUS
<1>9. g = [k \in 1..Len(f) |-> At(g, k)]
  BY <1>7, <1>8
<1>10. \A k \in 1..n : g[k] = At(g, k)
  BY <1>3, <1>9
<1> DEFINE Bad == {k \in 1..n : g[k] # x[k]}
<1>11. ASSUME Bad # {}
       PROVE  FALSE
  <2>1. Bad \in SUBSET Nat
    OBVIOUS
  <2>2. PICK k \in Bad : \A j \in Bad : k <= j
    BY <1>11, <2>1, HasMin
  <2>3. k \in 1..n /\ g[k] # x[k] /\ g[k] = At(g, k) /\ At(x, k) = x[k]
    BY <1>6, <1>10, <2>2
  <2>4. CASE k <= 4
    BY <2>3, <2>4 DEF At
  <2>5. CASE ~(k <= 4)
    <3>1. PICK j : j = k - 4
      OBVIOUS
    <3>2. j \in 1..n /\ ~(k <= j)
      BY <2>3, <2>5, <3>1
    <3>3. g[j] = x[j]
      BY <2>2, <3>2
    <3>4. At(g, k) = At(x, k)
      BY <3>1, <3>3 DEF At
    <3>5. QED
      BY <2>3, <3>4
  <2>6. QED
    BY <2>4, <2>5
<1>12. \A k \in 1..n : g[k] = x[k]
  BY <1>11
<1>13. [k \in 1..n |-> g[k]] = x
  <2>1. x = [k \in 1..n |-> x[k]]
    <3>1. x \in [1..n -> Byte]
      BY <1>1
    <3>2. QED
      BY <3>1
  <2>2. QED
    BY <1>12, <2>1
<1>14. QED
  BY <1>2, <1>5, <1>8, <1>13

(* A mean lies within the bounds of what it is taken of.                     *)
LEMMA MeanWithin ==
  ASSUME NEW l \in Nat, NEW u \in Nat,
         NEW a \in l..u, NEW b \in l..u, NEW c \in l..u, NEW d \in l..u
  PROVE  Mean(a, b, c, d) \in l..u
BY SMT DEF Mean

(* The colours of the first n pixels of d lie in the ranges of their channels. *)
Ranged(d, n, lo, hi) ==
  \A i \in 0..(n - 1) : \A c \in 0..2 : d[4 * i + c + 1] \in lo[c]..hi[c]

(* A pixel of a picture has an index in the buffer.                          *)
LEMMA IndexBound ==
  ASSUME NEW w \in Nat \ {0}, NEW h \in Nat \ {0}, NEW x \in 0..(w - 1), NEW y \in 0..(h - 1)
  PROVE  w * h \in Nat \ {0} /\ y * w + x \in 0..(w * h - 1)
<1>1. PICK r \in Nat : r = h - 1 - y /\ h = y + 1 + r
  OBVIOUS
<1>2. w * h = y * w + w + r * w
  BY <1>1, SMT
<1>3. r * w \in Nat /\ y * w \in Nat
  BY SMT
<1>4. PICK a \in Nat, b \in Nat : a = r * w /\ b = y * w
  BY <1>3
<1>5. QED
  BY <1>2, <1>4

(* A coordinate beyond the edge of a picture is the edge.                    *)
LEMMA LeastWithin ==
  ASSUME NEW x \in Nat, NEW w \in Nat \ {0}
  PROVE  Least(x, w - 1) \in 0..(w - 1)
BY DEF Least

(* A sample taken at the clamped position x, y.                              *)
Sample(d, w, h, x, y, c) == d[4 * (Least(y, h - 1) * w + Least(x, w - 1)) + c + 1]

(* A sample of a picture, its row and column repeated at the edge, is in range.*)
LEMMA SampleRanged ==
  ASSUME NEW d, NEW w \in Nat \ {0}, NEW h \in Nat \ {0}, NEW lo, NEW hi,
         Ranged(d, w * h, lo, hi), NEW x \in Nat, NEW y \in Nat, NEW c \in 0..2
  PROVE  Sample(d, w, h, x, y, c) \in lo[c]..hi[c]
<1>1. PICK s \in 0..(w - 1) : s = Least(x, w - 1)
  BY LeastWithin
<1>2. PICK t \in 0..(h - 1) : t = Least(y, h - 1)
  BY LeastWithin
<1>3. PICK i : i = t * w + s
  OBVIOUS
<1>4. i \in 0..(w * h - 1)
  BY <1>3, IndexBound
<1>5. d[4 * i + c + 1] \in lo[c]..hi[c]
  BY <1>4 DEF Ranged
<1>6. QED
  BY <1>1, <1>2, <1>3, <1>5 DEF Sample

(* Every byte is one channel of one pixel.                                   *)
LEMMA PixelOf ==
  ASSUME NEW n \in Nat, NEW k \in 1..(4 * n)
  PROVE  \E i \in 0..(n - 1), c \in 0..3 :
           k = 4 * i + c + 1 /\ (k - 1) \div 4 = i /\ (k - 1) % 4 = c
<1>1. k - 1 \in Nat /\ 4 \in Nat \ {0}
  OBVIOUS
<1>2. PICK i \in Nat, c \in 0..(4 - 1) : k - 1 = 4 * i + c /\ (k - 1) \div 4 = i /\ (k - 1) % 4 = c
  BY <1>1, Division
<1>3. i \in 0..(n - 1) /\ c \in 0..3 /\ k = 4 * i + c + 1
  BY <1>2
<1>4. QED
  BY <1>2, <1>3

(* The position of a channel of the i-th pixel.                              *)
LEMMA PixelAt ==
  ASSUME NEW n \in Nat, NEW i \in 0..(n - 1), NEW c \in 0..3
  PROVE  /\ 4 * i + c + 1 \in 1..(4 * n)
         /\ (4 * i + c + 1 - 1) \div 4 = i /\ (4 * i + c + 1 - 1) % 4 = c
BY SMT

Ranges(lo, hi) == \A c \in 0..2 : lo[c] \in Nat /\ hi[c] \in Nat /\ hi[c] <= 255

(* Half of a side, rounded up, is a side.                                    *)
LEMMA HalfUpPositive ==
  ASSUME NEW n \in Nat \ {0}
  PROVE  HalfUp(n) \in Nat \ {0}
BY SMT DEF HalfUp

(* An opaque picture of pixels in range is one of bytes in range.            *)
Opaqued(d, n, lo, hi) ==
  /\ d \in Seq(Byte) /\ Len(d) = 4 * n
  /\ Ranged(d, n, lo, hi)
  /\ \A i \in 0..(n - 1) : d[4 * i + 3 + 1] = 255

(* A picture made of samples in range is in range and opaque.                *)
LEMMA OpaqueRanged ==
  ASSUME NEW n \in Nat, NEW f, NEW lo, NEW hi, Ranges(lo, hi),
         \A i \in 0..(n - 1) : \A c \in 0..2 : f[4 * i + c + 1] \in lo[c]..hi[c]
  PROVE  Opaqued([k \in 1..(4 * n) |-> IF (k - 1) % 4 = 3 THEN 255 ELSE f[k]], n, lo, hi)
<1> DEFINE d == [k \in 1..(4 * n) |-> IF (k - 1) % 4 = 3 THEN 255 ELSE f[k]]
<1>1. \A i \in 0..(n - 1) : \A c \in 0..3 :
        4 * i + c + 1 \in 1..(4 * n)
        /\ d[4 * i + c + 1] = IF c = 3 THEN 255 ELSE f[4 * i + c + 1]
  <2> TAKE i \in 0..(n - 1)
  <2> TAKE c \in 0..3
  <2>1. PICK k : k = 4 * i + c + 1
    OBVIOUS
  <2>2. k \in 1..(4 * n) /\ (k - 1) % 4 = c
    BY <2>1, PixelAt
  <2>3. QED
    BY <2>1, <2>2
<1>2. \A k \in 1..(4 * n) : d[k] \in Byte
  <2> TAKE k \in 1..(4 * n)
  <2>1. PICK i \in 0..(n - 1), c \in 0..3 : k = 4 * i + c + 1
    BY PixelOf, ZenonT(30)
  <2>2. d[k] = IF c = 3 THEN 255 ELSE f[k]
    BY <1>1, <2>1
  <2>3. CASE c = 3
    BY <2>2, <2>3 DEF Byte
  <2>4. CASE c # 3
    <3>1. c \in 0..2
      BY <2>4
    <3>2. f[k] \in lo[c]..hi[c]
      BY <2>1, <3>1
    <3>3. lo[c] \in Nat /\ hi[c] \in Nat /\ hi[c] <= 255
      BY <3>1 DEF Ranges
    <3>4. f[k] \in 0..255
      BY <3>2, <3>3
    <3>5. QED
      BY <2>2, <2>4, <3>4 DEF Byte
  <2>5. QED
    BY <2>3, <2>4
<1> HIDE DEF d
<1>3. d \in [1..(4 * n) -> Byte] /\ 4 * n \in Nat
  <2>1. d = [k \in 1..(4 * n) |-> d[k]]
    BY DEF d
  <2>2. QED
    BY <1>2, <2>1
<1>4. d \in Seq(Byte) /\ Len(d) = 4 * n
  BY <1>3
<1>5. Ranged(d, n, lo, hi)
  BY <1>1 DEF Ranged
<1>6. \A i \in 0..(n - 1) : d[4 * i + 3 + 1] = 255
  BY <1>1
<1>7. QED
  BY <1>4, <1>5, <1>6 DEF Opaqued, d

(* downsample_2x2_bgra keeps every channel within its bounds.                *)
LEMMA Downsampled ==
  ASSUME NEW w \in Nat \ {0}, NEW h \in Nat \ {0}, NEW src, NEW lo, NEW hi, Ranges(lo, hi),
         Ranged(src, w * h, lo, hi)
  PROVE  Opaqued(downsample_2x2_bgra(src, w, h), HalfUp(w) * HalfUp(h), lo, hi)
<1>1. PICK qw \in Nat \ {0}, qh \in Nat \ {0} : qw = HalfUp(w) /\ qh = HalfUp(h)
  BY HalfUpPositive
<1>2. PICK n \in Nat : n = qw * qh
  BY SMT
<1> DEFINE Colour(i, c) ==
             LET x == 2 * (i % qw)
                 y == 2 * (i \div qw)
             IN  Mean(Sample(src, w, h, x, y, c), Sample(src, w, h, x + 1, y, c),
                      Sample(src, w, h, x, y + 1, c), Sample(src, w, h, x + 1, y + 1, c))
           f == [k \in 1..(4 * n) |-> Colour((k - 1) \div 4, (k - 1) % 4)]
<1>3. downsample_2x2_bgra(src, w, h) = [k \in 1..(4 * n) |-> IF (k - 1) % 4 = 3 THEN 255 ELSE f[k]]
  BY <1>1, <1>2 DEF downsample_2x2_bgra, Opaque, Sample
<1>4. \A i \in 0..(n - 1) : \A c \in 0..2 : Colour(i, c) \in lo[c]..hi[c]
  <2> TAKE i \in 0..(n - 1)
  <2> TAKE c \in 0..2
  <2>1. PICK x, y : x = 2 * (i % qw) /\ y = 2 * (i \div qw)
    OBVIOUS
  <2>2. x \in Nat /\ y \in Nat /\ x + 1 \in Nat /\ y + 1 \in Nat
    <3>1. i % qw \in Nat /\ i \div qw \in Nat
      BY SMT
    <3>2. QED
      BY <2>1, <3>1
  <2>3. PICK p, q, r, s : /\ p = Sample(src, w, h, x, y, c) /\ q = Sample(src, w, h, x + 1, y, c)
                          /\ r = Sample(src, w, h, x, y + 1, c)
                          /\ s = Sample(src, w, h, x + 1, y + 1, c)
    OBVIOUS
  <2>4. p \in lo[c]..hi[c] /\ q \in lo[c]..hi[c] /\ r \in lo[c]..hi[c] /\ s \in lo[c]..hi[c]
    BY <2>2, <2>3, SampleRanged
  <2>5. lo[c] \in Nat /\ hi[c] \in Nat
    BY DEF Ranges
  <2>6. Mean(p, q, r, s) \in lo[c]..hi[c]
    BY <2>4, <2>5, MeanWithin
  <2>7. Colour(i, c) = Mean(p, q, r, s)
    BY <2>1, <2>3
  <2>8. QED
    BY <2>6, <2>7
<1> HIDE DEF Colour
<1>5. \A i \in 0..(n - 1) : \A c \in 0..2 : f[4 * i + c + 1] \in lo[c]..hi[c]
  <2> TAKE i \in 0..(n - 1)
  <2> TAKE c \in 0..2
  <2>1. PICK k : k = 4 * i + c + 1
    OBVIOUS
  <2>2. k \in 1..(4 * n) /\ (k - 1) \div 4 = i /\ (k - 1) % 4 = c
    <3>1. c \in 0..3
      OBVIOUS
    <3>2. QED
      BY <2>1, <3>1, PixelAt
  <2>3. f[k] = Colour(i, c)
    BY <2>2
  <2>4. QED
    BY <1>4, <2>1, <2>3
<1> HIDE DEF f
<1>6. Opaqued([k \in 1..(4 * n) |-> IF (k - 1) % 4 = 3 THEN 255 ELSE f[k]], n, lo, hi)
  BY <1>5, OpaqueRanged
<1>7. QED
  BY <1>1, <1>2, <1>3, <1>6

(* upsample_2x2_bgra keeps every channel within its bounds.                  *)
LEMMA Upsampled ==
  ASSUME NEW w \in Nat \ {0}, NEW h \in Nat \ {0}, NEW q, NEW lo, NEW hi, Ranges(lo, hi),
         Len(q) = 4 * (HalfUp(w) * HalfUp(h)), Ranged(q, HalfUp(w) * HalfUp(h), lo, hi)
  PROVE  Opaqued(upsample_2x2_bgra(q, w, h), w * h, lo, hi)
<1>1. PICK qw \in Nat \ {0}, qh \in Nat \ {0} : qw = HalfUp(w) /\ qh = HalfUp(h)
  BY HalfUpPositive
<1>2. PICK n \in Nat : n = w * h
  BY SMT
<1>20. ~(qw = 0 \/ qh = 0 \/ Len(q) < qw * qh * 4)
  <2>1. PICK m \in Nat : m = qw * qh
    BY SMT
  <2>2. Len(q) = 4 * m
    BY <1>1, <2>1
  <2>3. QED
    BY <2>1, <2>2
<1> DEFINE Colour(i, c) ==
             LET x0 == (i % w) \div 2
                 y0 == (i \div w) \div 2
                 x1 == x0 + ((i % w) % 2)
                 y1 == y0 + ((i \div w) % 2)
             IN  Mean(Sample(q, qw, qh, x0, y0, c), Sample(q, qw, qh, x1, y0, c),
                      Sample(q, qw, qh, x0, y1, c), Sample(q, qw, qh, x1, y1, c))
           f == [k \in 1..(4 * n) |-> Colour((k - 1) \div 4, (k - 1) % 4)]
<1>3. upsample_2x2_bgra(q, w, h) = [k \in 1..(4 * n) |-> IF (k - 1) % 4 = 3 THEN 255 ELSE f[k]]
  BY <1>1, <1>2, <1>20 DEF upsample_2x2_bgra, Opaque, Sample
<1>4. \A i \in 0..(n - 1) : \A c \in 0..2 : Colour(i, c) \in lo[c]..hi[c]
  <2> TAKE i \in 0..(n - 1)
  <2> TAKE c \in 0..2
  <2>1. PICK x, y, u, v : /\ x = (i % w) \div 2 /\ y = (i \div w) \div 2
                          /\ u = x + ((i % w) % 2) /\ v = y + ((i \div w) % 2)
    OBVIOUS
  <2>2. x \in Nat /\ y \in Nat /\ u \in Nat /\ v \in Nat
    <3>0. i % w \in Nat /\ i \div w \in Nat
      BY SMT
    <3>1. PICK a \in Nat, b \in Nat : a = i % w /\ b = i \div w
      BY <3>0
    <3>2. a \div 2 \in Nat /\ a % 2 \in Nat /\ b \div 2 \in Nat /\ b % 2 \in Nat
      BY SMT
    <3>3. QED
      BY <2>1, <3>1, <3>2
  <2>3. PICK p, r, s, t : /\ p = Sample(q, qw, qh, x, y, c) /\ r = Sample(q, qw, qh, u, y, c)
                          /\ s = Sample(q, qw, qh, x, v, c) /\ t = Sample(q, qw, qh, u, v, c)
    OBVIOUS
  <2>4. p \in lo[c]..hi[c] /\ r \in lo[c]..hi[c] /\ s \in lo[c]..hi[c] /\ t \in lo[c]..hi[c]
    <3>1. Ranged(q, qw * qh, lo, hi)
      BY <1>1
    <3>2. QED
      BY <2>2, <2>3, <3>1, SampleRanged
  <2>5. lo[c] \in Nat /\ hi[c] \in Nat
    BY DEF Ranges
  <2>6. Mean(p, r, s, t) \in lo[c]..hi[c]
    BY <2>4, <2>5, MeanWithin
  <2>7. Colour(i, c) = Mean(p, r, s, t)
    BY <2>1, <2>3
  <2>8. QED
    BY <2>6, <2>7
<1> HIDE DEF Colour
<1>5. \A i \in 0..(n - 1) : \A c \in 0..2 : f[4 * i + c + 1] \in lo[c]..hi[c]
  <2> TAKE i \in 0..(n - 1)
  <2> TAKE c \in 0..2
  <2>1. PICK k : k = 4 * i + c + 1
    OBVIOUS
  <2>2. k \in 1..(4 * n) /\ (k - 1) \div 4 = i /\ (k - 1) % 4 = c
    <3>1. c \in 0..3
      OBVIOUS
    <3>2. QED
      BY <2>1, <3>1, PixelAt
  <2>3. f[k] = Colour(i, c)
    BY <2>2
  <2>4. QED
    BY <1>4, <2>1, <2>3
<1> HIDE DEF f
<1>6. Opaqued([k \in 1..(4 * n) |-> IF (k - 1) % 4 = 3 THEN 255 ELSE f[k]], n, lo, hi)
  BY <1>5, OpaqueRanged
<1>7. QED
  BY <1>2, <1>3, <1>6

(* A set of bytes that is not empty has its greatest one.                    *)
LEMMA HasMax ==
  ASSUME NEW S \in SUBSET (0..255), S # {}
  PROVE  Max(S) \in S /\ \A k \in S : k <= Max(S)
<1> DEFINE T == {z \in 0..255 : 255 - z \in S}
<1>1. T # {} /\ T \in SUBSET Nat
  <2>1. PICK s : s \in S
    OBVIOUS
  <2>2. 255 - s \in 0..255 /\ 255 - (255 - s) = s
    BY <2>1
  <2>3. 255 - s \in T
    BY <2>1, <2>2
  <2>4. T # {}
    BY <2>3
  <2>5. T \in SUBSET Nat
    OBVIOUS
  <2>6. QED
    BY <2>4, <2>5
<1>2. PICK m \in T : \A z \in T : m <= z
  BY <1>1, HasMin, ZenonT(30)
<1>3. 255 - m \in S
  BY <1>2
<1>4. \A k \in S : k <= 255 - m
  <2> TAKE k \in S
  <2>1. k \in 0..255 /\ 255 - k \in 0..255 /\ 255 - (255 - k) = k
    OBVIOUS
  <2>2. 255 - k \in T
    BY <2>1
  <2>3. m <= 255 - k /\ m \in 0..255
    BY <1>2, <2>2, ZenonT(30)
  <2>4. QED
    BY <2>1, <2>3
<1>5. \E x \in S : \A k \in S : x >= k
  <2>1. \A k \in S : 255 - m >= k
    <3> TAKE k \in S
    <3>1. k <= 255 - m /\ k \in 0..255 /\ m \in 0..255
      BY <1>2, <1>4
    <3>2. QED
      BY <3>1
  <2>2. QED
    BY <1>3, <2>1
<1>6. Max(S) \in S /\ \A k \in S : Max(S) >= k
  BY <1>5 DEF Max
<1>7. \A k \in S : k <= Max(S)
  <2> TAKE k \in S
  <2>1. k \in 0..255 /\ Max(S) \in 0..255 /\ Max(S) >= k
    BY <1>6
  <2>2. QED
    BY <2>1
<1>8. QED
  BY <1>6, <1>7

(* What read_payload_geom makes of blocks that decode.                       *)
LEMMA ReadLz4 ==
  ASSUME NEW wire, NEW w, NEW h, NEW d, NEW L, Len(d) = L, lz4_decode(wire, L) = Ok(d, <<>>)
  PROVE  read_payload_geom(wire, LZ4, w, h, L) = Ok(d, <<>>)
<1>1. PICK r : r = lz4_decode(wire, L)
  OBVIOUS
<1>2. r = Ok(d, <<>>) /\ r.err = "none" /\ r.val = d
  BY <1>1 DEF Ok
<1>3. LZ4 # RAW
  BY DEF LZ4, RAW
<1>4. read_payload_geom(wire, LZ4, w, h, L)
        = Bind(r, LAMBDA p : IF Len(p.val) = L THEN p ELSE Err("InvalidValue"))
  BY <1>1, <1>3 DEF read_payload_geom, LZ4, RAW, LZ4_DELTA, LZ4_DELTA_Q2
<1>5. QED
  BY <1>2, <1>4 DEF Bind, Failed

(* read_payload_geom of the two passes of LZ4_DELTA.                         *)
LEMMA ReadDelta ==
  ASSUME NEW wire, NEW w, NEW h, NEW b, NEW f, NEW d, NEW L, Len(d) = L,
         lz4_decode(wire, AnyLength) = Ok(b, <<>>), lz4_decode(b, L) = Ok(f, <<>>),
         spatial_unfilter_sub_in_place(f) = d
  PROVE  read_payload_geom(wire, LZ4_DELTA, w, h, L) = Ok(d, <<>>)
<1>1. PICK r, s, t : /\ r = Ok(b, <<>>) /\ s = Ok(f, <<>>) /\ t = Ok(d, <<>>)
  OBVIOUS
<1>2. /\ r.err = "none" /\ r.val = b /\ s.err = "none" /\ s.val = f
      /\ t.err = "none" /\ t.val = d /\ s.rest = <<>> /\ t.rest = <<>>
  BY <1>1 DEF Ok
<1>3. Map(s, LAMBDA x : Ok(spatial_unfilter_sub_in_place(x), <<>>)) = t
  BY <1>1, <1>2 DEF Map, Bind, Failed
<1>4. read_payload_geom(wire, LZ4_DELTA, w, h, L)
        = Bind(Bind(r, LAMBDA stage1 : Map(lz4_decode(stage1.val, L),
                                           LAMBDA x : Ok(spatial_unfilter_sub_in_place(x), <<>>))),
               LAMBDA p : IF Len(p.val) = L THEN p ELSE Err("InvalidValue"))
  BY <1>1 DEF read_payload_geom, LZ4, RAW, LZ4_DELTA, LZ4_DELTA_Q2
<1>5. QED
  BY <1>1, <1>2, <1>3, <1>4 DEF Bind, Failed

(* read_payload_geom of the half resolution form.                            *)
LEMMA ReadQ2 ==
  ASSUME NEW wire, NEW w, NEW h, NEW f, NEW q, NEW d, NEW L, Len(d) = L,
         lz4_decode(wire, HalfUp(w) * HalfUp(h) * 4) = Ok(f, <<>>),
         spatial_unfilter_sub_in_place(f) = q, upsample_2x2_bgra(q, w, h) = d
  PROVE  read_payload_geom(wire, LZ4_DELTA_Q2, w, h, L) = Ok(d, <<>>)
<1>1. PICK s, u, t : /\ s = Ok(f, <<>>) /\ u = Ok(q, <<>>) /\ t = Ok(d, <<>>)
  OBVIOUS
<1>2. /\ s.err = "none" /\ s.val = f /\ s.rest = <<>>
      /\ u.err = "none" /\ u.val = q /\ u.rest = <<>>
      /\ t.err = "none" /\ t.val = d /\ t.rest = <<>>
  BY <1>1 DEF Ok
<1>3. Map(s, LAMBDA x : Ok(spatial_unfilter_sub_in_place(x), <<>>)) = u
  BY <1>1, <1>2 DEF Map, Bind, Failed
<1>4. Map(u, LAMBDA x : Ok(upsample_2x2_bgra(x, w, h), <<>>)) = t
  BY <1>1, <1>2 DEF Map, Bind, Failed
<1>5. read_payload_geom(wire, LZ4_DELTA_Q2, w, h, L)
        = Bind(Map(Map(s, LAMBDA x : Ok(spatial_unfilter_sub_in_place(x), <<>>)),
                   LAMBDA x : Ok(upsample_2x2_bgra(x, w, h), <<>>)),
               LAMBDA p : IF Len(p.val) = L THEN p ELSE Err("InvalidValue"))
  BY <1>1 DEF read_payload_geom, LZ4, RAW, LZ4_DELTA, LZ4_DELTA_Q2
<1>6. QED
  BY <1>2, <1>3, <1>4, <1>5, <1>1 DEF Bind, Failed

(* What PicturesAssumption says of one picture.                              *)
Compressible(d) == Len(d) + Len(d) \div LenMax + 6 <= MaxMessage

(* PicturesAssumption, unfolded for one picture.                             *)
LEMMA PictureFacts ==
  ASSUME NEW p \in Pictures
  PROVE  /\ p.w \in Nat \ {0} /\ p.h \in Nat \ {0} /\ p.w * p.h \in Nat
         /\ p.pixels \in Seq(Byte) /\ Len(p.pixels) = 4 * (p.w * p.h) /\ Compressible(p.pixels)
<1>1. /\ p.w \in Nat \ {0} /\ p.h \in Nat \ {0}
      /\ p.pixels \in [1..(4 * (p.w * p.h)) -> 0..255]
      /\ 4 * (p.w * p.h) + (4 * (p.w * p.h)) \div LenMax + 6 <= MaxMessage
  BY PicturesAssumption
<1>2. PICK n : n = p.w * p.h
  OBVIOUS
<1>3. n \in Nat
  BY <1>1, <1>2, SMT
<1>4. PICK d : d = p.pixels
  OBVIOUS
<1>5. d \in [1..(4 * n) -> Byte] /\ 4 * n \in Nat
  BY <1>1, <1>2, <1>3, <1>4 DEF Byte
<1>6. d \in Seq(Byte) /\ Len(d) = 4 * n
  BY <1>5
<1>7. 4 * n + (4 * n) \div LenMax + 6 <= MaxMessage
  BY <1>1, <1>2
<1>8. Compressible(d)
  BY <1>6, <1>7 DEF Compressible
<1>9. QED
  BY <1>1, <1>2, <1>3, <1>4, <1>6, <1>8

(* Less data fits as well, and data that fits is no longer than a message.   *)
LEMMA FitsLess ==
  ASSUME NEW d \in Seq(Byte), Compressible(d), NEW e \in Seq(Byte), Len(e) <= Len(d)
  PROVE  Compressible(e) /\ Len(e) <= MaxMessage
<1>1. LenMax \in Nat \ {0} /\ MaxMessage \in Nat
  BY TokenBounds, Lz4Assumption
<1>2. PICK a \in Nat, b \in Nat : a = Len(e) /\ b = Len(d) /\ a <= b
  OBVIOUS
<1>3. a \div LenMax \in Nat /\ a \div LenMax <= b \div LenMax
  BY <1>1, <1>2, DivLess
<1>4. b \div LenMax \in Nat
  <2>1. b <= b
    OBVIOUS
  <2>2. QED
    BY <1>1, <2>1, DivLess
<1>5. b + b \div LenMax + 6 <= MaxMessage
  BY <1>2 DEF Compressible
<1>6. PICK x \in Nat, y \in Nat : x = a \div LenMax /\ y = b \div LenMax
  BY <1>3, <1>4
<1>7. a + x + 6 <= MaxMessage /\ a <= MaxMessage
  BY <1>1, <1>2, <1>3, <1>5, <1>6
<1>8. QED
  BY <1>2, <1>6, <1>7 DEF Compressible

(* A picture holds whole pixels.                                             *)
LEMMA FourTimes ==
  ASSUME NEW n \in Nat
  PROVE  4 * ((4 * n) \div 4) = 4 * n
BY SMT

(* Half of a side is no longer than the side.                                *)
LEMMA HalfUpLess ==
  ASSUME NEW n \in Nat \ {0}
  PROVE  HalfUp(n) <= n
BY SMT DEF HalfUp

(* Every byte lies between the bounds of all bytes.                          *)
Least3 == [c \in 0..2 |-> 0]
Most3  == [c \in 0..2 |-> 255]

(* So every picture is within them.                                          *)
LEMMA AllRanged ==
  ASSUME NEW d \in Seq(Byte), NEW n \in Nat, Len(d) = 4 * n
  PROVE  Ranges(Least3, Most3) /\ Ranged(d, n, Least3, Most3)
<1>1. \A c \in 0..2 : Least3[c] = 0 /\ Most3[c] = 255
  BY DEF Least3, Most3
<1>2. \A i \in 0..(n - 1) : \A c \in 0..2 : d[4 * i + c + 1] \in 0..255
  <2> TAKE i \in 0..(n - 1)
  <2> TAKE c \in 0..2
  <2>1. PICK k : k = 4 * i + c + 1
    OBVIOUS
  <2>2. k \in 1..Len(d)
    <3>1. c \in 0..3
      OBVIOUS
    <3>2. QED
      BY <2>1, <3>1, PixelAt
  <2>3. d[k] \in Byte
    BY <2>2
  <2>4. QED
    BY <2>1, <2>3 DEF Byte
<1>3. Ranges(Least3, Most3)
  BY <1>1 DEF Ranges
<1>4. \A i \in 0..(n - 1) : \A c \in 0..2 : d[4 * i + c + 1] \in Least3[c]..Most3[c]
  <2> TAKE i \in 0..(n - 1)
  <2> TAKE c \in 0..2
  <2>1. Least3[c] = 0 /\ Most3[c] = 255
    BY <1>1
  <2>2. d[4 * i + c + 1] \in 0..255
    BY <1>2
  <2>3. QED
    BY <2>1, <2>2
<1>5. QED
  BY <1>3, <1>4 DEF Ranged

(* What a form puts through the block encoder.                               *)
LEMMA PreparedFacts ==
  ASSUME NEW p \in Pictures, NEW c \in {LZ4, LZ4_DELTA, LZ4_DELTA_Q2}
  PROVE  /\ Prepared(c, p.w, p.h, p.pixels) \in Seq(Byte)
         /\ Compressible(Prepared(c, p.w, p.h, p.pixels))
         /\ c # LZ4_DELTA_Q2 => Len(Prepared(c, p.w, p.h, p.pixels)) = Len(p.pixels)
         /\ c = LZ4_DELTA_Q2 => Len(Prepared(c, p.w, p.h, p.pixels)) = 4 * (HalfUp(p.w) * HalfUp(p.h))
<1>1. PICK w, h, n, d : w = p.w /\ h = p.h /\ n = w * h /\ d = p.pixels
  OBVIOUS
<1>2. w \in Nat \ {0} /\ h \in Nat \ {0} /\ n \in Nat /\ d \in Seq(Byte) /\ Len(d) = 4 * n /\ Compressible(d)
  BY <1>1, PictureFacts
<1>3. 4 * (Len(d) \div 4) = Len(d)
  BY <1>2, FourTimes
<1>4. CASE c = LZ4
  <2>1. Prepared(c, w, h, d) = d
    BY <1>4 DEF Prepared, LZ4, LZ4_DELTA, LZ4_DELTA_Q2
  <2>2. c # LZ4_DELTA_Q2
    BY <1>4 DEF LZ4, LZ4_DELTA_Q2
  <2>3. QED
    BY <1>1, <1>2, <2>1, <2>2
<1>5. CASE c = LZ4_DELTA
  <2>1. Prepared(c, w, h, d) = spatial_filter_sub_into(d)
    BY <1>5 DEF Prepared, LZ4, LZ4_DELTA, LZ4_DELTA_Q2
  <2>2. c # LZ4_DELTA_Q2
    BY <1>5 DEF LZ4_DELTA, LZ4_DELTA_Q2
  <2>3. spatial_filter_sub_into(d) \in Seq(Byte) /\ Len(spatial_filter_sub_into(d)) = Len(d)
    BY <1>2, <1>3, FilterBytes
  <2>4. Len(spatial_filter_sub_into(d)) <= Len(d)
    BY <1>2, <2>3
  <2>5. Compressible(spatial_filter_sub_into(d))
    BY <1>2, <2>3, <2>4, FitsLess
  <2>6. QED
    BY <1>1, <2>1, <2>2, <2>3, <2>5
<1>6. CASE c = LZ4_DELTA_Q2
  <2>1. PICK q : q = downsample_2x2_bgra(d, w, h)
    OBVIOUS
  <2>2. Prepared(c, w, h, d) = spatial_filter_sub_into(q)
    BY <1>6, <2>1 DEF Prepared, LZ4, LZ4_DELTA, LZ4_DELTA_Q2
  <2>3. PICK qw \in Nat \ {0}, qh \in Nat \ {0} : qw = HalfUp(w) /\ qh = HalfUp(h)
    BY <1>2, HalfUpPositive
  <2>4. PICK m \in Nat : m = qw * qh
    BY SMT
  <2>5. Ranges(Least3, Most3) /\ Ranged(d, w * h, Least3, Most3)
    BY <1>1, <1>2, AllRanged
  <2>6. Opaqued(q, m, Least3, Most3)
    BY <1>2, <2>1, <2>3, <2>4, <2>5, Downsampled
  <2>7. q \in Seq(Byte) /\ Len(q) = 4 * m
    BY <2>6 DEF Opaqued
  <2>8. 4 * (Len(q) \div 4) = Len(q)
    BY <2>7, FourTimes
  <2>9. PICK f : f = spatial_filter_sub_into(q)
    OBVIOUS
  <2>10. f \in Seq(Byte) /\ Len(f) = 4 * m
    BY <2>7, <2>8, <2>9, FilterBytes
  <2>11. m <= n
    <3>1. qw <= w /\ qh <= h
      BY <1>2, <2>3, HalfUpLess
    <3>2. qw * qh <= w * qh
      BY <1>2, <3>1, SMT
    <3>3. w * qh <= w * h
      BY <1>2, <3>1, SMT
    <3>4. w * qh \in Nat
      BY <1>2, SMT
    <3>5. QED
      BY <1>1, <1>2, <2>4, <3>2, <3>3, <3>4
  <2>12. Compressible(f)
    <3>1. Len(f) <= Len(d)
      BY <1>2, <2>10, <2>11
    <3>2. QED
      BY <1>2, <2>10, <3>1, FitsLess
  <2>13. QED
    BY <1>1, <1>6, <2>2, <2>3, <2>4, <2>9, <2>10, <2>12
<1>7. QED
  BY <1>4, <1>5, <1>6

(* The bytes of a picture in the channel of its k-th.                        *)
Channel(d, k) == {d[j] : j \in {i \in 1..Len(d) : (i - k) % 4 = 0}}

(* A byte lies between the bounds of its channel.                            *)
LEMMA ChannelBounds ==
  ASSUME NEW d \in Seq(Byte), NEW k \in 1..Len(d)
  PROVE  /\ Min(Channel(d, k)) \in 0..255 /\ Max(Channel(d, k)) \in 0..255
         /\ \A j \in 1..Len(d) :
              (j - k) % 4 = 0 => d[j] \in Min(Channel(d, k))..Max(Channel(d, k))
         /\ d[k] \in Min(Channel(d, k))..Max(Channel(d, k))
<1>1. PICK S : S = Channel(d, k)
  OBVIOUS
<1>2. S \in SUBSET (0..255) /\ S \in SUBSET Nat
  <2>1. \A j \in 1..Len(d) : d[j] \in 0..255 /\ d[j] \in Nat
    <3> TAKE j \in 1..Len(d)
    <3>1. d[j] \in Byte
      OBVIOUS
    <3>2. QED
      BY <3>1, ByteIsNat DEF Byte
  <2>2. \A x \in S : x \in 0..255 /\ x \in Nat
    <3> TAKE x \in S
    <3>1. PICK j \in 1..Len(d) : x = d[j]
      BY <1>1 DEF Channel
    <3>2. QED
      BY <2>1, <3>1
  <2>3. QED
    BY <2>2
<1>3. (k - k) % 4 = 0
  BY SMT
<1>4. d[k] \in S
  BY <1>1, <1>3 DEF Channel
<1>5. Min(S) \in S /\ Max(S) \in S /\ \A x \in S : Min(S) <= x /\ x <= Max(S)
  BY <1>2, <1>4, HasMin, HasMax
<1>6. PICK l, u : l = Min(S) /\ u = Max(S)
  OBVIOUS
<1>7. l \in 0..255 /\ u \in 0..255 /\ \A x \in S : x \in 0..255 /\ l <= x /\ x <= u
  BY <1>2, <1>5, <1>6
<1>8. \A x \in S : x \in l..u
  <2> TAKE x \in S
  <2>1. x \in 0..255 /\ l <= x /\ x <= u
    BY <1>7
  <2>2. l \in 0..255 /\ u \in 0..255
    BY <1>7
  <2>3. QED
    BY <2>1, <2>2
<1>9. \A j \in 1..Len(d) : (j - k) % 4 = 0 => d[j] \in S
  BY <1>1 DEF Channel
<1>10. QED
  BY <1>1, <1>4, <1>6, <1>7, <1>8, <1>9

(* A picture brought to half the resolution and back keeps every byte of a   *)
(* colour channel within the bounds that channel had.                        *)
Halved(d, w, h, q, u) ==
  /\ w \in Nat \ {0} /\ h \in Nat \ {0} /\ d \in Seq(Byte) /\ Len(d) = 4 * (w * h)
  /\ q = downsample_2x2_bgra(d, w, h) /\ u = upsample_2x2_bgra(q, w, h)

(* Down and up again: opaque, and every channel within its bounds.           *)
LEMMA HalvedInRange ==
  ASSUME NEW d, NEW w, NEW h, NEW q, NEW u, Halved(d, w, h, q, u), NEW k \in 1..Len(d)
  PROVE  /\ k % 4 = 0 => u[k] = 255
         /\ k % 4 # 0 => u[k] \in Min(Channel(d, k))..Max(Channel(d, k))
<1>0. /\ w \in Nat \ {0} /\ h \in Nat \ {0} /\ d \in Seq(Byte) /\ Len(d) = 4 * (w * h)
      /\ q = downsample_2x2_bgra(d, w, h) /\ u = upsample_2x2_bgra(q, w, h)
  BY DEF Halved
<1>1. PICK n \in Nat : n = w * h
  BY <1>0, SMT
<1>2. PICK l \in 0..255, t \in 0..255 : l = Min(Channel(d, k)) /\ t = Max(Channel(d, k))
  BY <1>0, ChannelBounds
<1>3. PICK i \in 0..(n - 1), c \in 0..3 : k = 4 * i + c + 1
  <2>1. k \in 1..(4 * n)
    BY <1>0, <1>1
  <2>2. PICK i \in 0..(n - 1), c \in 0..3 : 4 * i + c + 1 = k
    <3>1. PICK y \in 1..(4 * n) : y = k
      BY <2>1
    <3>2. \E i \in 0..(n - 1), c \in 0..3 :
            y = 4 * i + c + 1 /\ (y - 1) \div 4 = i /\ (y - 1) % 4 = c
      BY PixelOf
    <3>3. QED
      BY <3>1, <3>2
  <2>3. QED
    BY <2>2
<1> DEFINE lo == [x \in 0..2 |-> IF x = c THEN l ELSE 0]
           hi == [x \in 0..2 |-> IF x = c THEN t ELSE 255]
<1>4. Ranges(lo, hi)
  <2>1. \A x \in 0..2 : lo[x] = (IF x = c THEN l ELSE 0) /\ hi[x] = (IF x = c THEN t ELSE 255)
    OBVIOUS
  <2>2. l \in Nat /\ t \in Nat /\ t <= 255
    OBVIOUS
  <2> HIDE DEF lo, hi
  <2>3. \A x \in 0..2 : lo[x] \in Nat /\ hi[x] \in Nat /\ hi[x] <= 255
    <3> TAKE x \in 0..2
    <3>1. CASE x = c
      BY <2>1, <2>2, <3>1
    <3>2. CASE x # c
      BY <2>1, <3>2
    <3>3. QED
      BY <3>1, <3>2
  <2>4. QED
    BY <2>3 DEF Ranges
<1>5. \A j \in 0..(n - 1) : \A x \in 0..2 : d[4 * j + x + 1] \in lo[x]..hi[x]
  <2> TAKE j \in 0..(n - 1)
  <2> TAKE x \in 0..2
  <2>1. PICK y : y = 4 * j + x + 1
    OBVIOUS
  <2>2. y \in 1..Len(d)
    <3>1. x \in 0..3
      OBVIOUS
    <3>2. QED
      BY <1>0, <1>1, <2>1, <3>1, PixelAt
  <2>3. CASE x = c
    <3>1. y - k = 4 * (j - i) /\ (y - k) % 4 = 0
      BY <1>3, <2>1, <2>3, SMT
    <3>2. d[y] \in l..t
      BY <1>0, <1>2, <2>2, <3>1, ChannelBounds
    <3>3. lo[x] = l /\ hi[x] = t
      BY <2>3
    <3>4. QED
      BY <2>1, <3>2, <3>3
  <2>4. CASE x # c
    <3>1. d[y] \in Byte
      BY <1>0, <2>2
    <3>2. d[y] \in 0..255
      BY <3>1 DEF Byte
    <3>3. lo[x] = 0 /\ hi[x] = 255
      BY <2>4
    <3>4. QED
      BY <2>1, <3>2, <3>3
  <2>5. QED
    BY <2>3, <2>4
<1>6. Ranged(d, w * h, lo, hi)
  BY <1>1, <1>5 DEF Ranged
<1>9. c \in 0..2 => lo[c] = l /\ hi[c] = t
  OBVIOUS
<1> HIDE DEF lo, hi
<1>10. Opaqued(q, HalfUp(w) * HalfUp(h), lo, hi)
  BY <1>0, <1>4, <1>6, Downsampled
<1>11. Opaqued(u, n, lo, hi)
  <2>1. Len(q) = 4 * (HalfUp(w) * HalfUp(h)) /\ Ranged(q, HalfUp(w) * HalfUp(h), lo, hi)
    BY <1>10 DEF Opaqued
  <2>2. QED
    BY <1>0, <1>1, <1>4, <2>1, Upsampled
<1>13. k % 4 = 0 => u[k] = 255
  <2> SUFFICES ASSUME k % 4 = 0
               PROVE  u[k] = 255
      OBVIOUS
  <2>1. c = 3
    BY <1>3, SMT
  <2>2. u[4 * i + 3 + 1] = 255
    BY <1>11 DEF Opaqued
  <2>3. QED
    BY <1>3, <2>1, <2>2
<1>14. k % 4 # 0 => u[k] \in l..t
  <2> SUFFICES ASSUME k % 4 # 0
               PROVE  u[k] \in l..t
      OBVIOUS
  <2>1. c \in 0..2
    BY <1>3, SMT
  <2>2. u[4 * i + c + 1] \in lo[c]..hi[c]
    <3>1. Ranged(u, n, lo, hi)
      BY <1>11 DEF Opaqued
    <3>2. \A j \in 0..(n - 1) : \A x \in 0..2 : u[4 * j + x + 1] \in lo[x]..hi[x]
      BY <3>1 DEF Ranged
    <3>3. QED
      BY <2>1, <3>2
  <2>3. QED
    BY <1>3, <1>9, <2>1, <2>2
<1>15. QED
  BY <1>2, <1>13, <1>14

(* What the client is to make of the picture p sent in the form form.        *)
Kept(p, form, result) ==
  /\ ~Failed(result)
  /\ form # LZ4_DELTA_Q2 => result.val = p.pixels
  /\ \A k \in 1..Len(p.pixels) :
       IF k % 4 = 0 /\ form = LZ4_DELTA_Q2 THEN result.val[k] = 255
       ELSE result.val[k] \in Min(Channel(p.pixels, k))..Max(Channel(p.pixels, k))

(* The blocks of a picture: one, or for LZ4_DELTA one of one.                *)
Chain(p, form, block, first) ==
  LET plain == Prepared(form, p.w, p.h, p.pixels)
  IN  IF form = LZ4_DELTA THEN BlockOf(block, first) /\ BlockOf(first, plain)
      ELSE BlockOf(block, plain)

(* The client makes of the blocks of a picture what PictureSurvives asks for.*)
LEMMA ChainKept ==
  ASSUME NEW p \in Pictures, NEW form \in {LZ4, LZ4_DELTA, LZ4_DELTA_Q2}, NEW block, NEW first,
         Chain(p, form, block, first)
  PROVE  Kept(p, form, read_payload_geom(block, form, p.w, p.h, Len(p.pixels)))
<1>1. PICK w, h, d, L : w = p.w /\ h = p.h /\ d = p.pixels /\ L = Len(d)
  OBVIOUS
<1>2. /\ w \in Nat \ {0} /\ h \in Nat \ {0} /\ w * h \in Nat
      /\ d \in Seq(Byte) /\ L = 4 * (w * h) /\ 4 * (L \div 4) = L
  BY <1>1, PictureFacts, FourTimes
<1>3. PICK r : r = read_payload_geom(block, form, w, h, L)
  OBVIOUS
<1>4. PICK plain : plain = Prepared(form, w, h, d)
  OBVIOUS
<1>5. /\ form # LZ4_DELTA_Q2 => Len(plain) = L
      /\ form = LZ4_DELTA_Q2 => Len(plain) = 4 * (HalfUp(w) * HalfUp(h))
  BY <1>1, <1>4, PreparedFacts
<1>6. ASSUME form # LZ4_DELTA_Q2, r = Ok(d, <<>>)
      PROVE  Kept(p, form, r)
  <2>1. r.err = "none" /\ r.val = d
    BY <1>6 DEF Ok
  <2>2. \A k \in 1..Len(d) : d[k] \in Min(Channel(d, k))..Max(Channel(d, k))
    BY <1>2, ChannelBounds
  <2>3. QED
    BY <1>1, <1>6, <2>1, <2>2 DEF Kept, Failed
<1>7. CASE form = LZ4
  <2>1. form # LZ4_DELTA /\ form # LZ4_DELTA_Q2
    BY <1>7 DEF LZ4, LZ4_DELTA, LZ4_DELTA_Q2
  <2>2. plain = d
    BY <1>4, <1>7 DEF Prepared, LZ4, LZ4_DELTA, LZ4_DELTA_Q2
  <2>3. BlockOf(block, d)
    BY <1>1, <1>4, <2>1, <2>2 DEF Chain
  <2>4. lz4_decode(block, L) = Ok(d, <<>>)
    BY <1>1, <2>3 DEF BlockOf
  <2>5. r = Ok(d, <<>>)
    BY <1>1, <1>3, <1>7, <2>4, ReadLz4
  <2>6. QED
    BY <1>1, <1>3, <1>6, <2>1, <2>5
<1>8. CASE form = LZ4_DELTA
  <2>1. form # LZ4_DELTA_Q2
    BY <1>8 DEF LZ4_DELTA, LZ4_DELTA_Q2
  <2>2. plain = spatial_filter_sub_into(d)
    BY <1>4, <1>8 DEF Prepared, LZ4, LZ4_DELTA, LZ4_DELTA_Q2
  <2>3. BlockOf(block, first) /\ BlockOf(first, plain)
    BY <1>1, <1>4, <1>8 DEF Chain
  <2>4. lz4_decode(block, AnyLength) = Ok(first, <<>>)
    BY <2>3 DEF BlockOf
  <2>5. lz4_decode(first, L) = Ok(plain, <<>>)
    BY <1>5, <2>1, <2>3 DEF BlockOf
  <2>6. spatial_unfilter_sub_in_place(plain) = d
    BY <1>1, <1>2, <2>2, Unfiltered
  <2>7. r = Ok(d, <<>>)
    BY <1>1, <1>3, <1>8, <2>4, <2>5, <2>6, ReadDelta
  <2>8. QED
    BY <1>1, <1>3, <1>6, <2>1, <2>7
<1>9. CASE form = LZ4_DELTA_Q2
  <2>1. form # LZ4_DELTA
    BY <1>9 DEF LZ4_DELTA, LZ4_DELTA_Q2
  <2>2. PICK q, u : q = downsample_2x2_bgra(d, w, h) /\ u = upsample_2x2_bgra(q, w, h)
    OBVIOUS
  <2>3. plain = spatial_filter_sub_into(q)
    BY <1>4, <1>9, <2>2 DEF Prepared, LZ4, LZ4_DELTA, LZ4_DELTA_Q2
  <2>4. BlockOf(block, plain)
    BY <1>1, <1>4, <2>1 DEF Chain
  <2>5. PICK m \in Nat : m = HalfUp(w) * HalfUp(h)
    <3>1. PICK x \in Nat, y \in Nat : x = HalfUp(w) /\ y = HalfUp(h)
      BY <1>2, HalfUpPositive
    <3>2. x * y \in Nat
      BY SMT
    <3>3. QED
      BY <3>1, <3>2
  <2>6. Len(plain) = m * 4
    BY <1>5, <1>9, <2>5
  <2>7. lz4_decode(block, HalfUp(w) * HalfUp(h) * 4) = Ok(plain, <<>>)
    BY <2>4, <2>5, <2>6 DEF BlockOf
  <2>8. q \in Seq(Byte) /\ 4 * (Len(q) \div 4) = Len(q)
    <3>1. Ranges(Least3, Most3) /\ Ranged(d, w * h, Least3, Most3)
      BY <1>1, <1>2, AllRanged
    <3>2. Opaqued(q, m, Least3, Most3)
      BY <1>2, <2>2, <2>5, <3>1, Downsampled
    <3>3. q \in Seq(Byte) /\ Len(q) = 4 * m
      BY <3>2 DEF Opaqued
    <3>4. QED
      BY <3>3, FourTimes
  <2>9. spatial_unfilter_sub_in_place(plain) = q
    BY <2>3, <2>8, Unfiltered
  <2>10. \A k \in 1..Len(d) :
           /\ k % 4 = 0 => u[k] = 255
           /\ k % 4 # 0 => u[k] \in Min(Channel(d, k))..Max(Channel(d, k))
    <3> TAKE k \in 1..Len(d)
    <3>1. Len(d) = 4 * (w * h)
      BY <1>1, <1>2
    <3>2. Halved(d, w, h, q, u)
      BY <1>2, <2>2, <3>1 DEF Halved
    <3>3. QED
      BY <3>2, HalvedInRange
  <2>11. Len(u) = L
    <3>1. Opaqued(u, w * h, Least3, Most3)
      <4>1. Ranges(Least3, Most3) /\ Ranged(d, w * h, Least3, Most3)
        BY <1>1, <1>2, AllRanged
      <4>2. Opaqued(q, HalfUp(w) * HalfUp(h), Least3, Most3)
        BY <1>2, <2>2, <4>1, Downsampled
      <4>3. Len(q) = 4 * (HalfUp(w) * HalfUp(h)) /\ Ranged(q, HalfUp(w) * HalfUp(h), Least3, Most3)
        BY <4>2 DEF Opaqued
      <4>4. QED
        BY <1>2, <2>2, <4>1, <4>3, Upsampled
    <3>2. QED
      BY <1>2, <3>1 DEF Opaqued
  <2>12. r = Ok(u, <<>>)
    BY <1>3, <1>9, <2>2, <2>7, <2>9, <2>11, ReadQ2
  <2>13. r.err = "none" /\ r.val = u
    BY <2>12 DEF Ok
  <2>14. Kept(p, form, r)
    BY <1>1, <1>9, <2>10, <2>13 DEF Kept, Failed
  <2>15. QED
    BY <1>1, <1>3, <2>14
<1>10. QED
  BY <1>7, <1>8, <1>9

(* A turn of the loop: the block b stands for the first a bytes of data, the  *)
(* next position is i, and a short input has had no match.                   *)
Encoding(data, b, i, a) ==
  /\ Len(data) <= MaxMessage
  /\ i \in Nat /\ a <= i
  /\ Reads(b, data, a)
  /\ Small(b, a)
  /\ Len(data) < Short => a = 0 /\ b = Le(Len(data), 4)

(* StartBlock begins such a loop.                                            *)
LEMMA EncodingStarts ==
  ASSUME NEW data \in Seq(Byte), Len(data) <= MaxMessage
  PROVE  Encoding(data, Le(Len(data), 4), 0, 0)
<1>1. PICK b : b = Le(Len(data), 4)
  OBVIOUS
<1>2. Reads(b, data, 0)
  BY <1>1, ReadsStart
<1>3. Small(b, 0)
  <2>1. Len(data) \in Int /\ 4 \in Nat
    OBVIOUS
  <2>2. Len(b) = 4
    BY <1>1, <2>1, LeIsBytes
  <2>3. PICK m \in Nat \ {0} : m = LenMax
    BY TokenBounds
  <2>4. 0 \div m = 0
    BY SMT
  <2>5. QED
    BY <2>2, <2>3, <2>4 DEF Small
<1>4. QED
  BY <1>1, <1>2, <1>3 DEF Encoding

(* The match EmitMatch takes lies at most MaxDistance back.                  *)
LEMMA MatchNear ==
  ASSUME ip \in Nat, NEW p \in 0..(ip - 1), MatchFrom(p)
  PROVE  ip - p <= MaxDistance
<1>1. CASE Repeats = {}
  BY <1>1 DEF MatchFrom
<1>2. CASE Repeats # {}
  <2>1. p = Max(Repeats)
    BY <1>2 DEF MatchFrom
  <2>2. PICK S : S = Repeats
    OBVIOUS
  <2>3. \A x \in S : x \in {ip - 1, ip - 4}
    BY <2>2 DEF Repeats
  <2>4. \E x \in S : \A y \in S : x >= y
    <3>1. CASE ip - 1 \in S
      BY <2>3, <3>1
    <3>2. CASE ip - 1 \notin S
      BY <1>2, <2>2, <2>3, <3>2
    <3>3. QED
      BY <3>1, <3>2
  <2>5. Max(S) \in S
    BY <2>4 DEF Max
  <2>6. p \in {ip - 1, ip - 4}
    BY <2>1, <2>2, <2>3, <2>5
  <2>7. MaxDistance \in Int /\ MaxDistance >= 4
    BY SMT DEF MaxDistance
  <2>8. ip - p = 1 \/ ip - p = 4
    BY <2>6
  <2>9. QED
    BY <2>7, <2>8
<1>3. QED
  BY <1>1, <1>2

(* EmitMatch goes on with such a loop.                                       *)
LEMMA EncodingMatches ==
  ASSUME input \in Seq(Byte), Encoding(input, out, ip, anchor), NEW p \in 0..(ip - 1), Searching, MatchFrom(p)
  PROVE  Encoding(input, out \o EmitSequence(Slice(anchor, ip), ip - p, MatchLength(p)),
                  ip + MatchLength(p), ip + MatchLength(p))
<1>1. ip \in Nat /\ anchor \in Nat /\ anchor <= ip /\ out \in Seq(Byte) /\ Len(input) \in Nat
  BY DEF Encoding, Reads
<1>2. p \in Nat /\ p < ip
  BY <1>1
<1>3. PICK m : m = MatchLength(p)
  OBVIOUS
<1>4. m \in Nat /\ m >= MinMatch /\ ip + m <= Len(input) - 5 /\ Again(input, p, ip, m)
  <2>1. Word(p) = Word(ip)
    BY DEF MatchFrom
  <2>2. QED
    BY <1>1, <1>2, <1>3, <2>1, MatchAgain
<1>5. ip - p <= MaxDistance
  BY <1>1, MatchNear
<1>6. PICK lits : lits = SubSeq(input, anchor + 1, ip)
  OBVIOUS
<1>7. ip + m <= Len(input) /\ ip <= Len(input) /\ ip + m \in Nat
  BY <1>1, <1>4
<1>8. lits \in Seq(Byte) /\ Len(lits) = ip - anchor
  BY <1>1, <1>6, <1>7, SliceB
<1>9. PICK b : b = out \o EmitSequence(lits, ip - p, m)
  OBVIOUS
<1>10. Reads(b, input, ip + m)
  <2>1. Reads(out, input, anchor)
    BY DEF Encoding
  <2>2. QED
    BY <1>1, <1>2, <1>4, <1>5, <1>6, <1>7, <1>9, <2>1, ReadsMatch
<1>11. Small(b, ip + m)
  <2>1. Small(out, anchor)
    BY DEF Encoding
  <2>2. ip - p \in Int
    BY <1>1, <1>2
  <2>3. Small(b, anchor + Len(lits) + m)
    BY <1>1, <1>4, <1>8, <1>9, <2>1, <2>2, SmallMatch
  <2>4. anchor + Len(lits) + m = ip + m
    BY <1>1, <1>4, <1>8
  <2>5. QED
    BY <2>3, <2>4
<1>12. ~(Len(input) < Short)
  <2>1. Len(input) >= Short
    BY DEF Searching
  <2>2. QED
    BY <1>1, <2>1 DEF Short
<1>13. Len(input) <= MaxMessage
  BY DEF Encoding
<1>14. Encoding(input, b, ip + m, ip + m)
  BY <1>7, <1>10, <1>11, <1>12, <1>13 DEF Encoding
<1>15. QED
  BY <1>3, <1>6, <1>9, <1>14 DEF Slice

(* The length of a short input fits into half a token.                       *)
LEMMA ShortLength ==
  ASSUME NEW n \in Nat, n < Short
  PROVE  n < TokenMax /\ TokenMax \in Nat /\ n * (TokenMax + 1) \in Byte
<1>1. TokenMax \in 13..15 /\ n \in 0..12
  BY Lz4Assumption, SMT DEF Short
<1>2. n * (TokenMax + 1) \in 0..255
  BY <1>1, SMT
<1>3. QED
  BY <1>1, <1>2 DEF Byte

(* What FinishBlock makes is a block of the input, and not much longer.      *)
LEMMA FinishedBlock ==
  ASSUME input \in Seq(Byte), Encoding(input, out, ip, anchor)
  PROVE  /\ Finished \in Seq(Byte) /\ BlockOf(Finished, input)
         /\ Len(Finished) <= Len(input) + Len(input) \div LenMax + 6
<1>1. /\ Len(input) <= MaxMessage /\ Reads(out, input, anchor) /\ Small(out, anchor)
      /\ Len(input) < Short => anchor = 0 /\ out = Le(Len(input), 4)
  BY DEF Encoding
<1>2. anchor \in Nat /\ anchor <= Len(input) /\ out \in Seq(Byte)
  BY <1>1 DEF Reads
<1>3. PICK n \in Nat : n = Len(input)
  OBVIOUS
<1>4. PICK lits : lits = SubSeq(input, anchor + 1, n)
  OBVIOUS
<1>5. lits \in Seq(Byte) /\ Len(lits) = n - anchor
  BY <1>2, <1>3, <1>4, SliceB
<1>6. PICK b : b = out \o EmitLast(lits)
  OBVIOUS
<1>7. Finished = b
  <2>1. CASE ~(n < Short)
    BY <1>3, <1>4, <1>6, <2>1 DEF Finished, Slice
  <2>2. CASE n < Short
    <3>0. n < TokenMax /\ TokenMax \in Nat /\ n * (TokenMax + 1) \in Byte
      BY <2>2, ShortLength
    <3>1. anchor = 0 /\ out = Le(n, 4)
      BY <1>1, <1>3, <2>2
    <3>2. lits = input
      BY <1>3, <1>4, <3>1
    <3>3. n < TokenMax /\ TokenMax \in Nat
      BY <3>0
    <3>4. LenTail(n) = <<>>
      BY <3>3 DEF LenTail
    <3>5. Token(n, 0) = n * (TokenMax + 1)
      <4>1. Least(n, TokenMax) = n /\ Least(0, TokenMax) = 0
        BY <3>3 DEF Least
      <4>2. PICK x \in Nat : x = n * (TokenMax + 1)
        BY <3>3, SMT
      <4>3. QED
        BY <4>1, <4>2 DEF Token
    <3>6. EmitLast(lits) = <<n * (TokenMax + 1)>> \o <<>> \o input
      BY <1>3, <3>2, <3>4, <3>5 DEF EmitLast
    <3>7. PICK x : x = n * (TokenMax + 1)
      OBVIOUS
    <3>8. Finished = Le(n, 4) \o <<x>> \o input
      BY <1>3, <2>2, <3>7 DEF Finished, Lz4Short
    <3>9. x \in Byte
      BY <3>0, <3>7
    <3>10. PICK h : h = Le(n, 4)
      OBVIOUS
    <3>11. h \in Seq(Byte)
      BY <1>2, <3>1, <3>10
    <3>12. <<x>> \o <<>> = <<x>>
      OBVIOUS
    <3>13. b = h \o (<<x>> \o input)
      BY <1>6, <3>1, <3>6, <3>7, <3>10, <3>12
    <3>14. <<x>> \in Seq(Byte)
      BY <3>9
    <3>15. (h \o <<x>>) \o input = h \o (<<x>> \o input)
      BY <3>11, <3>14
    <3>16. QED
      BY <3>8, <3>10, <3>13, <3>15
  <2>3. QED
    BY <2>1, <2>2
<1>8. b \in Seq(Byte) /\ BlockOf(b, input)
  BY <1>1, <1>3, <1>4, <1>6, ReadsLast
<1>9. Len(b) <= n + n \div LenMax + 6
  <2>1. Len(b) <= (anchor + Len(lits)) + (anchor + Len(lits)) \div LenMax + 6
    BY <1>1, <1>2, <1>5, <1>6, SmallLast
  <2>2. anchor + Len(lits) = n
    BY <1>2, <1>3, <1>5
  <2>3. QED
    BY <2>1, <2>2
<1>10. QED
  BY <1>3, <1>7, <1>8, <1>9

(* The variables hold what their comments say.                               *)
CodecTypes ==
  /\ picture \in Pictures
  /\ compression \in {LZ4, LZ4_DELTA, LZ4_DELTA_Q2}
  /\ pass \in Nat /\ pass <= Passes
  /\ input \in Seq(Byte)

Plain == Prepared(compression, picture.w, picture.h, picture.pixels)

(* The first block is one of the picture prepared, the second one of that.   *)
InputKnown == IF pass >= 1 /\ Passes = 2 THEN BlockOf(input, Plain) ELSE input = Plain

CodecInv ==
  /\ CodecTypes
  /\ InputKnown
  /\ pass < Passes => Encoding(input, out, ip, anchor)
  /\ pass = 0 => Compressible(input)
  /\ pass = Passes => BlockOf(out, input)

(* Two passes for LZ4_DELTA, one for the others.                             *)
LEMMA PassesKnown ==
  ASSUME compression \in {LZ4, LZ4_DELTA, LZ4_DELTA_Q2}
  PROVE  /\ Passes \in {1, 2}
         /\ Passes = 2 <=> compression = LZ4_DELTA
BY DEF Passes

(* A write_payload_geom that begins.                                         *)
LEMMA CodecInit == EncoderInit => CodecInv
<1> SUFFICES ASSUME EncoderInit
             PROVE  CodecInv
    OBVIOUS
<1>1. /\ picture \in Pictures /\ compression \in {LZ4, LZ4_DELTA, LZ4_DELTA_Q2}
      /\ pass = 0 /\ input = Plain /\ ip = 0 /\ anchor = 0 /\ out = Le(Len(input), 4)
  BY DEF EncoderInit, Plain
<1>2. Passes \in {1, 2}
  BY <1>1, PassesKnown
<1>3. input \in Seq(Byte) /\ Compressible(input)
  BY <1>1, PreparedFacts DEF Plain
<1>4. Len(input) <= MaxMessage
  BY <1>3, FitsLess
<1>5. Encoding(input, out, ip, anchor)
  BY <1>1, <1>3, <1>4, EncodingStarts
<1>6. CodecTypes
  BY <1>1, <1>2, <1>3 DEF CodecTypes
<1>7. InputKnown
  BY <1>1 DEF InputKnown
<1>8. ~(pass = Passes)
  BY <1>1, <1>2
<1>9. QED
  BY <1>3, <1>5, <1>6, <1>7, <1>8 DEF CodecInv

(* A match keeps the invariant.                                              *)
LEMMA CodecMatch ==
  ASSUME CodecInv, NEW p \in 0..(ip - 1), EmitMatch(p)
  PROVE  CodecInv'
<1>1. Searching /\ MatchFrom(p) /\ pass < Passes
  BY DEF EmitMatch, Searching
<1>2. /\ out' = out \o EmitSequence(Slice(anchor, ip), ip - p, MatchLength(p))
      /\ ip' = ip + MatchLength(p) /\ anchor' = ip + MatchLength(p)
      /\ picture' = picture /\ compression' = compression /\ pass' = pass /\ input' = input
  BY DEF EmitMatch
<1>3. CodecTypes /\ InputKnown /\ Encoding(input, out, ip, anchor) /\ (pass = 0 => Compressible(input))
  BY <1>1 DEF CodecInv
<1>4. Passes' = Passes
  BY <1>2 DEF Passes
<1>5. CodecTypes' /\ InputKnown'
  BY <1>2, <1>3, <1>4 DEF CodecTypes, InputKnown, Plain
<1>6. Encoding(input, out', ip', anchor')
  <2>1. input \in Seq(Byte)
    BY <1>3 DEF CodecTypes
  <2>2. QED
    BY <1>1, <1>2, <1>3, <2>1, EncodingMatches
<1>7. ~(pass = Passes)
  <2>1. pass \in Nat /\ Passes \in {1, 2}
    BY <1>3, PassesKnown DEF CodecTypes
  <2>2. QED
    BY <1>1, <2>1
<1>8. QED
  BY <1>2, <1>3, <1>4, <1>5, <1>6, <1>7 DEF CodecInv

(* A miss keeps it: out stays as it was.                                     *)
LEMMA CodecSkip ==
  ASSUME CodecInv, Skip
  PROVE  CodecInv'
<1>1. /\ Searching /\ pass < Passes /\ ip' = ip + 1 + ((ip - anchor) \div 32)
      /\ picture' = picture /\ compression' = compression /\ pass' = pass /\ input' = input
      /\ anchor' = anchor /\ out' = out
  BY DEF Skip, Searching
<1>2. CodecTypes /\ InputKnown /\ Encoding(input, out, ip, anchor) /\ (pass = 0 => Compressible(input))
  BY <1>1 DEF CodecInv
<1>3. Passes' = Passes
  BY <1>1 DEF Passes
<1>4. CodecTypes' /\ InputKnown'
  BY <1>1, <1>2, <1>3 DEF CodecTypes, InputKnown, Plain
<1>5. ip' \in Nat /\ anchor <= ip'
  <2>1. ip \in Nat /\ anchor \in Nat /\ anchor <= ip
    BY <1>2 DEF Encoding, Reads
  <2>2. (ip - anchor) \div 32 \in Nat
    BY <2>1, SMT
  <2>3. PICK x \in Nat : x = (ip - anchor) \div 32
    BY <2>2
  <2>4. QED
    BY <1>1, <2>1, <2>3
<1>6. Encoding(input, out, ip', anchor)
  BY <1>2, <1>5 DEF Encoding
<1>7. ~(pass = Passes)
  <2>1. pass \in Nat /\ Passes \in {1, 2}
    BY <1>2, PassesKnown DEF CodecTypes
  <2>2. QED
    BY <1>1, <2>1
<1>8. QED
  BY <1>1, <1>2, <1>3, <1>4, <1>6, <1>7 DEF CodecInv

(* A block that ends keeps it: it decodes to its input, and the next starts. *)
LEMMA CodecFinish ==
  ASSUME CodecInv, FinishBlock
  PROVE  CodecInv'
<1>1. pass < Passes /\ pass' = pass + 1 /\ picture' = picture /\ compression' = compression
  BY DEF FinishBlock
<1>2. CodecTypes /\ InputKnown /\ Encoding(input, out, ip, anchor) /\ (pass = 0 => Compressible(input))
  BY <1>1 DEF CodecInv
<1>3. Passes' = Passes /\ Plain' = Plain
  BY <1>1 DEF Passes, Plain
<1>4. pass \in Nat /\ Passes \in {1, 2} /\ input \in Seq(Byte)
  BY <1>2, PassesKnown DEF CodecTypes
<1>5. PICK f : f = Finished
  OBVIOUS
<1>6. /\ f \in Seq(Byte) /\ BlockOf(f, input)
      /\ Len(f) <= Len(input) + Len(input) \div LenMax + 6
  BY <1>2, <1>4, <1>5, FinishedBlock
<1>7. CASE pass + 1 < Passes
  <2>1. pass = 0 /\ Passes = 2
    BY <1>4, <1>7
  <2>2. input' = f /\ ip' = 0 /\ anchor' = 0 /\ out' = Le(Len(f), 4)
    BY <1>1, <1>3, <1>5, <1>7 DEF FinishBlock, StartBlock
  <2>3. Len(f) <= MaxMessage
    <3>1. Len(input) + Len(input) \div LenMax + 6 <= MaxMessage
      BY <1>2, <2>1 DEF Compressible
    <3>2. PICK n \in Nat : n = Len(input)
      BY <1>4
    <3>3. PICK l \in Nat \ {0} : l = LenMax
      BY TokenBounds
    <3>4. n \div l \in Int
      BY SMT
    <3>5. PICK x \in Int : x = n \div l
      BY <3>4
    <3>6. Len(f) \in Nat /\ MaxMessage \in Nat
      BY <1>6, Lz4Assumption, SMT
    <3>7. Len(f) <= n + x + 6 /\ n + x + 6 <= MaxMessage
      BY <1>6, <3>1, <3>2, <3>3, <3>5
    <3>8. QED
      BY <3>6, <3>7
  <2>4. Encoding(f, out', ip', anchor')
    BY <1>6, <2>2, <2>3, EncodingStarts
  <2>5. BlockOf(f, Plain)
    BY <1>2, <1>6, <2>1 DEF InputKnown
  <2>6. CodecTypes'
    BY <1>1, <1>2, <1>3, <1>6, <2>1, <2>2 DEF CodecTypes
  <2>7. InputKnown'
    BY <1>1, <1>3, <2>1, <2>2, <2>5 DEF InputKnown
  <2>8. pass' = 1 /\ Passes' = 2
    BY <1>1, <1>3, <2>1
  <2>9. QED
    BY <2>2, <2>4, <2>6, <2>7, <2>8 DEF CodecInv
<1>8. CASE ~(pass + 1 < Passes)
  <2>1. pass + 1 = Passes
    BY <1>1, <1>4, <1>8
  <2>2. out' = f /\ input' = input
    BY <1>1, <1>3, <1>5, <1>8 DEF FinishBlock
  <2>3. CodecTypes'
    BY <1>1, <1>2, <1>3, <1>4, <2>1, <2>2 DEF CodecTypes
  <2>4. InputKnown'
    <3>1. (pass' >= 1 /\ Passes = 2) <=> (pass >= 1 /\ Passes = 2)
      BY <1>1, <1>4, <2>1
    <3>2. QED
      BY <1>1, <1>2, <1>3, <2>2, <3>1 DEF InputKnown
  <2>5. BlockOf(out', input')
    BY <1>6, <2>2
  <2>6. ~(pass' < Passes') /\ pass' # 0
    BY <1>1, <1>3, <1>4, <2>1
  <2>7. QED
    BY <2>3, <2>4, <2>5, <2>6 DEF CodecInv
<1>9. QED
  BY <1>7, <1>8

(* So every step keeps it.                                                   *)
LEMMA CodecStep == CodecInv /\ [EncoderNext]_encoderVars => CodecInv'
<1> SUFFICES ASSUME CodecInv, [EncoderNext]_encoderVars
             PROVE  CodecInv'
    OBVIOUS
<1>1. CASE \E p \in 0..(ip - 1) : EmitMatch(p)
  BY <1>1, CodecMatch
<1>2. CASE Skip
  BY <1>2, CodecSkip
<1>3. CASE FinishBlock
  BY <1>3, CodecFinish
<1>4. CASE UNCHANGED encoderVars
  BY <1>4 DEF encoderVars, CodecInv, CodecTypes, InputKnown, Plain, Passes
<1>5. QED
  BY <1>1, <1>2, <1>3, <1>4 DEF EncoderNext

(* At the end of the passes it is what PictureSurvives says.                 *)
LEMMA CodecKept == CodecInv => PictureSurvives
<1> SUFFICES ASSUME CodecInv, pass = Passes
             PROVE  PictureSurvives
    BY DEF PictureSurvives
<1>1. CodecTypes /\ InputKnown /\ BlockOf(out, input)
  BY DEF CodecInv
<1>2. /\ picture \in Pictures /\ compression \in {LZ4, LZ4_DELTA, LZ4_DELTA_Q2}
      /\ Passes \in {1, 2} /\ (Passes = 2 <=> compression = LZ4_DELTA)
  BY <1>1, PassesKnown DEF CodecTypes
<1>3. Chain(picture, compression, out, input)
  <2>1. CASE compression = LZ4_DELTA
    BY <1>1, <1>2, <2>1 DEF Chain, InputKnown, Plain
  <2>2. CASE compression # LZ4_DELTA
    BY <1>1, <1>2, <2>2 DEF Chain, InputKnown, Plain
  <2>3. QED
    BY <2>1, <2>2
<1>4. Kept(picture, compression, Decoded)
  BY <1>2, <1>3, ChainKept DEF Decoded
<1>5. QED
  BY <1>4 DEF PictureSurvives, Kept, Channel

(* PictureSurvives: whatever picture write_payload_geom is given, whichever  *)
(* form it takes and whatever positions the hash table suggests,             *)
(* read_payload_geom of the bytes it wrote is that picture: bit for bit from *)
(* the lossless forms, within the bounds of each channel from the other.     *)
THEOREM PicturesSurvive == EncoderSpec => []PictureSurvives
<1>1. EncoderInit => CodecInv
  BY CodecInit
<1>2. CodecInv /\ [EncoderNext]_encoderVars => CodecInv'
  BY CodecStep
<1>3. CodecInv => PictureSurvives
  BY CodecKept
<1>4. QED
  BY <1>1, <1>2, <1>3, PTL DEF EncoderSpec

----------------------------------------------------------------------------
(***************************************************************************)
(* Framing: what decode and DecodeAll make of a part of a stream.          *)
(***************************************************************************)

(* The pieces of a sequence of sequences, put together from the front.       *)
Joined(P) == CHOOSE J : J = [n \in Nat |-> IF n = 0 THEN <<>> ELSE J[n - 1] \o P[n]]

JoinedTo(P, k, J) == J = [n \in 0..k |-> IF n = 0 THEN <<>> ELSE J[n - 1] \o P[n]]

(* The pieces joined up to the k-th exist.                                   *)
LEMMA JoinedUpTo ==
  ASSUME NEW P, NEW k \in Nat
  PROVE  \E J : JoinedTo(P, k, J)
<1> DEFINE Bad == {j \in Nat : ~ \E J : JoinedTo(P, j, J)}
<1>1. SUFFICES ASSUME Bad # {}
               PROVE  FALSE
  OBVIOUS
<1>2. PICK j \in Bad : \A i \in Bad : j <= i
  BY <1>1, HasMin
<1>3. CASE j = 0
  <2> DEFINE J == [n \in 0..0 |-> <<>>]
  <2>1. J = [n \in 0..0 |-> IF n = 0 THEN <<>> ELSE J[n - 1] \o P[n]]
    OBVIOUS
  <2>2. JoinedTo(P, 0, J)
    BY <2>1 DEF JoinedTo
  <2>3. QED
    BY <1>2, <1>3, <2>2
<1>4. CASE j # 0
  <2>1. PICK i \in Nat : j = i + 1
    <3>1. j - 1 \in Nat /\ j = (j - 1) + 1
      BY <1>2, <1>4
    <3>2. QED
      BY <3>1
  <2>2. i \notin Bad
    BY <1>2, <2>1
  <2>3. PICK F : JoinedTo(P, i, F)
    BY <2>2
  <2> DEFINE G == [n \in 0..(i + 1) |-> IF n = 0 THEN <<>> ELSE F[n - 1] \o P[n]]
  <2>4. \A n \in 0..i : F[n] = G[n]
    BY <2>3 DEF JoinedTo
  <2>5. \A n \in 0..(i + 1) : n # 0 => n - 1 \in 0..i
    OBVIOUS
  <2>6. \A n \in 0..(i + 1) : (IF n = 0 THEN <<>> ELSE F[n - 1] \o P[n])
                              = (IF n = 0 THEN <<>> ELSE G[n - 1] \o P[n])
    BY <2>4, <2>5
  <2>7. G = [n \in 0..(i + 1) |-> IF n = 0 THEN <<>> ELSE G[n - 1] \o P[n]]
    BY <2>6
  <2>8. JoinedTo(P, i + 1, G)
    BY <2>7 DEF JoinedTo
  <2>9. QED
    BY <1>2, <2>1, <2>8
<1>5. QED
  BY <1>3, <1>4

(* Two of them agree as far as both go.                                      *)
LEMMA JoinedAgree ==
  ASSUME NEW P, NEW k \in Nat, NEW l \in Nat, NEW J, NEW K, JoinedTo(P, k, J), JoinedTo(P, l, K)
  PROVE  \A n \in Nat : n <= k /\ n <= l => J[n] = K[n]
<1> DEFINE Bad == {n \in Nat : n <= k /\ n <= l /\ J[n] # K[n]}
<1>1. SUFFICES ASSUME Bad # {}
               PROVE  FALSE
  OBVIOUS
<1>2. PICK n \in Bad : \A i \in Bad : n <= i
  BY <1>1, HasMin
<1>3. /\ n \in Nat /\ n <= k /\ n <= l /\ J[n] # K[n]
      /\ J[n] = (IF n = 0 THEN <<>> ELSE J[n - 1] \o P[n])
      /\ K[n] = (IF n = 0 THEN <<>> ELSE K[n - 1] \o P[n])
  <2>1. n \in Nat /\ n <= k /\ n <= l /\ J[n] # K[n]
    BY <1>2
  <2>2. n \in 0..k /\ n \in 0..l
    BY <2>1
  <2>3. J[n] = (IF n = 0 THEN <<>> ELSE J[n - 1] \o P[n])
    BY <2>2 DEF JoinedTo
  <2>4. K[n] = (IF n = 0 THEN <<>> ELSE K[n - 1] \o P[n])
    BY <2>2 DEF JoinedTo
  <2>5. QED
    BY <2>1, <2>3, <2>4
<1>4. CASE n = 0
  BY <1>3, <1>4
<1>5. CASE n # 0
  <2>1. n - 1 \in Nat /\ n - 1 <= k /\ n - 1 <= l /\ ~(n <= n - 1)
    BY <1>3, <1>5
  <2>2. n - 1 \notin Bad
    BY <1>2, <2>1
  <2>3. J[n - 1] = K[n - 1]
    BY <2>1, <2>2
  <2>4. QED
    BY <1>3, <1>5, <2>3
<1>6. QED
  BY <1>4, <1>5

(* Joined is defined: one piece more is put at the end.                      *)
LEMMA JoinedUnfolds ==
  ASSUME NEW P
  PROVE  /\ Joined(P)[0] = <<>>
         /\ \A n \in Nat : Joined(P)[n + 1] = Joined(P)[n] \o P[n + 1]
<1> DEFINE At(k) == CHOOSE J : JoinedTo(P, k, J)
           All == [n \in Nat |-> At(n)[n]]
<1>1. \A k \in Nat : JoinedTo(P, k, At(k))
  BY JoinedUpTo
<1>2. \A n \in Nat : All[n] = (IF n = 0 THEN <<>> ELSE All[n - 1] \o P[n])
  <2> TAKE n \in Nat
  <2>1. n <= n /\ JoinedTo(P, n, At(n))
    BY <1>1
  <2>2. At(n)[n] = (IF n = 0 THEN <<>> ELSE At(n)[n - 1] \o P[n])
    <3>1. PICK J : J = At(n)
      OBVIOUS
    <3>2. J = [i \in 0..n |-> IF i = 0 THEN <<>> ELSE J[i - 1] \o P[i]]
      BY <2>1, <3>1 DEF JoinedTo
    <3>3. n \in 0..n
      OBVIOUS
    <3>4. QED
      BY <3>1, <3>2, <3>3
  <2>3. CASE n = 0
    BY <2>2, <2>3
  <2>4. CASE n # 0
    <3>1. PICK i \in Nat : i = n - 1 /\ i <= n /\ i <= i
      BY <2>4
    <3>2. JoinedTo(P, i, At(i)) /\ JoinedTo(P, n, At(n))
      BY <1>1
    <3>3. PICK J, K : J = At(n) /\ K = At(i)
      OBVIOUS
    <3>4. J[i] = K[i]
      BY <3>1, <3>2, <3>3, JoinedAgree
    <3>5. All[i] = At(i)[i] /\ All[n] = At(n)[n]
      OBVIOUS
    <3>6. All[n] = All[i] \o P[n]
      BY <2>2, <2>4, <3>1, <3>3, <3>4, <3>5
    <3> HIDE DEF All
    <3>7. QED
      BY <2>4, <3>1, <3>6
  <2>5. QED
    BY <2>3, <2>4
<1> HIDE DEF All
<1>3. All = [n \in Nat |-> IF n = 0 THEN <<>> ELSE All[n - 1] \o P[n]]
  <2>1. All = [n \in Nat |-> All[n]]
    BY DEF All
  <2>2. QED
    BY <1>2, <2>1
<1>4. Joined(P) = [n \in Nat |-> IF n = 0 THEN <<>> ELSE Joined(P)[n - 1] \o P[n]]
  BY <1>3 DEF Joined
<1>5. PICK J : J = Joined(P)
  OBVIOUS
<1>6. \A n \in Nat : J[n] = (IF n = 0 THEN <<>> ELSE J[n - 1] \o P[n])
  BY <1>4, <1>5
<1>7. J[0] = <<>>
  BY <1>6
<1>8. \A n \in Nat : J[n + 1] = J[n] \o P[n + 1]
  <2> TAKE n \in Nat
  <2>1. n + 1 \in Nat /\ n + 1 # 0 /\ (n + 1) - 1 = n
    OBVIOUS
  <2>2. QED
    BY <1>6, <2>1
<1>9. QED
  BY <1>5, <1>7, <1>8

(* A length is a number.                                                     *)
LEMMA LengthIsNat ==
  ASSUME NEW T, NEW s \in Seq(T)
  PROVE  Len(s) \in Nat
OBVIOUS

(* The only sequence without items is the empty one.                         *)
LEMMA EmptyIsEmpty ==
  ASSUME NEW T, NEW s \in Seq(T), Len(s) = 0
  PROVE  s = <<>>
OBVIOUS

(* FlattenSeq puts the pieces together from the front.                       *)
LEMMA FlattenJoins ==
  ASSUME NEW S, NEW seqs \in Seq(Seq(S))
  PROVE  FlattenSeq(seqs) = Joined(seqs)[Len(seqs)]
<1>1. PICK n \in Nat : n = Len(seqs)
  OBVIOUS
<1>2. PICK J : J = Joined(seqs)
  OBVIOUS
<1>3. J[0] = <<>> /\ \A i \in Nat : J[i + 1] = J[i] \o seqs[i + 1]
  BY <1>2, JoinedUnfolds
<1>4. CASE n = 0
  <2>1. seqs = <<>>
    BY <1>1, <1>4, EmptyIsEmpty
  <2>2. FlattenSeq(seqs) = seqs
    BY <1>1, <1>4 DEF FlattenSeq
  <2>3. QED
    BY <1>1, <1>2, <1>3, <1>4, <2>1, <2>2
<1>5. CASE n # 0
  <2>1. J[1] = seqs[1]
    <3>1. seqs[1] \in Seq(S)
      BY <1>1, <1>5
    <3>2. 0 \in Nat /\ 0 + 1 = 1
      OBVIOUS
    <3>3. J[1] = <<>> \o seqs[1]
      BY <1>3, <3>2
    <3>4. <<>> \o seqs[1] = seqs[1]
      BY <3>1
    <3>5. QED
      BY <3>3, <3>4
  <2>2. \A i \in 1..n : J[i] = (IF i = 1 THEN seqs[1] ELSE J[i - 1] \o seqs[i])
    <3> TAKE i \in 1..n
    <3>1. i - 1 \in Nat /\ (i - 1) + 1 = i
      OBVIOUS
    <3>2. J[i] = J[i - 1] \o seqs[i]
      BY <1>3, <3>1
    <3>3. QED
      BY <2>1, <3>2
  <2> DEFINE Flat == CHOOSE f : f = [i \in 1..n |-> IF i = 1 THEN seqs[i] ELSE f[i - 1] \o seqs[i]]
             W == [i \in 1..n |-> J[i]]
  <2>3. \A i \in 1..n : (IF i = 1 THEN seqs[i] ELSE W[i - 1] \o seqs[i]) = J[i]
    <3> TAKE i \in 1..n
    <3>1. CASE i = 1
      BY <2>1, <3>1
    <3>2. CASE i # 1
      <4>1. i - 1 \in 1..n
        BY <3>2
      <4>2. W[i - 1] = J[i - 1]
        BY <4>1
      <4> HIDE DEF W
      <4>3. QED
        BY <2>2, <3>2, <4>2
    <3>3. QED
      BY <3>1, <3>2
  <2>4. W = [i \in 1..n |-> IF i = 1 THEN seqs[i] ELSE W[i - 1] \o seqs[i]]
    BY <2>3
  <2> HIDE DEF W
  <2>5. Flat = [i \in 1..n |-> IF i = 1 THEN seqs[i] ELSE Flat[i - 1] \o seqs[i]]
    BY <2>4
  <2>6. FlattenSeq(seqs) = Flat[n]
    BY <1>1, <1>5 DEF FlattenSeq
  <2> HIDE DEF Flat
  <2> DEFINE Bad == {i \in 1..n : Flat[i] # J[i]}
  <2>7. Bad = {}
    <3>1. SUFFICES ASSUME Bad # {}
                   PROVE  FALSE
      OBVIOUS
    <3>2. Bad \in SUBSET Nat
      OBVIOUS
    <3>3. PICK i \in Bad : \A k \in Bad : i <= k
      BY <3>1, <3>2, HasMin
    <3>4. i \in 1..n /\ Flat[i] # J[i]
      BY <3>3
    <3>5. Flat[i] = (IF i = 1 THEN seqs[i] ELSE Flat[i - 1] \o seqs[i])
      BY <2>5, <3>4
    <3>6. CASE i = 1
      BY <2>1, <3>4, <3>5, <3>6
    <3>7. CASE i # 1
      <4>1. i - 1 \in 1..n /\ ~(i <= i - 1)
        BY <3>4, <3>7
      <4>2. Flat[i - 1] = J[i - 1]
        BY <3>3, <4>1
      <4>3. J[i] = J[i - 1] \o seqs[i]
        BY <2>2, <3>4, <3>7
      <4>4. QED
        BY <3>4, <3>5, <3>7, <4>2, <4>3
    <3>8. QED
      BY <3>6, <3>7
  <2>8. n \in 1..n
    BY <1>5
  <2>9. Flat[n] = J[n]
    BY <2>7, <2>8
  <2>10. QED
    BY <1>1, <1>2, <2>6, <2>9
<1>6. QED
  BY <1>4, <1>5

(* What is joined of sequences is a sequence.                                *)
LEMMA JoinedSeq ==
  ASSUME NEW S, NEW n \in Nat, NEW P, \A i \in 1..n : P[i] \in Seq(S)
  PROVE  \A k \in 0..n : Joined(P)[k] \in Seq(S)
<1>1. PICK J : J = Joined(P)
  OBVIOUS
<1>2. J[0] = <<>> /\ \A i \in Nat : J[i + 1] = J[i] \o P[i + 1]
  BY <1>1, JoinedUnfolds
<1> DEFINE Bad == {k \in 0..n : J[k] \notin Seq(S)}
<1>3. SUFFICES ASSUME Bad # {}
               PROVE  FALSE
  BY <1>1
<1>4. Bad \in SUBSET Nat
  OBVIOUS
<1>5. PICK k \in Bad : \A i \in Bad : k <= i
  BY <1>3, <1>4, HasMin
<1>6. k \in 0..n /\ J[k] \notin Seq(S)
  BY <1>5
<1>7. k # 0
  <2>1. <<>> \in Seq(S)
    OBVIOUS
  <2>2. J[0] \in Seq(S)
    BY <1>2, <2>1
  <2>3. QED
    BY <1>6, <2>2
<1>8. k - 1 \in Nat /\ k - 1 \in 0..n /\ (k - 1) + 1 = k /\ ~(k <= k - 1) /\ k \in 1..n
  BY <1>6, <1>7
<1>9. J[k - 1] \in Seq(S)
  BY <1>5, <1>8
<1>10. J[k] = J[k - 1] \o P[k]
  BY <1>2, <1>8
<1>11. P[k] \in Seq(S)
  BY <1>8
<1>12. J[k - 1] \o P[k] \in Seq(S)
  BY <1>9, <1>11
<1>13. QED
  BY <1>6, <1>10, <1>12

(* Only the pieces joined count.                                             *)
LEMMA JoinedLocal ==
  ASSUME NEW n \in Nat, NEW P, NEW Q, \A i \in 1..n : P[i] = Q[i]
  PROVE  \A k \in 0..n : Joined(P)[k] = Joined(Q)[k]
<1>1. PICK J, K : J = Joined(P) /\ K = Joined(Q)
  OBVIOUS
<1>2. J[0] = <<>> /\ \A i \in Nat : J[i + 1] = J[i] \o P[i + 1]
  BY <1>1, JoinedUnfolds
<1>3. K[0] = <<>> /\ \A i \in Nat : K[i + 1] = K[i] \o Q[i + 1]
  BY <1>1, JoinedUnfolds
<1> DEFINE Bad == {k \in 0..n : J[k] # K[k]}
<1>4. SUFFICES ASSUME Bad # {}
               PROVE  FALSE
  BY <1>1
<1>5. Bad \in SUBSET Nat
  OBVIOUS
<1>6. PICK k \in Bad : \A i \in Bad : k <= i
  BY <1>4, <1>5, HasMin
<1>7. k \in 0..n /\ J[k] # K[k]
  BY <1>6
<1>8. k # 0
  BY <1>2, <1>3, <1>7
<1>9. k - 1 \in Nat /\ k - 1 \in 0..n /\ (k - 1) + 1 = k /\ ~(k <= k - 1) /\ k \in 1..n
  BY <1>7, <1>8
<1>10. J[k - 1] = K[k - 1]
  BY <1>6, <1>9
<1>11. J[k] = J[k - 1] \o P[k] /\ K[k] = K[k - 1] \o Q[k]
  BY <1>2, <1>3, <1>9
<1>12. P[k] = Q[k]
  BY <1>9
<1>13. QED
  BY <1>7, <1>10, <1>11, <1>12

(* A concatenation, part by part.                                            *)
LEMMA ConcatSeqs ==
  ASSUME NEW S, NEW a \in Seq(S), NEW b \in Seq(S)
  PROVE  /\ a \o b \in Seq(S) /\ Len(a \o b) = Len(a) + Len(b) /\ Len(a) \in Nat /\ Len(b) \in Nat
         /\ \A i \in 1..Len(a) : (a \o b)[i] = a[i]
         /\ \A i \in 1..Len(b) : (a \o b)[Len(a) + i] = b[i]
<1>1. a \o b \in Seq(S) /\ Len(a \o b) = Len(a) + Len(b) /\ Len(a) \in Nat /\ Len(b) \in Nat
  OBVIOUS
<1>2. \A i \in 1..Len(a) : (a \o b)[i] = a[i]
  OBVIOUS
<1>3. \A i \in 1..Len(b) : (a \o b)[Len(a) + i] = b[i]
  OBVIOUS
<1>4. QED
  BY <1>1, <1>2, <1>3

(* Concatenation associates.                                                 *)
LEMMA Associates ==
  ASSUME NEW S, NEW a \in Seq(S), NEW b \in Seq(S), NEW c \in Seq(S)
  PROVE  (a \o b) \o c = a \o (b \o c) /\ a \o b \in Seq(S) /\ b \o c \in Seq(S)
OBVIOUS

(* Joined one behind the other is joined.                                    *)
LEMMA FlattenConcat ==
  ASSUME NEW S, NEW a \in Seq(Seq(S)), NEW b \in Seq(Seq(S))
  PROVE  /\ FlattenSeq(a \o b) = FlattenSeq(a) \o FlattenSeq(b)
         /\ FlattenSeq(a) \in Seq(S)
<1>0. PICK c : c = a \o b
  OBVIOUS
<1>1. PICK n \in Nat, m \in Nat : n = Len(a) /\ m = Len(b) /\ c = a \o b
  <2>1. Len(a) \in Nat /\ Len(b) \in Nat
    BY LengthIsNat
  <2>2. QED
    BY <1>0, <2>1
<1>2. c \in Seq(Seq(S)) /\ Len(c) = n + m
  BY <1>1, ConcatSeqs
<1>3. (\A i \in 1..n : c[i] = a[i]) /\ (\A i \in 1..m : c[n + i] = b[i])
  BY <1>1, ConcatSeqs
<1>4. PICK A, B, C : A = Joined(a) /\ B = Joined(b) /\ C = Joined(c)
  OBVIOUS
<1>5. FlattenSeq(a) = A[n] /\ FlattenSeq(b) = B[m] /\ FlattenSeq(c) = C[n + m]
  BY <1>1, <1>2, <1>4, FlattenJoins
<1>6. C[n] = A[n]
  <2>1. \A i \in 1..n : c[i] = a[i]
    BY <1>3
  <2>2. \A k \in 0..n : Joined(c)[k] = Joined(a)[k]
    BY <2>1, JoinedLocal, ZenonT(30)
  <2>3. QED
    BY <1>4, <2>2
<1>7. (\A i \in 1..n : a[i] \in Seq(S)) /\ (\A i \in 1..m : b[i] \in Seq(S))
  <2>1. \A i \in 1..n : a[i] \in Seq(S)
    BY <1>1
  <2>2. \A i \in 1..m : b[i] \in Seq(S)
    BY <1>1
  <2>3. QED
    BY <2>1, <2>2
<1>8. A[n] \in Seq(S)
  <2>1. \A k \in 0..n : Joined(a)[k] \in Seq(S)
    BY <1>7, JoinedSeq
  <2>2. QED
    BY <1>4, <2>1
<1>9. \A k \in 0..m : B[k] \in Seq(S)
  <2>1. \A k \in 0..m : Joined(b)[k] \in Seq(S)
    BY <1>7, JoinedSeq
  <2>2. QED
    BY <1>4, <2>1
<1>10. B[0] = <<>> /\ \A i \in Nat : B[i + 1] = B[i] \o b[i + 1]
  BY <1>4, JoinedUnfolds
<1>11. \A i \in Nat : C[i + 1] = C[i] \o c[i + 1]
  BY <1>4, JoinedUnfolds
<1> DEFINE Bad == {k \in 0..m : C[n + k] # A[n] \o B[k]}
<1>12. Bad = {}
  <2>1. SUFFICES ASSUME Bad # {}
                 PROVE  FALSE
    OBVIOUS
  <2>2. Bad \in SUBSET Nat
    <3>1. \A k \in Bad : k \in 0..m
      OBVIOUS
    <3> HIDE DEF Bad
    <3>2. QED
      BY <3>1
  <2>3. PICK k \in Bad : \A i \in Bad : k <= i
    BY <2>1, <2>2, HasMin
  <2>4. k \in 0..m /\ C[n + k] # A[n] \o B[k]
    BY <2>3
  <2>5. k # 0
    <3>1. A[n] \o <<>> = A[n]
      BY <1>8
    <3>2. n + 0 = n
      OBVIOUS
    <3>3. QED
      BY <1>6, <1>10, <2>4, <3>1, <3>2
  <2>6. PICK i \in Nat : k = i + 1 /\ i \in 0..m /\ i + 1 \in 1..m /\ ~(k <= i)
    <3>1. k - 1 \in Nat /\ k = (k - 1) + 1 /\ k - 1 \in 0..m /\ (k - 1) + 1 \in 1..m /\ ~(k <= k - 1)
      BY <2>4, <2>5
    <3>2. QED
      BY <3>1
  <2>7. C[n + i] = A[n] \o B[i]
    BY <2>3, <2>6
  <2>8. C[n + k] = C[n + i] \o b[k]
    <3>1. n + i \in Nat /\ (n + i) + 1 = n + k
      BY <2>6
    <3>2. C[n + k] = C[n + i] \o c[n + k]
      BY <1>11, <3>1
    <3>3. c[n + k] = b[k]
      BY <1>3, <2>6
    <3>4. QED
      BY <3>2, <3>3
  <2>9. B[k] = B[i] \o b[k]
    BY <1>10, <2>6
  <2>10. B[i] \in Seq(S) /\ b[k] \in Seq(S)
    <3>1. B[i] \in Seq(S)
      BY <1>9, <2>6
    <3>2. b[k] \in Seq(S)
      BY <1>7, <2>6
    <3>3. QED
      BY <3>1, <3>2
  <2>11. (A[n] \o B[i]) \o b[k] = A[n] \o (B[i] \o b[k])
    <3>1. PICK x \in Seq(S), y \in Seq(S), z \in Seq(S) : x = A[n] /\ y = B[i] /\ z = b[k]
      BY <1>8, <2>10
    <3>2. (x \o y) \o z = x \o (y \o z)
      BY Associates
    <3>3. QED
      BY <3>1, <3>2
  <2>12. QED
    BY <2>4, <2>7, <2>8, <2>9, <2>11
<1>13. m \in 0..m
  OBVIOUS
<1>14. C[n + m] = A[n] \o B[m]
  BY <1>12, <1>13
<1>15. QED
  BY <1>1, <1>5, <1>8, <1>14

(* A number written in groups of seven bits.                                 *)
Varied(v, F) == IF v < 128 THEN <<v>> ELSE <<128 + (v % 128)>> \o F[v \div 128]

(* F writes the numbers up to k.                                             *)
VariedTo(k, F) == F = [v \in 0..k |-> Varied(v, F)]

(* A number of more than seven bits loses some with every group.             *)
LEMMA Seventh ==
  ASSUME NEW v \in Nat, ~(v < 128)
  PROVE  v \div 128 \in Nat /\ v \div 128 < v
BY SMT

(* The writer of the numbers up to k exists.                                 *)
LEMMA VariedUpTo ==
  ASSUME NEW k \in Nat
  PROVE  \E F : VariedTo(k, F)
<1> DEFINE Bad == {j \in Nat : ~ \E F : VariedTo(j, F)}
<1>1. SUFFICES ASSUME Bad # {}
               PROVE  FALSE
  OBVIOUS
<1>2. PICK j \in Bad : \A i \in Bad : j <= i
  BY <1>1, HasMin
<1>3. CASE j = 0
  <2> DEFINE F == [v \in 0..0 |-> <<v>>]
  <2>1. \A v \in 0..0 : Varied(v, F) = <<v>>
    BY DEF Varied
  <2>2. F = [v \in 0..0 |-> Varied(v, F)]
    BY <2>1
  <2>3. VariedTo(0, F)
    BY <2>2 DEF VariedTo
  <2>4. QED
    BY <1>2, <1>3, <2>3
<1>4. CASE j # 0
  <2>1. PICK i \in Nat : j = i + 1
    <3>1. j - 1 \in Nat /\ j = (j - 1) + 1
      BY <1>2, <1>4
    <3>2. QED
      BY <3>1
  <2>2. i \notin Bad
    BY <1>2, <2>1
  <2>3. PICK F : VariedTo(i, F)
    BY <2>2
  <2> DEFINE G == [v \in 0..(i + 1) |-> Varied(v, F)]
  <2>4. \A v \in 0..i : F[v] = G[v]
    BY <2>3 DEF VariedTo
  <2>5. \A v \in 0..(i + 1) : Varied(v, F) = Varied(v, G)
    <3> TAKE v \in 0..(i + 1)
    <3>1. CASE v < 128
      BY <3>1 DEF Varied
    <3>2. CASE ~(v < 128)
      <4>1. v \div 128 \in Nat /\ v \div 128 < v
        BY <3>2, Seventh
      <4>2. PICK w : w = v \div 128
        OBVIOUS
      <4>3. w \in 0..i
        BY <4>1, <4>2
      <4>4. PICK H : H = G
        OBVIOUS
      <4>5. F[w] = H[w]
        BY <2>4, <4>3, <4>4
      <4>6. Varied(v, F) = Varied(v, H)
        BY <3>2, <4>2, <4>5 DEF Varied
      <4>7. QED
        BY <4>4, <4>6
    <3>3. QED
      BY <3>1, <3>2
  <2>6. G = [v \in 0..(i + 1) |-> Varied(v, G)]
    BY <2>5
  <2>7. VariedTo(i + 1, G)
    BY <2>6 DEF VariedTo
  <2>8. QED
    BY <1>2, <2>1, <2>7
<1>5. QED
  BY <1>3, <1>4

(* Two of them agree as far as both go.                                      *)
LEMMA VariedAgree ==
  ASSUME NEW k \in Nat, NEW l \in Nat, NEW J, NEW K, VariedTo(k, J), VariedTo(l, K)
  PROVE  \A n \in Nat : n <= k /\ n <= l => J[n] = K[n]
<1> DEFINE Bad == {n \in Nat : n <= k /\ n <= l /\ J[n] # K[n]}
<1>1. SUFFICES ASSUME Bad # {}
               PROVE  FALSE
  OBVIOUS
<1>2. PICK n \in Bad : \A i \in Bad : n <= i
  BY <1>1, HasMin
<1>3. n \in Nat /\ n <= k /\ n <= l /\ J[n] # K[n]
  BY <1>2
<1>4. J[n] = Varied(n, J) /\ K[n] = Varied(n, K)
  <2>1. n \in 0..k /\ n \in 0..l
    BY <1>3
  <2>2. J[n] = Varied(n, J)
    BY <2>1 DEF VariedTo
  <2>3. K[n] = Varied(n, K)
    BY <2>1 DEF VariedTo
  <2>4. QED
    BY <2>2, <2>3
<1>5. CASE n < 128
  BY <1>3, <1>4, <1>5 DEF Varied
<1>6. CASE ~(n < 128)
  <2>1. PICK w : w = n \div 128
    OBVIOUS
  <2>2. w \in Nat /\ w < n
    BY <1>3, <1>6, <2>1, Seventh
  <2>3. w <= k /\ w <= l /\ ~(n <= w)
    BY <1>3, <2>2
  <2>4. w \notin Bad
    BY <1>2, <2>3
  <2>5. J[w] = K[w]
    BY <2>2, <2>3, <2>4
  <2>6. Varied(n, J) = Varied(n, K)
    BY <1>6, <2>1, <2>5 DEF Varied
  <2>7. QED
    BY <1>3, <1>4, <2>6
<1>7. QED
  BY <1>5, <1>6

(* write_varint is defined: it unfolds group by group.                       *)
LEMMA VarintUnfolds ==
  ASSUME NEW x \in Nat
  PROVE  write_varint[x] = Varied(x, write_varint)
<1> DEFINE At(k) == CHOOSE J : VariedTo(k, J)
           All == [n \in Nat |-> At(n)[n]]
<1>1. \A k \in Nat : VariedTo(k, At(k))
  BY VariedUpTo
<1>2. \A n \in Nat : All[n] = Varied(n, All)
  <2> TAKE n \in Nat
  <2>1. n <= n /\ VariedTo(n, At(n))
    BY <1>1
  <2>2. At(n)[n] = Varied(n, At(n))
    <3>1. PICK J : J = At(n)
      OBVIOUS
    <3>2. J = [i \in 0..n |-> Varied(i, J)]
      BY <2>1, <3>1 DEF VariedTo
    <3>3. n \in 0..n
      OBVIOUS
    <3>4. J[n] = Varied(n, J)
      BY <3>2, <3>3
    <3>5. QED
      BY <3>1, <3>4
  <2>3. CASE n < 128
    <3>1. Varied(n, All) = <<n>> /\ Varied(n, At(n)) = <<n>>
      BY <2>3 DEF Varied
    <3>2. QED
      BY <2>2, <3>1
  <2>4. CASE ~(n < 128)
    <3>1. PICK w : w = n \div 128
      OBVIOUS
    <3>2. w \in Nat /\ w < n
      BY <2>4, <3>1, Seventh
    <3>3. w <= n /\ w <= w
      BY <3>2
    <3>4. VariedTo(w, At(w)) /\ VariedTo(n, At(n))
      BY <1>1, <3>2
    <3>5. PICK J, K : J = At(n) /\ K = At(w)
      OBVIOUS
    <3>6. J[w] = K[w]
      BY <3>2, <3>3, <3>4, <3>5, VariedAgree
    <3>7. All[w] = At(w)[w] /\ All[n] = At(n)[n]
      BY <3>2
    <3>8. PICK A : A = All
      OBVIOUS
    <3>9. A[w] = J[w] /\ A[n] = Varied(n, J)
      BY <2>2, <3>5, <3>6, <3>7, <3>8
    <3>10. Varied(n, A) = Varied(n, J)
      BY <2>4, <3>1, <3>9 DEF Varied
    <3>11. QED
      BY <3>8, <3>9, <3>10
  <2>5. QED
    BY <2>3, <2>4
<1>3. All = [n \in Nat |-> All[n]]
  OBVIOUS
<1> HIDE DEF All
<1>4. All = [n \in Nat |-> Varied(n, All)]
  BY <1>2, <1>3
<1>5. write_varint = [n \in Nat |-> Varied(n, write_varint)]
  BY <1>4, ZenonT(30) DEF write_varint, Varied
<1>6. QED
  BY <1>5

(* w is how v is written: at most five bytes, each but the last continued.   *)
VarintOf(w, v) ==
  /\ w \in Seq(Byte) /\ Len(w) \in 1..5
  /\ \A i \in 1..(Len(w) - 1) : w[i] >= 128
  /\ w[Len(w)] < 128
  /\ VarintValue(w) = v

Half31(v) == v \div 16777216 < 128

(* Seven bits take a byte.                                                   *)
LEMMA VarintShort ==
  ASSUME NEW v \in Nat, v < 128
  PROVE  VarintOf(write_varint[v], v) /\ Len(write_varint[v]) = 1
<1>1. PICK w : w = <<v>>
  OBVIOUS
<1>2. write_varint[v] = w
  BY <1>1, VarintUnfolds DEF Varied
<1>3. v \in Byte
  BY DEF Byte
<1>4. w \in Seq(Byte) /\ Len(w) = 1 /\ w[1] = v
  BY <1>1, <1>3
<1>5. VarintValue(w) = v
  <2>1. Digit(w, 1) = v /\ Digit(w, 2) = 0 /\ Digit(w, 3) = 0 /\ Digit(w, 4) = 0 /\ Digit(w, 5) = 0
    BY <1>4, SMT DEF Digit
  <2>2. QED
    BY <2>1 DEF VarintValue
<1>6. QED
  BY <1>2, <1>4, <1>5 DEF VarintOf

(* A group in front of a number that is written.                             *)
LEMMA VarintLonger ==
  ASSUME NEW v \in Nat, ~(v < 128),
         VarintOf(write_varint[v \div 128], v \div 128), Len(write_varint[v \div 128]) < 5
  PROVE  /\ VarintOf(write_varint[v], v)
         /\ Len(write_varint[v]) = Len(write_varint[v \div 128]) + 1
<1>1. PICK q : q = v \div 128
  OBVIOUS
<1>2. PICK t, w, b : t = write_varint[q] /\ b = 128 + (v % 128) /\ w = <<b>> \o t
  OBVIOUS
<1>3. write_varint[v] = w
  BY <1>1, <1>2, VarintUnfolds DEF Varied
<1>4. q \in Nat /\ b \in Byte /\ b >= 128 /\ b % 128 = v % 128 /\ v = 128 * q + (v % 128)
  BY <1>1, <1>2, SMT DEF Byte
<1>5. /\ t \in Seq(Byte) /\ Len(t) \in 1..4
      /\ \A i \in 1..(Len(t) - 1) : t[i] >= 128
      /\ t[Len(t)] < 128
      /\ VarintValue(t) = q
  <2>1. VarintOf(t, q) /\ Len(t) < 5
    BY <1>1, <1>2
  <2>2. /\ t \in Seq(Byte) /\ Len(t) \in 1..5
        /\ \A i \in 1..(Len(t) - 1) : t[i] >= 128
        /\ t[Len(t)] < 128
        /\ VarintValue(t) = q
    BY <2>1, Zenon DEF VarintOf
  <2>3. PICK l \in 1..5 : l = Len(t)
    BY <2>2
  <2>4. l \in 1..4
    BY <2>1, <2>3
  <2>5. QED
    BY <2>2, <2>3, <2>4
<1>6. PICK n \in 1..4 : n = Len(t)
  BY <1>5
<1>7. w \in Seq(Byte) /\ Len(w) = n + 1 /\ w[1] = b /\ \A i \in 1..n : w[i + 1] = t[i]
  <2>1. <<b>> \in Seq(Byte) /\ Len(<<b>>) = 1
    BY <1>4
  <2>2. w \in Seq(Byte) /\ Len(w) = n + 1
    BY <1>2, <1>5, <1>6, <2>1, Concat
  <2>3. w[1] = b
    BY <1>2, <1>4, <1>5
  <2>4. \A i \in 1..n : w[i + 1] = t[i]
    BY <1>2, <1>4, <1>5, <1>6
  <2>5. QED
    BY <2>2, <2>3, <2>4
<1>8. \A i \in 1..n : w[i] >= 128
  <2> TAKE i \in 1..n
  <2>1. CASE i = 1
    BY <1>4, <1>7, <2>1
  <2>2. CASE i # 1
    <3>1. PICK k \in 1..(n - 1) : i = k + 1 /\ k \in 1..n
      <4>1. i - 1 \in 1..(n - 1) /\ i - 1 \in 1..n /\ i = (i - 1) + 1
        BY <2>2
      <4>2. QED
        BY <4>1
    <3>2. t[k] >= 128
      BY <1>5, <1>6
    <3>3. QED
      BY <1>7, <3>1, <3>2
  <2>3. QED
    BY <2>1, <2>2
<1>9. w[n + 1] < 128
  <2>1. n \in 1..n
    OBVIOUS
  <2>2. QED
    BY <1>5, <1>6, <1>7, <2>1
<1>10. VarintValue(w) = v
  <2>1. Digit(w, 1) = v % 128
    BY <1>4, <1>7 DEF Digit
  <2>2. \A i \in 1..4 : Digit(w, i + 1) = Digit(t, i)
    <3> TAKE i \in 1..4
    <3>1. CASE i <= n
      BY <1>6, <1>7, <3>1 DEF Digit
    <3>2. CASE ~(i <= n)
      BY <1>6, <1>7, <3>2 DEF Digit
    <3>3. QED
      BY <3>1, <3>2
  <2>3. /\ Digit(w, 2) = Digit(t, 1) /\ Digit(w, 3) = Digit(t, 2)
        /\ Digit(w, 4) = Digit(t, 3) /\ Digit(w, 5) = Digit(t, 4)
    <3>1. \A i \in 1..4 : \A k : k = i + 1 => Digit(w, k) = Digit(t, i)
      BY <2>2
    <3>2. QED
      BY <3>1
  <2>4. Digit(t, 5) = 0
    BY <1>6 DEF Digit
  <2>5. \A i \in 1..4 : Digit(t, i) \in Nat
    <3> TAKE i \in 1..4
    <3>1. CASE i <= n
      <4>1. t[i] \in Byte
        BY <1>5, <1>6, <3>1
      <4>2. t[i] \in Nat
        BY <4>1, ByteIsNat
      <4>3. QED
        BY <1>6, <3>1, <4>2, SMT DEF Digit
    <3>2. CASE ~(i <= n)
      BY <1>6, <3>2 DEF Digit
    <3>3. QED
      BY <3>1, <3>2
  <2>6. PICK d1 \in Nat, d2 \in Nat, d3 \in Nat, d4 \in Nat :
          d1 = Digit(t, 1) /\ d2 = Digit(t, 2) /\ d3 = Digit(t, 3) /\ d4 = Digit(t, 4)
    BY <2>5
  <2>7. q = d1 + 128 * (d2 + 128 * (d3 + 128 * (d4 + 128 * 0)))
    BY <1>5, <2>4, <2>6 DEF VarintValue
  <2>8. VarintValue(w) = (v % 128) + 128 * (d1 + 128 * (d2 + 128 * (d3 + 128 * d4)))
    BY <2>1, <2>3, <2>6 DEF VarintValue
  <2>9. PICK r \in Nat : r = v % 128
    BY SMT
  <2>10. v = 128 * q + r
    BY <1>4, <2>9
  <2>11. QED
    BY <2>7, <2>8, <2>9, <2>10, SMT
<1>11. n = (n + 1) - 1 /\ n + 1 \in 1..5
  OBVIOUS
<1>12. VarintOf(w, v)
  BY <1>7, <1>8, <1>9, <1>10, <1>11 DEF VarintOf
<1>13. QED
  BY <1>1, <1>2, <1>3, <1>6, <1>7, <1>12

(* Every length below 2^31 is written in five bytes at most.                 *)
LEMMA FiveGroups ==
  ASSUME NEW v \in Nat, Half31(v)
  PROVE  ((((v \div 128) \div 128) \div 128) \div 128) < 8
BY SMT DEF Half31

(* So it takes a byte more.                                                  *)
LEMMA VarintGrows ==
  ASSUME NEW x \in Nat, NEW k \in 1..4,
         VarintOf(write_varint[x \div 128], x \div 128), Len(write_varint[x \div 128]) \in 1..k
  PROVE  VarintOf(write_varint[x], x) /\ Len(write_varint[x]) \in 1..(k + 1)
<1>1. CASE x < 128
  BY <1>1, VarintShort
<1>2. CASE ~(x < 128)
  <2>1. Len(write_varint[x \div 128]) < 5
    OBVIOUS
  <2>2. VarintOf(write_varint[x], x) /\ Len(write_varint[x]) = Len(write_varint[x \div 128]) + 1
    BY <1>2, <2>1, VarintLonger
  <2>3. QED
    BY <2>2
<1>3. QED
  BY <1>1, <1>2

(* A length is written as VarintOf says.                                     *)
LEMMA VarintWritten ==
  ASSUME NEW v \in Nat, Half31(v)
  PROVE  VarintOf(write_varint[v], v)
<1>1. PICK a, b, c, d : a = v \div 128 /\ b = a \div 128 /\ c = b \div 128 /\ d = c \div 128
  OBVIOUS
<1>2. a \in Nat /\ b \in Nat /\ c \in Nat /\ d \in Nat
  BY <1>1, SMT
<1>3. d < 8
  BY <1>1, FiveGroups
<1>4. VarintOf(write_varint[d], d) /\ Len(write_varint[d]) \in 1..1
  BY <1>2, <1>3, VarintShort
<1>5. VarintOf(write_varint[c], c) /\ Len(write_varint[c]) \in 1..2
  <2>1. 1 \in 1..4 /\ 1 + 1 = 2
    OBVIOUS
  <2>2. VarintOf(write_varint[c], c) /\ Len(write_varint[c]) \in 1..(1 + 1)
    BY <1>1, <1>2, <1>4, <2>1, VarintGrows
  <2>3. QED
    BY <2>2
<1>6. VarintOf(write_varint[b], b) /\ Len(write_varint[b]) \in 1..3
  <2>1. 2 \in 1..4 /\ 2 + 1 = 3
    OBVIOUS
  <2>2. VarintOf(write_varint[b], b) /\ Len(write_varint[b]) \in 1..(2 + 1)
    BY <1>1, <1>2, <1>5, <2>1, VarintGrows
  <2>3. QED
    BY <2>2
<1>7. VarintOf(write_varint[a], a) /\ Len(write_varint[a]) \in 1..4
  <2>1. 3 \in 1..4 /\ 3 + 1 = 4
    OBVIOUS
  <2>2. VarintOf(write_varint[a], a) /\ Len(write_varint[a]) \in 1..(3 + 1)
    BY <1>1, <1>2, <1>6, <2>1, VarintGrows
  <2>3. QED
    BY <2>2
<1>8. VarintOf(write_varint[v], v)
  BY <1>1, <1>7, VarintGrows
<1>9. QED
  BY <1>8

(* A sequence in two parts gives the parts back.                             *)
LEMMA Parts ==
  ASSUME NEW S, NEW a \in Seq(S), NEW b \in Seq(S)
  PROVE  /\ SubSeq(a \o b, 1, Len(a)) = a
         /\ SubSeq(a \o b, Len(a) + 1, Len(a \o b)) = b
<1>0. PICK c : c = a \o b
  OBVIOUS
<1>1. PICK n \in Nat, m \in Nat : n = Len(a) /\ m = Len(b) /\ c = a \o b
  <2>1. Len(a) \in Nat /\ Len(b) \in Nat
    BY LengthIsNat
  <2>2. QED
    BY <1>0, <2>1
<1>2. c \in Seq(S) /\ Len(c) = n + m /\ (\A i \in 1..n : c[i] = a[i]) /\ (\A i \in 1..m : c[n + i] = b[i])
  BY <1>1, ConcatSeqs
<1>3. SubSeq(c, 1, n) = a
  <2>1. SubSeq(c, 1, n) \in Seq(S) /\ Len(SubSeq(c, 1, n)) = n
    BY <1>2
  <2>2. \A i \in 1..n : SubSeq(c, 1, n)[i] = a[i]
    BY <1>2
  <2>3. QED
    BY <1>1, <2>1, <2>2
<1>4. SubSeq(c, n + 1, n + m) = b
  <2>1. SubSeq(c, n + 1, n + m) \in Seq(S) /\ Len(SubSeq(c, n + 1, n + m)) = m
    BY <1>2
  <2>2. \A i \in 1..m : SubSeq(c, n + 1, n + m)[i] = b[i]
    <3> TAKE i \in 1..m
    <3>1. SubSeq(c, n + 1, n + m)[i] = c[n + i]
      BY <1>2
    <3>2. QED
      BY <1>2, <3>1
  <2>3. QED
    BY <1>1, <2>1, <2>2
<1>5. QED
  BY <1>1, <1>2, <1>3, <1>4

(* The groups that end a number, and the first of them.                      *)
Ends(buf, l) == {i \in 1..Least(l, 5) : buf[i] < 128}

EndsAt(buf, n, l) ==
  /\ n \in 1..5 /\ l \in Nat /\ n <= l
  /\ \A i \in 1..n : buf[i] \in Nat
  /\ \A i \in 1..(n - 1) : buf[i] >= 128
  /\ buf[n] < 128

(* The byte that ends a number is the first without the continuation bit.    *)
LEMMA FirstEnd ==
  ASSUME NEW buf, NEW n, NEW l, EndsAt(buf, n, l)
  PROVE  Ends(buf, l) # {} /\ Min(Ends(buf, l)) = n
<1>0. /\ n \in 1..5 /\ l \in Nat /\ n <= l
      /\ \A i \in 1..n : buf[i] \in Nat
      /\ \A i \in 1..(n - 1) : buf[i] >= 128
      /\ buf[n] < 128
  BY DEF EndsAt
<1> DEFINE ends == Ends(buf, l)
<1>1. n \in ends
  BY <1>0 DEF Least, Ends
<1>2. ends \in SUBSET Nat /\ ends # {}
  BY <1>1 DEF Ends
<1>3. Min(ends) \in ends /\ \A k \in ends : Min(ends) <= k
  BY <1>2, HasMin
<1>4. PICK e : e = Min(ends)
  OBVIOUS
<1>5. e \in Nat /\ 1 <= e /\ buf[e] < 128 /\ e <= n
  BY <1>0, <1>1, <1>3, <1>4 DEF Ends
<1>6. CASE e = n
  BY <1>2, <1>4, <1>6
<1>7. CASE e # n
  <2>1. e \in 1..(n - 1) /\ e \in 1..n
    BY <1>0, <1>5, <1>7
  <2>2. buf[e] >= 128 /\ buf[e] \in Nat
    BY <1>0, <2>1
  <2>3. QED
    BY <1>5, <2>2
<1>8. QED
  BY <1>6, <1>7

Groups(v, d1, d2, d3, d4, d5) == v = d1 + 128 * (d2 + 128 * (d3 + 128 * (d4 + 128 * d5)))

(* Below 2^31 the fifth group is less than 16: read_varint does not overflow.*)
LEMMA LastGroup ==
  ASSUME NEW v \in Nat, Half31(v), NEW d1 \in Nat, NEW d2 \in Nat, NEW d3 \in Nat, NEW d4 \in Nat,
         NEW d5 \in Nat, Groups(v, d1, d2, d3, d4, d5)
  PROVE  d5 < 16
BY SMT DEF Half31, Groups

(* A group of a number is a number.                                          *)
LEMMA DigitIsNat ==
  ASSUME NEW w \in Seq(Byte), NEW i \in 1..5
  PROVE  Digit(w, i) \in Nat
<1>1. CASE i <= Len(w)
  <2>1. w[i] \in Byte
    BY <1>1
  <2>2. PICK x \in Nat : x = w[i]
    BY <2>1, ByteIsNat
  <2>3. x % 128 \in Nat
    BY SMT
  <2>4. QED
    BY <1>1, <2>2, <2>3 DEF Digit
<1>2. CASE ~(i <= Len(w))
  BY <1>2 DEF Digit
<1>3. QED
  BY <1>1, <1>2

(* So what they make is one.                                                 *)
LEMMA ValueIsNat ==
  ASSUME NEW w \in Seq(Byte)
  PROVE  VarintValue(w) \in Nat
<1>1. PICK d1 \in Nat, d2 \in Nat, d3 \in Nat, d4 \in Nat, d5 \in Nat :
        d1 = Digit(w, 1) /\ d2 = Digit(w, 2) /\ d3 = Digit(w, 3) /\ d4 = Digit(w, 4) /\ d5 = Digit(w, 5)
  <2>1. 1 \in 1..5 /\ 2 \in 1..5 /\ 3 \in 1..5 /\ 4 \in 1..5 /\ 5 \in 1..5
    OBVIOUS
  <2>2. QED
    BY <2>1, DigitIsNat
<1>2. d1 + 128 * (d2 + 128 * (d3 + 128 * (d4 + 128 * d5))) \in Nat
  OBVIOUS
<1>3. QED
  BY <1>1, <1>2 DEF VarintValue

(* What is written as a number is read as that number.                       *)
LEMMA VarintRead ==
  ASSUME NEW v \in Nat, Half31(v), NEW rest \in Seq(Byte)
  PROVE  read_varint(write_varint[v] \o rest) = Ok(v, rest)
<1>1. PICK w : w = write_varint[v]
  OBVIOUS
<1>2. VarintOf(w, v)
  BY <1>1, VarintWritten
<1>3. /\ w \in Seq(Byte) /\ Len(w) \in 1..5
      /\ \A i \in 1..(Len(w) - 1) : w[i] >= 128
      /\ w[Len(w)] < 128
      /\ VarintValue(w) = v
  BY <1>2, Zenon DEF VarintOf
<1>4. PICK n \in 1..5 : n = Len(w)
  BY <1>3
<1>5. PICK buf \in Seq(Byte), l \in Nat : buf = w \o rest /\ l = Len(buf) /\ n <= l
  <2>1. w \o rest \in Seq(Byte) /\ Len(w \o rest) = Len(w) + Len(rest) /\ Len(rest) \in Nat
    BY <1>3, ConcatSeqs
  <2>2. PICK m \in Nat : m = Len(rest)
    BY <2>1
  <2>3. n + m \in Nat /\ n <= n + m
    OBVIOUS
  <2>4. w \o rest \in Seq(Byte) /\ Len(w \o rest) = n + m
    BY <1>4, <2>1, <2>2
  <2>5. QED
    BY <2>3, <2>4
<1>6. \A i \in 1..n : buf[i] = w[i]
  BY <1>3, <1>4, <1>5, ConcatSeqs
<1>7. \A i \in 1..n : buf[i] \in Nat
  <2> TAKE i \in 1..n
  <2>1. w[i] \in Byte
    BY <1>3, <1>4
  <2>2. QED
    BY <1>6, <2>1, ByteIsNat
<1>8. (\A i \in 1..(n - 1) : buf[i] >= 128) /\ buf[n] < 128
  <2>1. \A i \in 1..(n - 1) : i \in 1..n
    OBVIOUS
  <2>2. n \in 1..n
    OBVIOUS
  <2>3. QED
    BY <1>3, <1>4, <1>6, <2>1, <2>2
<1>9. Ends(buf, l) # {} /\ Min(Ends(buf, l)) = n
  <2>1. EndsAt(buf, n, l)
    BY <1>5, <1>7, <1>8 DEF EndsAt
  <2>2. QED
    BY <2>1, FirstEnd
<1>10. n = 5 => buf[5] < 16
  <2> HAVE n = 5
  <2>1. PICK d1 \in Nat, d2 \in Nat, d3 \in Nat, d4 \in Nat, d5 \in Nat :
          d1 = Digit(w, 1) /\ d2 = Digit(w, 2) /\ d3 = Digit(w, 3) /\ d4 = Digit(w, 4) /\ d5 = Digit(w, 5)
    <3>1. 1 \in 1..5 /\ 2 \in 1..5 /\ 3 \in 1..5 /\ 4 \in 1..5 /\ 5 \in 1..5
      OBVIOUS
    <3>2. QED
      BY <1>3, <3>1, DigitIsNat
  <2>2. Groups(v, d1, d2, d3, d4, d5)
    BY <1>3, <2>1 DEF VarintValue, Groups
  <2>3. d5 < 16
    BY <2>2, LastGroup
  <2>4. w[5] \in Nat /\ w[5] < 128 /\ buf[5] = w[5]
    BY <1>3, <1>4, <1>6, <1>7
  <2>5. d5 = w[5] % 128
    <3>1. Len(w) = 5
      BY <1>4
    <3>2. Digit(w, 5) = w[5] % 128
      BY <3>1 DEF Digit
    <3>3. QED
      BY <2>1, <3>2
  <2>6. w[5] % 128 = w[5]
    BY <2>4, SMT
  <2>7. QED
    BY <2>3, <2>4, <2>5, <2>6
<1>11. SubSeq(buf, 1, n) = w /\ SubSeq(buf, n + 1, l) = rest
  BY <1>3, <1>4, <1>5, Parts
<1>12. read_varint(buf) = Ok(VarintValue(SubSeq(buf, 1, n)), SubSeq(buf, n + 1, l))
  <2>1. ~(l < n) /\ ~(n = 5 /\ (buf[5] >= 16 \/ Ends(buf, l) = {}))
    <3>1. n = 5 => buf[5] \in Nat
      BY <1>7
    <3>2. QED
      BY <1>5, <1>9, <1>10, <3>1
  <2>2. QED
    BY <1>5, <1>9, <2>1 DEF read_varint, Ends
<1>13. QED
  BY <1>1, <1>3, <1>5, <1>11, <1>12

(* A concatenation, position by position.                                    *)
LEMMA ConcatIndex ==
  ASSUME NEW u \in Seq(Byte), NEW v \in Seq(Byte), NEW i \in 1..(Len(u) + Len(v))
  PROVE  (u \o v)[i] = IF i <= Len(u) THEN u[i] ELSE v[i - Len(u)]
OBVIOUS

(* Three parts, position by position.                                        *)
Thirds(s, u, v, w, a, b, c) ==
  /\ s \in Seq(Byte) /\ Len(s) = a + b + c
  /\ \A i \in 1..a : s[i] = u[i]
  /\ \A i \in 1..b : s[a + i] = v[i]
  /\ \A i \in 1..c : s[a + b + i] = w[i]

(* A concatenation of three gives its parts back.                            *)
LEMMA ThreeParts ==
  ASSUME NEW u \in Seq(Byte), NEW v \in Seq(Byte), NEW w \in Seq(Byte)
  PROVE  Thirds(u \o v \o w, u, v, w, Len(u), Len(v), Len(w))
<1>1. PICK t \in Seq(Byte) : t = u \o v
  BY Concat
<1>2. PICK s \in Seq(Byte) : s = t \o w
  BY Concat
<1>3. PICK a \in Nat, b \in Nat, c \in Nat : a = Len(u) /\ b = Len(v) /\ c = Len(w)
  BY Concat
<1>4. Len(t) = a + b /\ (\A i \in 1..a : t[i] = u[i]) /\ (\A i \in 1..b : t[a + i] = v[i])
  BY <1>1, <1>3, ConcatSeqs
<1>5. Len(s) = (a + b) + c /\ (\A i \in 1..(a + b) : s[i] = t[i]) /\ (\A i \in 1..c : s[(a + b) + i] = w[i])
  <2>1. PICK e \in Nat : e = a + b /\ e = Len(t)
    BY <1>4
  <2>2. Len(s) = e + c /\ (\A i \in 1..e : s[i] = t[i]) /\ (\A i \in 1..c : s[e + i] = w[i])
    <3>1. Len(t \o w) = Len(t) + Len(w)
      BY <1>3, ConcatSeqs
    <3>2. \A i \in 1..Len(t) : (t \o w)[i] = t[i]
      BY ConcatSeqs
    <3>3. \A i \in 1..Len(w) : (t \o w)[Len(t) + i] = w[i]
      BY ConcatSeqs
    <3>4. QED
      BY <1>2, <1>3, <2>1, <3>1, <3>2, <3>3
  <2>3. QED
    BY <2>1, <2>2
<1>6. \A i \in 1..a : s[i] = u[i]
  <2> TAKE i \in 1..a
  <2>1. i \in 1..(a + b)
    OBVIOUS
  <2>2. QED
    BY <1>4, <1>5, <2>1
<1>7. \A i \in 1..b : s[a + i] = v[i]
  <2> TAKE i \in 1..b
  <2>1. a + i \in 1..(a + b)
    OBVIOUS
  <2>2. s[a + i] = t[a + i]
    BY <1>5, <2>1
  <2>3. QED
    BY <1>4, <2>2
<1>8. QED
  <2>1. Thirds(s, u, v, w, a, b, c)
    BY <1>5, <1>6, <1>7 DEF Thirds
  <2>2. QED
    BY <1>1, <1>2, <1>3, <2>1

(* The groups of a number that are cut off: not enough bytes, whatever they
   are the start of.                                                         *)
LEMMA VarintCut ==
  ASSUME NEW v \in Nat, Half31(v), NEW j \in Nat, j < Len(write_varint[v])
  PROVE  read_varint(SubSeq(write_varint[v], 1, j)) = Err("UnexpectedEof")
<1>1. PICK w : w = write_varint[v]
  OBVIOUS
<1>2. VarintOf(w, v)
  BY <1>1, VarintWritten
<1>3. /\ w \in Seq(Byte) /\ Len(w) \in 1..5
      /\ \A i \in 1..(Len(w) - 1) : w[i] >= 128
  BY <1>2, Zenon DEF VarintOf
<1>4. PICK n \in 1..5 : n = Len(w)
  BY <1>3
<1>5. j \in 0..4 /\ j < n /\ j <= n
  <2>1. j < n
    BY <1>1, <1>4
  <2>2. QED
    BY <2>1
<1>6. PICK p : p = SubSeq(w, 1, j)
  OBVIOUS
<1>7. Len(p) = j /\ \A k \in 1..j : p[k] = w[k]
  BY <1>3, <1>4, <1>5, <1>6, FirstB
<1>8. Ends(p, j) = {}
  <2>1. \A k \in 1..j : p[k] \in Nat /\ p[k] >= 128
    <3> TAKE k \in 1..j
    <3>1. k \in 1..(n - 1) /\ k \in 1..n
      BY <1>5
    <3>2. w[k] >= 128
      BY <1>3, <1>4, <3>1
    <3>3. w[k] \in Nat
      BY <1>3, <1>4, <3>1, ByteAt
    <3>4. QED
      BY <1>7, <3>2, <3>3
  <2>2. Least(j, 5) = j
    BY <1>5 DEF Least
  <2>3. \A k \in 1..j : ~(p[k] < 128)
    <3> TAKE k \in 1..j
    <3>1. PICK x \in Nat : x = p[k] /\ x >= 128
      BY <2>1
    <3>2. QED
      BY <3>1
  <2>4. QED
    BY <2>2, <2>3 DEF Ends
<1>9. read_varint(p) = Err("UnexpectedEof")
  BY <1>5, <1>7, <1>8 DEF read_varint, Ends
<1>10. QED
  BY <1>1, <1>6, <1>9

(* A number that was read is a number, and reading it took bytes.            *)
LEMMA VarintMoves ==
  ASSUME NEW buf \in Seq(Byte), ~Failed(read_varint(buf))
  PROVE  /\ read_varint(buf).val \in Nat
         /\ read_varint(buf).rest \in Seq(Byte)
         /\ Len(read_varint(buf).rest) < Len(buf)
<1>1. PICK l \in Nat : l = Len(buf)
  BY LengthIsNat
<1>2. PICK n : n = IF Ends(buf, l) = {} THEN 5 ELSE Min(Ends(buf, l))
  OBVIOUS
<1>3. n \in 1..5
  <2>1. Ends(buf, l) \in SUBSET Nat
    BY DEF Ends
  <2>2. Ends(buf, l) # {} => Min(Ends(buf, l)) \in Ends(buf, l)
    BY <2>1, HasMin
  <2>3. \A i \in Ends(buf, l) : i \in 1..5
    BY DEF Ends, Least
  <2>4. QED
    BY <1>2, <2>2, <2>3
<1>4. read_varint(buf) = IF l < n THEN Err("UnexpectedEof")
                         ELSE IF n = 5 /\ (buf[5] >= 16 \/ Ends(buf, l) = {}) THEN Err("VarintOverflow")
                         ELSE Ok(VarintValue(SubSeq(buf, 1, n)), SubSeq(buf, n + 1, l))
  BY <1>1, <1>2 DEF read_varint, Ends
<1>5. Failed(Err("UnexpectedEof")) /\ Failed(Err("VarintOverflow"))
  BY DEF Failed, Err
<1>6. ~(l < n) /\ read_varint(buf) = Ok(VarintValue(SubSeq(buf, 1, n)), SubSeq(buf, n + 1, l))
  BY <1>4, <1>5
<1>7. n <= l /\ n \in Nat
  BY <1>3, <1>6
<1>8. SubSeq(buf, 1, n) \in Seq(Byte)
  BY <1>1, <1>7, FirstB
<1>9. SubSeq(buf, n + 1, l) \in Seq(Byte) /\ Len(SubSeq(buf, n + 1, l)) = l - n
  BY <1>1, <1>7, SliceB
<1>10. VarintValue(SubSeq(buf, 1, n)) \in Nat
  BY <1>8, ValueIsNat
<1>11. /\ read_varint(buf).val = VarintValue(SubSeq(buf, 1, n))
       /\ read_varint(buf).rest = SubSeq(buf, n + 1, l)
  <2>1. PICK x, y : x = VarintValue(SubSeq(buf, 1, n)) /\ y = SubSeq(buf, n + 1, l)
    OBVIOUS
  <2>2. Ok(x, y).val = x /\ Ok(x, y).rest = y
    BY DEF Ok
  <2>3. QED
    BY <1>6, <2>1, <2>2
<1>12. l - n < l
  BY <1>3
<1>13. QED
  BY <1>1, <1>9, <1>10, <1>11, <1>12

Framed(tag, payload) == write_varint[tag] \o (write_varint[Len(payload)] \o payload)

(* Tags are small.                                                           *)
LEMMA TagIsSmall ==
  ASSUME NEW t \in DOMAIN MESSAGE_TAG
  PROVE  MESSAGE_TAG[t] \in 1..146
BY DEF MESSAGE_TAG

(* So a tag is written as a number is.                                       *)
LEMMA TagIsHalf ==
  ASSUME NEW t \in 1..146
  PROVE  t \in Nat /\ Half31(t)
BY SMT DEF Half31

(* Left to right is the same as nested.                                      *)
LEMMA ThreeIsNested ==
  ASSUME NEW u \in Seq(Byte), NEW v \in Seq(Byte), NEW w \in Seq(Byte)
  PROVE  u \o v \o w = u \o (v \o w) /\ u \o v \o w \in Seq(Byte)
BY Concat3

(* The place encode keeps for a length is one byte.                          *)
LEMMA ZeroByte == <<0>> \in Seq(Byte) /\ Len(<<0>>) = 1
BY DEF Byte

(* A byte is a sequence of one.                                              *)
LEMMA SingleByte ==
  ASSUME NEW x \in Byte
  PROVE  <<x>> \in Seq(Byte) /\ Len(<<x>>) = 1 /\ <<x>>[1] = x
OBVIOUS

Patched(s, at, x) == [s EXCEPT ![at] = x]

(* A payload shorter than 128 bytes: its length takes the place kept for it. *)
LEMMA PatchedLength ==
  ASSUME NEW u \in Seq(Byte), NEW x \in Byte, NEW p \in Seq(Byte)
  PROVE  \A s : s = u \o <<0>> \o p => Patched(s, Len(u) + 1, x) = u \o (<<x>> \o p)
<1>1. PICK z \in Seq(Byte), y \in Seq(Byte) : z = <<0>> /\ y = <<x>>
  BY SingleByte, ZeroByte
<1>2. PICK a \in Nat, c \in Nat : a = Len(u) /\ c = Len(p)
  BY Concat
<1>3. Len(z) = 1 /\ Len(y) = 1 /\ y[1] = x
  BY <1>1
<1>4. PICK s \in Seq(Byte), t \in Seq(Byte) : s = u \o z \o p /\ t = u \o y \o p
  BY Concat
<1>5. /\ Len(s) = a + 1 + c
      /\ \A i \in 1..a : s[i] = u[i]
      /\ \A i \in 1..c : s[a + 1 + i] = p[i]
  <2>1. Thirds(s, u, z, p, a, 1, c)
    BY <1>2, <1>3, <1>4, ThreeParts
  <2>2. QED
    BY <2>1 DEF Thirds
<1>6. /\ Len(t) = a + 1 + c
      /\ \A i \in 1..a : t[i] = u[i]
      /\ \A i \in 1..1 : t[a + i] = y[i]
      /\ \A i \in 1..c : t[a + 1 + i] = p[i]
  <2>1. Thirds(t, u, y, p, a, 1, c)
    BY <1>2, <1>3, <1>4, ThreeParts
  <2>2. QED
    BY <2>1 DEF Thirds
<1>7. t[a + 1] = x
  BY <1>3, <1>6
<1>8. \A i \in 1..(a + 1 + c) : t[i] = IF i = a + 1 THEN x ELSE s[i]
  <2> TAKE i \in 1..(a + 1 + c)
  <2>1. CASE i = a + 1
    BY <1>7, <2>1
  <2>2. CASE i \in 1..a
    BY <1>5, <1>6, <2>2
  <2>3. CASE i \notin 1..a /\ i # a + 1
    <3>1. PICK k \in 1..c : i = a + 1 + k
      <4>1. i - (a + 1) \in 1..c /\ i = a + 1 + (i - (a + 1))
        BY <2>3
      <4>2. QED
        BY <4>1
    <3>2. QED
      BY <1>5, <1>6, <2>3, <3>1
  <2>4. QED
    BY <2>1, <2>2, <2>3
<1>9. s = [i \in 1..(a + 1 + c) |-> s[i]] /\ t = [i \in 1..(a + 1 + c) |-> t[i]]
  BY <1>5, <1>6
<1>10. Patched(s, a + 1, x) = t
  BY <1>8, <1>9 DEF Patched
<1>11. t = u \o (y \o p)
  BY <1>4, ThreeIsNested, SMTT(30)
<1>12. QED
  BY <1>1, <1>2, <1>4, <1>10, <1>11

Shifted(s, v, at) ==
  [i \in 1..(Len(s) + Len(v) - 1) |->
      IF i < at THEN s[i] ELSE IF i < at + Len(v) THEN v[i - at + 1] ELSE s[i - (Len(v) - 1)]]

(* A longer one is moved up by what its length needs beyond that place.      *)
LEMMA ShiftedLength ==
  ASSUME NEW u \in Seq(Byte), NEW v \in Seq(Byte), NEW p \in Seq(Byte), Len(v) >= 1
  PROVE  \A s : s = u \o <<0>> \o p => Shifted(s, v, Len(u) + 1) = u \o (v \o p)
<1>0. u \o v \o p = u \o (v \o p)
  BY ThreeIsNested
<1>1. PICK z \in Seq(Byte) : z = <<0>> /\ Len(z) = 1
  BY ZeroByte
<1>2. PICK a \in Nat, b \in Nat, c \in Nat : a = Len(u) /\ b = Len(v) /\ c = Len(p)
  BY Concat
<1>3. Len(z) = 1 /\ b >= 1
  BY <1>1, <1>2
<1>4. PICK s \in Seq(Byte), t \in Seq(Byte) : s = u \o z \o p /\ t = u \o v \o p
  BY Concat
<1>5. /\ Len(s) = a + 1 + c
      /\ \A i \in 1..a : s[i] = u[i]
      /\ \A i \in 1..c : s[a + 1 + i] = p[i]
  <2>1. Thirds(s, u, z, p, a, 1, c)
    BY <1>2, <1>3, <1>4, ThreeParts
  <2>2. QED
    BY <2>1 DEF Thirds
<1>6. /\ Len(t) = a + b + c
      /\ \A i \in 1..a : t[i] = u[i]
      /\ \A i \in 1..b : t[a + i] = v[i]
      /\ \A i \in 1..c : t[a + b + i] = p[i]
  <2>1. Thirds(t, u, v, p, a, b, c)
    BY <1>2, <1>4, ThreeParts
  <2>2. QED
    BY <2>1 DEF Thirds
<1>7. (a + 1 + c) + b - 1 = a + b + c
  OBVIOUS
<1>8. \A i \in 1..(a + b + c) :
        t[i] = IF i < a + 1 THEN s[i] ELSE IF i < (a + 1) + b THEN v[i - (a + 1) + 1] ELSE s[i - (b - 1)]
  <2> TAKE i \in 1..(a + b + c)
  <2>1. CASE i < a + 1
    <3>1. i \in 1..a
      BY <2>1
    <3>2. QED
      BY <1>5, <1>6, <2>1, <3>1
  <2>2. CASE ~(i < a + 1) /\ i < (a + 1) + b
    <3>1. PICK k \in 1..b : i = a + k /\ i - (a + 1) + 1 = k
      <4>1. i - a \in 1..b /\ i = a + (i - a) /\ i - (a + 1) + 1 = i - a
        BY <2>2
      <4>2. QED
        BY <4>1
    <3>2. QED
      BY <1>6, <2>2, <3>1
  <2>3. CASE ~(i < a + 1) /\ ~(i < (a + 1) + b)
    <3>1. PICK k \in 1..c : i = a + b + k /\ i - (b - 1) = a + 1 + k
      <4>1. i - (a + b) \in 1..c /\ i = a + b + (i - (a + b)) /\ i - (b - 1) = a + 1 + (i - (a + b))
        BY <2>3
      <4>2. QED
        BY <4>1
    <3>2. t[i] = p[k] /\ s[i - (b - 1)] = p[k]
      BY <1>5, <1>6, <3>1
    <3>3. QED
      BY <2>3, <3>2
  <2>4. QED
    BY <2>1, <2>2, <2>3
<1>9. t = [i \in 1..(a + b + c) |-> t[i]]
  BY <1>6
<1>10. t = [i \in 1..((a + 1 + c) + b - 1) |->
              IF i < a + 1 THEN s[i] ELSE IF i < (a + 1) + b THEN v[i - (a + 1) + 1] ELSE s[i - (b - 1)]]
  BY <1>7, <1>8, <1>9
<1>11. t = u \o (v \o p)
  BY <1>0, <1>4
<1>12. Shifted(s, v, a + 1) = t
  BY <1>2, <1>5, <1>10 DEF Shifted
<1>13. QED
  BY <1>1, <1>2, <1>4, <1>11, <1>12

(* What encode writes.                                                       *)
LEMMA EncodeFrames ==
  ASSUME NEW m, NEW t, t = MESSAGE_TAG[m.type], NEW p \in Seq(Byte), p = encode_payload(m),
         t \in 1..146, Half31(Len(p))
  PROVE  encode(m) = Framed(t, p)
<1>1. PICK u, v : u = write_varint[t] /\ v = write_varint[Len(p)]
  OBVIOUS
<1>2. PICK c \in Nat : c = Len(p)
  BY Concat
<1>3. VarintOf(u, t)
  <2>1. t \in Nat /\ Half31(t)
    BY TagIsHalf
  <2>2. QED
    BY <1>1, <2>1, VarintWritten
<1>4. VarintOf(v, c)
  BY <1>1, <1>2, VarintWritten
<1>5. u \in Seq(Byte) /\ v \in Seq(Byte) /\ Len(v) \in 1..5
  BY <1>3, <1>4, Zenon DEF VarintOf
<1>6. PICK s \in Seq(Byte) : s = u \o <<0>> \o p
  <2>1. <<0>> \in Seq(Byte)
    BY SingleByte DEF Byte
  <2>2. QED
    BY <1>5, <2>1, Concat
<1>7. Len(s) - c = Len(u) + 1
  <2>1. PICK z \in Seq(Byte) : z = <<0>> /\ Len(z) = 1
    BY ZeroByte
  <2>2. Len(s) = Len(u) + 1 + c /\ Len(u) \in Nat
    <3>1. Thirds(s, u, z, p, Len(u), 1, c)
      BY <1>2, <1>5, <1>6, <2>1, ThreeParts
    <3>2. Len(u) \in Nat
      BY <1>5, LengthIsNat
    <3>3. QED
      BY <3>1, <3>2 DEF Thirds
  <2>3. QED
    BY <2>2
<1>8. encode(m) = IF c < 128 THEN Patched(s, Len(u) + 1, c)
                  ELSE Shifted(s, v, Len(u) + 1)
  BY <1>1, <1>2, <1>6, <1>7 DEF encode, Shifted, Patched
<1>9. CASE c < 128
  <2>1. v = <<c>> /\ c \in Byte
    <3>1. v = <<c>>
      BY <1>1, <1>2, <1>9, VarintUnfolds DEF Varied
    <3>2. c \in Byte
      BY <1>9 DEF Byte
    <3>3. QED
      BY <3>1, <3>2
  <2>2. Patched(s, Len(u) + 1, c) = u \o (<<c>> \o p)
    <3>1. \A r : r = u \o <<0>> \o p => Patched(r, Len(u) + 1, c) = u \o (<<c>> \o p)
      BY <1>5, <2>1, PatchedLength
    <3>2. QED
      BY <1>6, <3>1
  <2>3. QED
    BY <1>1, <1>8, <1>9, <2>1, <2>2 DEF Framed
<1>10. CASE ~(c < 128)
  <2>1. Len(v) >= 1
    <3>1. PICK l \in 1..5 : l = Len(v)
      BY <1>5
    <3>2. l >= 1
      OBVIOUS
    <3>3. QED
      BY <3>1, <3>2
  <2>2. encode(m) = u \o (v \o p)
    <3>1. \A r : r = u \o <<0>> \o p => Shifted(r, v, Len(u) + 1) = u \o (v \o p)
      BY <1>5, <2>1, ShiftedLength
    <3>2. Shifted(s, v, Len(u) + 1) = u \o (v \o p)
      BY <1>6, <3>1
    <3>3. QED
      BY <1>8, <1>10, <3>2
  <2>3. QED
    BY <1>1, <2>2 DEF Framed
<1>11. QED
  BY <1>9, <1>10

(* decode, in the three parts of a frame.                                    *)
Awaited(r) == IF r.err = "UnexpectedEof" THEN Incomplete ELSE r

PayloadRead(t, n, x) ==
  IF n > MaxMessage THEN Err("MessageTooLarge")
  ELSE IF Len(x) < n THEN Incomplete
  ELSE Map(Take(n, x, "UnexpectedEof"), LAMBDA p : decode_payload(t, p))

LengthRead(t, x) ==
  IF Failed(Awaited(read_varint(x))) THEN Awaited(read_varint(x))
  ELSE PayloadRead(t, Awaited(read_varint(x)).val, Awaited(read_varint(x)).rest)

(* decode is its parts.                                                      *)
LEMMA DecodeParts ==
  ASSUME NEW buf
  PROVE  decode(buf) = IF Failed(Awaited(read_varint(buf))) THEN Awaited(read_varint(buf))
                       ELSE LengthRead(Awaited(read_varint(buf)).val, Awaited(read_varint(buf)).rest)
BY DEF decode, Bind, LengthRead, PayloadRead, Awaited

(* What was read is not awaited.                                             *)
LEMMA AwaitedOk ==
  ASSUME NEW v, NEW x
  PROVE  /\ Awaited(Ok(v, x)) = Ok(v, x) /\ ~Failed(Ok(v, x))
         /\ Ok(v, x).val = v /\ Ok(v, x).rest = x
BY DEF Awaited, Ok, Failed

(* The end of the buffer is awaited, any other error fails.                  *)
LEMMA AwaitedCut ==
  /\ Awaited(Err("UnexpectedEof")) = Incomplete
  /\ Failed(Incomplete) /\ Failed(Err("MessageTooLarge"))
  /\ Incomplete # Err("MessageTooLarge")
BY DEF Awaited, Err, Failed, Incomplete

(* A payload that is all there is read by its tag.                           *)
LEMMA PayloadWhole ==
  ASSUME NEW t, NEW p \in Seq(Byte), NEW rest \in Seq(Byte), NEW n \in Nat, n = Len(p),
         n <= MaxMessage
  PROVE  PayloadRead(t, n, p \o rest) =
           IF Failed(decode_payload(t, p)) THEN decode_payload(t, p)
           ELSE Ok(decode_payload(t, p).val, rest)
<1>1. MaxMessage \in Nat
  BY Lz4Assumption, SMT
<1>2. PICK x \in Seq(Byte), l \in Nat : x = p \o rest /\ l = Len(x) /\ n <= l
  <2>1. p \o rest \in Seq(Byte) /\ Len(p \o rest) = n + Len(rest) /\ Len(rest) \in Nat
    BY Concat
  <2>2. PICK m \in Nat : m = Len(rest)
    BY <2>1
  <2>3. n + m \in Nat /\ n <= n + m
    OBVIOUS
  <2>4. QED
    BY <2>1, <2>2, <2>3
<1>3. SubSeq(x, 1, n) = p /\ SubSeq(x, n + 1, l) = rest
  BY <1>2, Parts
<1>4. ~(l < n) /\ ~(n > MaxMessage)
  BY <1>1, <1>2
<1>5. Take(n, x, "UnexpectedEof") = Ok(p, rest)
  BY <1>2, <1>3, <1>4 DEF Take
<1>6. PayloadRead(t, n, x) = Map(Ok(p, rest), LAMBDA d : decode_payload(t, d))
  BY <1>2, <1>4, <1>5 DEF PayloadRead
<1>7. Map(Ok(p, rest), LAMBDA d : decode_payload(t, d)) =
        IF Failed(decode_payload(t, p)) THEN decode_payload(t, p)
        ELSE Ok(decode_payload(t, p).val, rest)
  BY AwaitedOk DEF Map, Bind
<1>8. QED
  BY <1>2, <1>6, <1>7

(* The limit of a message is a number.                                       *)
LEMMA LimitIsNat == MaxMessage \in Nat
BY Lz4Assumption, SMT

Regroups(a, b, c) == (a \o b) \o c = a \o (b \o c)
RegroupsAll(a, b, c, d) == (a \o (b \o c)) \o d = a \o (b \o (c \o d))

(* Concatenation associates, of three parts of bytes.                        *)
LEMMA Regrouped ==
  ASSUME NEW a \in Seq(Byte), NEW b \in Seq(Byte), NEW c \in Seq(Byte)
  PROVE  Regroups(a, b, c)
BY Associates DEF Regroups

(* And of four.                                                              *)
LEMMA AllRegrouped ==
  ASSUME NEW a \in Seq(Byte), NEW b \in Seq(Byte), NEW c \in Seq(Byte), NEW d \in Seq(Byte)
  PROVE  RegroupsAll(a, b, c, d)
<1>1. PICK e \in Seq(Byte) : e = b \o c
  BY Concat
<1>2. Regroups(a, e, d)
  BY Regrouped
<1>3. Regroups(b, c, d)
  BY Regrouped
<1>4. QED
  BY <1>1, <1>2, <1>3 DEF Regroups, RegroupsAll

(* A whole frame, whatever follows.                                          *)
LEMMA DecodeFrame ==
  ASSUME NEW t \in 1..146, NEW p \in Seq(Byte), Half31(Len(p)), NEW rest \in Seq(Byte)
  PROVE  decode(Framed(t, p) \o rest) =
           IF Len(p) > MaxMessage THEN Err("MessageTooLarge")
           ELSE IF Failed(decode_payload(t, p)) THEN decode_payload(t, p)
           ELSE Ok(decode_payload(t, p).val, rest)
<1>0. MaxMessage \in Nat
  BY LimitIsNat
<1>1. PICK n \in Nat : n = Len(p)
  BY Concat
<1>2. PICK u \in Seq(Byte), v \in Seq(Byte) : u = write_varint[t] /\ v = write_varint[n]
  <2>1. VarintOf(write_varint[t], t) /\ VarintOf(write_varint[n], n)
    BY <1>1, TagIsHalf, VarintWritten
  <2>2. QED
    BY <2>1 DEF VarintOf
<1>3. PICK x \in Seq(Byte), y \in Seq(Byte) : x = p \o rest /\ y = v \o x
  BY Concat
<1>4. Framed(t, p) \o rest = u \o y
  <2>1. Framed(t, p) = u \o (v \o p)
    BY <1>1, <1>2 DEF Framed
  <2>2. RegroupsAll(u, v, p, rest)
    BY AllRegrouped
  <2>3. QED
    BY <1>3, <2>1, <2>2 DEF RegroupsAll
<1>5. read_varint(u \o y) = Ok(t, y)
  BY <1>2, <1>3, TagIsHalf, VarintRead
<1>6. read_varint(y) = Ok(n, x)
  BY <1>1, <1>2, <1>3, VarintRead
<1>7. decode(u \o y) = LengthRead(t, y)
  <2>1. Awaited(Ok(t, y)) = Ok(t, y) /\ ~Failed(Ok(t, y)) /\ Ok(t, y).val = t /\ Ok(t, y).rest = y
    BY AwaitedOk
  <2>2. Awaited(read_varint(u \o y)) = Ok(t, y)
    BY <1>5, <2>1
  <2>3. QED
    BY <2>1, <2>2, DecodeParts
<1>8. LengthRead(t, y) = PayloadRead(t, n, x)
  BY <1>6, AwaitedOk DEF LengthRead
<1>9. CASE n > MaxMessage
  BY <1>1, <1>4, <1>7, <1>8, <1>9 DEF PayloadRead
<1>10. CASE ~(n > MaxMessage)
  <2>1. n <= MaxMessage
    BY <1>0, <1>10
  <2>2. PayloadRead(t, n, x) = IF Failed(decode_payload(t, p)) THEN decode_payload(t, p)
                               ELSE Ok(decode_payload(t, p).val, rest)
    BY <1>1, <1>3, <2>1, PayloadWhole
  <2>3. QED
    BY <1>1, <1>4, <1>7, <1>8, <1>10, <2>2
<1>11. QED
  BY <1>9, <1>10

(* b is the beginning of f, cut off before its end.                          *)
CutOf(b, f) ==
  /\ b \in Seq(Byte) /\ f \in Seq(Byte) /\ Len(b) < Len(f)
  /\ \A i \in 1..Len(b) : b[i] = f[i]

(* A cut is a slice.                                                         *)
LEMMA CutIsSlice ==
  ASSUME NEW b, NEW f, CutOf(b, f)
  PROVE  b = SubSeq(f, 1, Len(b)) /\ Len(b) < Len(f)
<1>1. b \in Seq(Byte) /\ f \in Seq(Byte) /\ Len(b) < Len(f) /\ \A i \in 1..Len(b) : b[i] = f[i]
  BY DEF CutOf
<1>2. PICK j \in Nat, l \in Nat : j = Len(b) /\ l = Len(f)
  BY <1>1, Concat
<1>3. j <= l
  BY <1>1, <1>2
<1>4. PICK s : s = SubSeq(f, 1, j)
  OBVIOUS
<1>5. s \in Seq(Byte) /\ Len(s) = j /\ \A k \in 1..j : s[k] = f[k]
  BY <1>1, <1>2, <1>3, <1>4, FirstB
<1>6. \A k \in 1..j : b[k] = s[k]
  BY <1>1, <1>2, <1>5
<1>7. b = s
  BY <1>1, <1>2, <1>5, <1>6, SameBytes
<1>8. QED
  BY <1>1, <1>2, <1>4, <1>7

(* A concatenation is cut in its first part or in its second.                *)
LEMMA CutParts ==
  ASSUME NEW u \in Seq(Byte), NEW y \in Seq(Byte), NEW b, CutOf(b, u \o y)
  PROVE  CutOf(b, u) \/ \E x : b = u \o x /\ CutOf(x, y)
<1>0. PICK f : f = u \o y
  OBVIOUS
<1>1. b \in Seq(Byte) /\ f \in Seq(Byte) /\ Len(b) < Len(f) /\ \A i \in 1..Len(b) : b[i] = f[i]
  BY <1>0 DEF CutOf
<1>2. PICK j \in Nat, m \in Nat, n \in Nat : j = Len(b) /\ m = Len(u) /\ n = Len(y)
  BY <1>1, Concat
<1>3. Len(f) = m + n /\ (\A k \in 1..m : f[k] = u[k]) /\ (\A k \in 1..n : f[m + k] = y[k])
  BY <1>0, <1>2, ConcatSeqs
<1>4. CASE j < m
  <2>1. \A i \in 1..j : b[i] = u[i]
    <3> TAKE i \in 1..j
    <3>1. i \in 1..m
      BY <1>4
    <3>2. QED
      BY <1>1, <1>2, <1>3, <3>1
  <2>2. CutOf(b, u)
    BY <1>1, <1>2, <1>4, <2>1 DEF CutOf
  <2>3. QED
    BY <2>2
<1>5. CASE ~(j < m)
  <2>1. m <= j /\ j < m + n
    BY <1>1, <1>2, <1>3, <1>5
  <2>2. PICK h, x : h = SubSeq(b, 1, m) /\ x = SubSeq(b, m + 1, j)
    OBVIOUS
  <2>3. h \in Seq(Byte) /\ Len(h) = m /\ \A k \in 1..m : h[k] = b[k]
    BY <1>1, <1>2, <2>1, <2>2, FirstB
  <2>4. x \in Seq(Byte) /\ Len(x) = j - m /\ \A k \in 1..(j - m) : x[k] = b[m + k]
    BY <1>1, <1>2, <2>1, <2>2, SliceB
  <2>5. h = u
    <3>1. \A k \in 1..m : h[k] = u[k]
      <4> TAKE k \in 1..m
      <4>1. k \in 1..j
        BY <2>1
      <4>2. QED
        BY <1>1, <1>2, <1>3, <2>3, <4>1
    <3>2. QED
      BY <1>2, <2>3, <3>1, SameBytes
  <2>6. b = h \o x
    <3>1. m <= j /\ j <= Len(b)
      BY <1>2, <2>1
    <3>2. SubSeq(b, 1, m) \o SubSeq(b, m + 1, j) = SubSeq(b, 1, j)
      BY <1>1, <3>1, SliceJoin
    <3>3. SubSeq(b, 1, j) = b
      BY <1>1, <1>2
    <3>4. QED
      BY <2>2, <3>2, <3>3
  <2>7. CutOf(x, y)
    <3>1. \A k \in 1..(j - m) : x[k] = y[k]
      <4> TAKE k \in 1..(j - m)
      <4>1. m + k \in 1..j /\ k \in 1..n
        BY <2>1
      <4>2. b[m + k] = f[m + k] /\ f[m + k] = y[k] /\ x[k] = b[m + k]
        BY <1>1, <1>2, <1>3, <2>4, <4>1
      <4>3. QED
        BY <4>2
    <3>2. j - m < n
      BY <2>1
    <3>3. QED
      BY <1>2, <2>4, <3>1, <3>2 DEF CutOf
  <2>8. QED
    BY <2>5, <2>6, <2>7
<1>6. QED
  BY <1>4, <1>5

(* A frame that is cut is waited for, or refused for its length.             *)
LEMMA DecodeCut ==
  ASSUME NEW t \in 1..146, NEW p \in Seq(Byte), Half31(Len(p)), NEW b, CutOf(b, Framed(t, p))
  PROVE  \/ decode(b) = Incomplete
         \/ Len(p) > MaxMessage /\ decode(b) = Err("MessageTooLarge")
<1>1. PICK n \in Nat : n = Len(p)
  BY Concat
<1>2. PICK u \in Seq(Byte), v \in Seq(Byte) : u = write_varint[t] /\ v = write_varint[n]
  <2>1. VarintOf(write_varint[t], t) /\ VarintOf(write_varint[n], n)
    BY <1>1, TagIsHalf, VarintWritten
  <2>2. QED
    BY <2>1 DEF VarintOf
<1>3. PICK y \in Seq(Byte) : y = v \o p
  BY Concat
<1>4. CutOf(b, u \o y)
  BY <1>1, <1>2, <1>3 DEF Framed
<1>5. \A w \in Nat : \A x : Half31(w) /\ CutOf(x, write_varint[w]) => Awaited(read_varint(x)) = Incomplete
  <2> TAKE w \in Nat
  <2> TAKE x
  <2> HAVE Half31(w) /\ CutOf(x, write_varint[w])
  <2>1. x = SubSeq(write_varint[w], 1, Len(x)) /\ Len(x) < Len(write_varint[w]) /\ Len(x) \in Nat
    <3>1. x \in Seq(Byte)
      BY DEF CutOf
    <3>2. QED
      BY <3>1, CutIsSlice, LengthIsNat
  <2>2. read_varint(x) = Err("UnexpectedEof")
    BY <2>1, VarintCut
  <2>3. QED
    BY <2>2, AwaitedCut
<1>6. CASE CutOf(b, u)
  <2>1. Awaited(read_varint(b)) = Incomplete
    BY <1>2, <1>5, <1>6, TagIsHalf
  <2>2. QED
    BY <2>1, AwaitedCut, DecodeParts
<1>7. CASE \E x : b = u \o x /\ CutOf(x, y)
  <2>1. PICK x : b = u \o x /\ CutOf(x, y)
    BY <1>7
  <2>2. x \in Seq(Byte)
    BY <2>1 DEF CutOf
  <2>3. read_varint(b) = Ok(t, x)
    BY <1>2, <2>1, <2>2, TagIsHalf, VarintRead
  <2>4. decode(b) = LengthRead(t, x)
    <3>1. Awaited(Ok(t, x)) = Ok(t, x) /\ ~Failed(Ok(t, x)) /\ Ok(t, x).val = t /\ Ok(t, x).rest = x
      BY AwaitedOk
    <3>2. QED
      BY <2>3, <3>1, DecodeParts
  <2>5. CASE CutOf(x, v)
    <3>1. Awaited(read_varint(x)) = Incomplete
      BY <1>1, <1>2, <1>5, <2>5
    <3>2. QED
      BY <2>4, <3>1, AwaitedCut DEF LengthRead
  <2>6. CASE \E z : x = v \o z /\ CutOf(z, p)
    <3>1. PICK z : x = v \o z /\ CutOf(z, p)
      BY <2>6
    <3>2. z \in Seq(Byte) /\ Len(z) < n
      BY <1>1, <3>1 DEF CutOf
    <3>3. read_varint(x) = Ok(n, z)
      BY <1>1, <1>2, <3>1, <3>2, VarintRead
    <3>4. LengthRead(t, x) = PayloadRead(t, n, z)
      BY <3>3, AwaitedOk DEF LengthRead
    <3>5. QED
      BY <1>1, <2>4, <3>2, <3>4 DEF PayloadRead
  <2>7. QED
    BY <1>2, <1>3, <2>1, <2>5, <2>6, CutParts
<1>8. QED
  BY <1>2, <1>3, <1>4, <1>6, <1>7, CutParts, ZenonT(30)

(* A message that was decoded took bytes.                                    *)
LEMMA DecodeMoves ==
  ASSUME NEW buf \in Seq(Byte), ~Failed(decode(buf))
  PROVE  decode(buf).rest \in Seq(Byte) /\ Len(decode(buf).rest) < Len(buf)
<1>0. \A r : ~Failed(Awaited(r)) => Awaited(r) = r /\ ~Failed(r)
  BY DEF Awaited, Failed, Incomplete, Err
<1>1. PICK r : r = read_varint(buf)
  OBVIOUS
<1>2. ~Failed(Awaited(r))
  BY <1>1, DecodeParts
<1>3. Awaited(r) = r /\ ~Failed(r)
  BY <1>0, <1>2
<1>4. PICK t, x : t = r.val /\ x = r.rest
  OBVIOUS
<1>5. x \in Seq(Byte) /\ Len(x) < Len(buf) /\ decode(buf) = LengthRead(t, x)
  BY <1>1, <1>2, <1>3, <1>4, DecodeParts, VarintMoves
<1>6. PICK q : q = read_varint(x)
  OBVIOUS
<1>7. Awaited(q) = q /\ ~Failed(q)
  BY <1>0, <1>5, <1>6 DEF LengthRead
<1>8. PICK n, y : n = q.val /\ y = q.rest
  OBVIOUS
<1>9. n \in Nat /\ y \in Seq(Byte) /\ Len(y) < Len(x) /\ decode(buf) = PayloadRead(t, n, y)
  BY <1>5, <1>6, <1>7, <1>8, VarintMoves DEF LengthRead
<1>10. ~(n > MaxMessage) /\ ~(Len(y) < n)
       /\ decode(buf) = Map(Take(n, y, "UnexpectedEof"), LAMBDA p : decode_payload(t, p))
  BY <1>9, AwaitedCut DEF PayloadRead
<1>11. PICK p, z : p = SubSeq(y, 1, n) /\ z = SubSeq(y, n + 1, Len(y))
  OBVIOUS
<1>12. Take(n, y, "UnexpectedEof") = Ok(p, z)
  BY <1>10, <1>11 DEF Take
<1>13. decode(buf) = IF Failed(decode_payload(t, p)) THEN decode_payload(t, p)
                     ELSE Ok(decode_payload(t, p).val, z)
  BY <1>10, <1>12, AwaitedOk DEF Map, Bind
<1>14. decode(buf).rest = z
  BY <1>13, AwaitedOk
<1>15. z \in Seq(Byte) /\ Len(z) = Len(y) - n
  <2>1. PICK l \in Nat : l = Len(y)
    BY <1>9, LengthIsNat
  <2>2. n <= l
    BY <1>9, <1>10, <2>1
  <2>3. QED
    BY <1>9, <1>11, <2>1, <2>2, SliceB
<1>16. Len(z) < Len(buf)
  <2>1. PICK a \in Nat, b \in Nat, c \in Nat : a = Len(buf) /\ b = Len(x) /\ c = Len(y)
    BY <1>5, <1>9, LengthIsNat
  <2>2. b < a /\ c < b /\ Len(z) = c - n
    BY <1>5, <1>9, <1>15, <2>1
  <2>3. QED
    BY <1>9, <2>1, <2>2
<1>17. QED
  BY <1>14, <1>15, <1>16

(* DecodeAll by one message.                                                 *)
Drained(buf, F) ==
  IF Failed(decode(buf)) THEN [msgs |-> <<>>, rest |-> buf, bad |-> decode(buf) # Incomplete]
  ELSE LET more == F[decode(buf).rest]
       IN  [more EXCEPT !.msgs = <<decode(buf).val>> \o more.msgs]

(* The buffers of at most k bytes.                                           *)
UpTo(k) == {s \in Seq(Byte) : Len(s) <= k}

(* F drains the buffers of at most k bytes.                                  *)
DrainedTo(k, F) == F = [s \in UpTo(k) |-> Drained(s, F)]

(* More bytes, more buffers.                                                 *)
LEMMA UpToGrows ==
  ASSUME NEW k \in Nat, NEW l \in Nat, k <= l
  PROVE  \A s \in UpTo(k) : s \in UpTo(l)
<1> TAKE s \in UpTo(k)
<1>1. s \in Seq(Byte) /\ Len(s) <= k
  BY DEF UpTo
<1>2. PICK n \in Nat : n = Len(s)
  BY <1>1, LengthIsNat
<1>3. n <= l
  BY <1>1, <1>2
<1>4. QED
  BY <1>1, <1>2, <1>3 DEF UpTo

(* What is left behind a message is shorter.                                 *)
LEMMA DrainedRest ==
  ASSUME NEW k \in Nat, NEW s \in UpTo(k), ~Failed(decode(s))
  PROVE  k # 0 /\ decode(s).rest \in UpTo(k - 1)
<1>1. s \in Seq(Byte) /\ Len(s) <= k
  BY DEF UpTo
<1>2. PICK r : r = decode(s).rest
  OBVIOUS
<1>3. r \in Seq(Byte) /\ Len(r) < Len(s)
  BY <1>1, <1>2, DecodeMoves
<1>4. PICK n \in Nat, m \in Nat : n = Len(s) /\ m = Len(r)
  BY <1>1, <1>3, LengthIsNat
<1>5. n <= k /\ m < n
  BY <1>1, <1>3, <1>4
<1>6. k # 0 /\ m <= k - 1
  BY <1>5
<1>7. QED
  BY <1>2, <1>3, <1>4, <1>6 DEF UpTo

(* Draining asks only for shorter buffers.                                   *)
LEMMA DrainedLocal ==
  ASSUME NEW k \in Nat, NEW s \in UpTo(k), NEW F, NEW G,
         \A x : k # 0 /\ x \in UpTo(k - 1) => F[x] = G[x]
  PROVE  Drained(s, F) = Drained(s, G)
<1>1. CASE Failed(decode(s))
  BY <1>1 DEF Drained
<1>2. CASE ~Failed(decode(s))
  <2>1. PICK r : r = decode(s).rest
    OBVIOUS
  <2>2. F[r] = G[r]
    BY <1>2, <2>1, DrainedRest
  <2>3. QED
    BY <1>2, <2>1, <2>2 DEF Drained
<1>3. QED
  BY <1>1, <1>2

(* Draining the buffers up to k bytes exists.                                *)
LEMMA DrainedUpTo ==
  ASSUME NEW k \in Nat
  PROVE  \E F : DrainedTo(k, F)
<1> DEFINE Bad == {j \in Nat : ~ \E F : DrainedTo(j, F)}
<1>1. SUFFICES ASSUME Bad # {}
               PROVE  FALSE
  OBVIOUS
<1>2. PICK j \in Bad : \A i \in Bad : j <= i
  BY <1>1, HasMin
<1>3. CASE j = 0
  <2> DEFINE F == [s \in UpTo(0) |-> Drained(s, <<>>)]
  <2>1. \A s \in UpTo(0) : Drained(s, <<>>) = Drained(s, F)
    <3> TAKE s \in UpTo(0)
    <3>1. PICK H : H = F
      OBVIOUS
    <3>2. Drained(s, <<>>) = Drained(s, H)
      BY DrainedLocal
    <3>3. QED
      BY <3>1, <3>2
  <2>2. F = [s \in UpTo(0) |-> Drained(s, F)]
    BY <2>1
  <2>3. DrainedTo(0, F)
    BY <2>2 DEF DrainedTo
  <2>4. QED
    BY <1>2, <1>3, <2>3
<1>4. CASE j # 0
  <2>1. PICK i \in Nat : j = i + 1
    <3>1. j - 1 \in Nat /\ j = (j - 1) + 1
      BY <1>2, <1>4
    <3>2. QED
      BY <3>1
  <2>2. i \notin Bad
    BY <1>2, <2>1
  <2>3. PICK F : DrainedTo(i, F)
    BY <2>2
  <2> DEFINE G == [s \in UpTo(i + 1) |-> Drained(s, F)]
  <2>4. \A x \in UpTo(i) : x \in UpTo(i + 1)
    BY UpToGrows
  <2>5. \A x \in UpTo(i) : F[x] = G[x]
    BY <2>3, <2>4 DEF DrainedTo
  <2>6. \A s \in UpTo(i + 1) : Drained(s, F) = Drained(s, G)
    <3> TAKE s \in UpTo(i + 1)
    <3>1. PICK H : H = G
      OBVIOUS
    <3>2. \A x : i + 1 # 0 /\ x \in UpTo((i + 1) - 1) => F[x] = H[x]
      <4>1. (i + 1) - 1 = i
        OBVIOUS
      <4>2. QED
        BY <2>5, <3>1, <4>1
    <3>3. i + 1 \in Nat
      OBVIOUS
    <3>4. Drained(s, F) = Drained(s, H)
      BY <3>2, <3>3, DrainedLocal
    <3>5. QED
      BY <3>1, <3>4
  <2>7. G = [s \in UpTo(i + 1) |-> Drained(s, G)]
    BY <2>6
  <2>8. DrainedTo(i + 1, G)
    BY <2>7 DEF DrainedTo
  <2>9. QED
    BY <1>2, <2>1, <2>8
<1>5. QED
  BY <1>3, <1>4

(* Two of them agree as far as both go.                                      *)
LEMMA DrainedAgree ==
  ASSUME NEW k \in Nat, NEW l \in Nat, NEW J, NEW K, DrainedTo(k, J), DrainedTo(l, K)
  PROVE  \A s : s \in UpTo(k) /\ s \in UpTo(l) => J[s] = K[s]
<1> DEFINE Apart(n) == \E s : s \in UpTo(k) /\ s \in UpTo(l) /\ Len(s) = n /\ J[s] # K[s]
           Bad == {n \in Nat : Apart(n)}
<1>1. SUFFICES ASSUME Bad # {}
               PROVE  FALSE
  <2>1. SUFFICES ASSUME NEW s, s \in UpTo(k) /\ s \in UpTo(l), J[s] # K[s]
                 PROVE  FALSE
    OBVIOUS
  <2>2. PICK n \in Nat : n = Len(s)
    BY <2>1, LengthIsNat DEF UpTo
  <2>3. n \in Bad
    BY <2>1, <2>2
  <2>4. QED
    BY <1>1, <2>3
<1>2. PICK n \in Bad : \A i \in Bad : n <= i
  BY <1>1, HasMin
<1>3. PICK s : s \in UpTo(k) /\ s \in UpTo(l) /\ Len(s) = n /\ J[s] # K[s]
  BY <1>2
<1>4. J[s] = Drained(s, J) /\ K[s] = Drained(s, K)
  BY <1>3 DEF DrainedTo
<1>5. n \in Nat /\ s \in UpTo(n)
  BY <1>2, <1>3 DEF UpTo
<1>6. \A x : n # 0 /\ x \in UpTo(n - 1) => J[x] = K[x]
  <2> TAKE x
  <2> HAVE n # 0 /\ x \in UpTo(n - 1)
  <2>1. n <= k /\ n <= l
    BY <1>3 DEF UpTo
  <2>2. n - 1 \in Nat /\ n - 1 <= k /\ n - 1 <= l /\ ~(n <= n - 1)
    BY <1>5, <2>1
  <2>3. x \in UpTo(k) /\ x \in UpTo(l)
    BY <2>2, UpToGrows
  <2>4. PICK m \in Nat : m = Len(x) /\ m <= n - 1
    BY LengthIsNat DEF UpTo
  <2>5. ~(n <= m)
    BY <1>5, <2>4
  <2>6. m \notin Bad
    BY <1>2, <2>5
  <2>7. QED
    BY <2>3, <2>4, <2>6
<1> HIDE DEF Bad
<1>7. Drained(s, J) = Drained(s, K)
  BY <1>5, <1>6, DrainedLocal
<1>8. QED
  BY <1>3, <1>4, <1>7

(* The recursive function of DecodeAll.                                      *)
Drain == CHOOSE F : F = [s \in Seq(Byte) |-> Drained(s, F)]

(* Draining is defined: it unfolds message by message.                       *)
LEMMA DrainUnfolds ==
  ASSUME NEW buf \in Seq(Byte)
  PROVE  Drain[buf] = Drained(buf, Drain)
<1> DEFINE At(k) == CHOOSE F : DrainedTo(k, F)
           All == [s \in Seq(Byte) |-> At(Len(s))[s]]
<1>1. \A k \in Nat : DrainedTo(k, At(k))
  BY DrainedUpTo
<1>2. \A s \in Seq(Byte) : All[s] = Drained(s, All)
  <2> TAKE s \in Seq(Byte)
  <2>1. PICK n \in Nat : n = Len(s)
    BY LengthIsNat
  <2>2. s \in UpTo(n) /\ DrainedTo(n, At(n))
    BY <1>1, <2>1 DEF UpTo
  <2>3. PICK J, A : J = At(n) /\ A = All
    OBVIOUS
  <2>4. All[s] = J[s] /\ J[s] = Drained(s, J)
    <3>1. All[s] = J[s]
      BY <2>1, <2>3
    <3>2. J[s] = Drained(s, J)
      BY <2>2, <2>3 DEF DrainedTo
    <3>3. QED
      BY <3>1, <3>2
  <2>5. \A x : n # 0 /\ x \in UpTo(n - 1) => J[x] = A[x]
    <3> TAKE x
    <3> HAVE n # 0 /\ x \in UpTo(n - 1)
    <3>1. x \in Seq(Byte) /\ n - 1 \in Nat /\ n - 1 <= n
      BY DEF UpTo
    <3>2. PICK m \in Nat : m = Len(x)
      BY <3>1, LengthIsNat
    <3>3. x \in UpTo(m) /\ x \in UpTo(n) /\ DrainedTo(m, At(m))
      BY <1>1, <3>1, <3>2, UpToGrows DEF UpTo
    <3>4. PICK K : K = At(m)
      OBVIOUS
    <3>5. J[x] = K[x]
      BY <2>2, <2>3, <3>3, <3>4, DrainedAgree
    <3>6. A[x] = K[x]
      BY <2>3, <3>1, <3>2, <3>4
    <3>7. QED
      BY <3>5, <3>6
  <2>6. Drained(s, J) = Drained(s, A)
    BY <2>2, <2>5, DrainedLocal
  <2>7. QED
    BY <2>3, <2>4, <2>6
<1>3. All = [s \in Seq(Byte) |-> All[s]]
  OBVIOUS
<1> HIDE DEF All
<1>4. All = [s \in Seq(Byte) |-> Drained(s, All)]
  BY <1>2, <1>3
<1>5. Drain = [s \in Seq(Byte) |-> Drained(s, Drain)]
  BY <1>4 DEF Drain
<1>6. QED
  BY <1>5

(* DecodeAll is draining.                                                    *)
LEMMA DecodeAllDrains ==
  ASSUME NEW buf
  PROVE  DecodeAll(buf) = Drain[buf]
BY DEF DecodeAll, Drain, Drained, Byte

(* A message at the front of the buffer, and the rest behind it.             *)
LEMMA DecodeAllStep ==
  ASSUME NEW buf \in Seq(Byte), NEW m, NEW rest, decode(buf) = Ok(m, rest)
  PROVE  /\ rest \in Seq(Byte)
         /\ DecodeAll(buf) = [DecodeAll(rest) EXCEPT !.msgs = <<m>> \o DecodeAll(rest).msgs]
<1>1. ~Failed(decode(buf)) /\ decode(buf).val = m /\ decode(buf).rest = rest
  BY AwaitedOk
<1>2. rest \in Seq(Byte)
  BY <1>1, DecodeMoves
<1>3. Drain[buf] = Drained(buf, Drain)
  BY DrainUnfolds
<1>4. DecodeAll(buf) = Drain[buf] /\ DecodeAll(rest) = Drain[rest]
  BY DecodeAllDrains
<1>5. QED
  BY <1>1, <1>2, <1>3, <1>4 DEF Drained

(* It ends at a buffer that does not decode.                                 *)
LEMMA DecodeAllEnd ==
  ASSUME NEW buf \in Seq(Byte), Failed(decode(buf))
  PROVE  DecodeAll(buf) = [msgs |-> <<>>, rest |-> buf, bad |-> decode(buf) # Incomplete]
<1>1. Drain[buf] = Drained(buf, Drain)
  BY DrainUnfolds
<1>2. DecodeAll(buf) = Drain[buf]
  BY DecodeAllDrains
<1>3. QED
  BY <1>1, <1>2 DEF Drained

(* A message whose payload the reader takes back.                            *)
Writable(m) ==
  /\ m.type \in DOMAIN MESSAGE_TAG
  /\ encode_payload(m) \in Seq(Byte)
  /\ Half31(Len(encode_payload(m)))
  /\ decode_payload(MESSAGE_TAG[m.type], encode_payload(m)) = Ok(m, <<>>)

(* encode writes a tag, a length and a payload the reader takes back.        *)
LEMMA FrameWritten ==
  ASSUME NEW m, Writable(m)
  PROVE  \E t \in 1..146, p \in Seq(Byte) :
            /\ p = encode_payload(m) /\ Half31(Len(p))
            /\ encode(m) = Framed(t, p)
            /\ decode_payload(t, p) = Ok(m, <<>>)
<1>1. PICK p : p = encode_payload(m)
  OBVIOUS
<1>2. PICK t : t = MESSAGE_TAG[m.type]
  OBVIOUS
<1>3. t \in 1..146
  BY <1>2, TagIsSmall DEF Writable
<1>4. p \in Seq(Byte) /\ Half31(Len(p)) /\ decode_payload(t, p) = Ok(m, <<>>)
  BY <1>1, <1>2 DEF Writable
<1>5. encode(m) = Framed(t, p)
  BY <1>1, <1>2, <1>3, <1>4, EncodeFrames
<1>6. QED
  BY <1>1, <1>3, <1>4, <1>5

(* A frame is bytes, and not none.                                           *)
LEMMA FramedBytes ==
  ASSUME NEW t \in 1..146, NEW p \in Seq(Byte), Half31(Len(p))
  PROVE  Framed(t, p) \in Seq(Byte) /\ Len(Framed(t, p)) # 0
<1>1. PICK n \in Nat : n = Len(p)
  BY LengthIsNat
<1>2. VarintOf(write_varint[t], t) /\ VarintOf(write_varint[n], n)
  BY <1>1, TagIsHalf, VarintWritten
<1>3. PICK u \in Seq(Byte), v \in Seq(Byte) : u = write_varint[t] /\ v = write_varint[n] /\ Len(u) \in 1..5
  BY <1>2, Zenon DEF VarintOf
<1>4. PICK y \in Seq(Byte) : y = v \o p
  BY Concat
<1>5. u \o y \in Seq(Byte) /\ Len(u \o y) = Len(u) + Len(y) /\ Len(y) \in Nat
  BY Concat
<1>6. PICK a \in 1..5, b \in Nat : a = Len(u) /\ b = Len(y)
  BY <1>3, <1>5
<1>7. a + b # 0
  OBVIOUS
<1>8. Framed(t, p) = u \o y
  BY <1>1, <1>3, <1>4 DEF Framed
<1>9. QED
  BY <1>5, <1>6, <1>7, <1>8

(* So is an encoded message.                                                 *)
LEMMA FrameBytes ==
  ASSUME NEW m, Writable(m)
  PROVE  encode(m) \in Seq(Byte) /\ Len(encode(m)) # 0
BY FrameWritten, FramedBytes

(* A whole frame is read back whatever follows, or refused for its length.   *)
LEMMA FrameRead ==
  ASSUME NEW m, Writable(m), NEW rest \in Seq(Byte)
  PROVE  decode(encode(m) \o rest) = IF Fits(m) THEN Ok(m, rest) ELSE Err("MessageTooLarge")
<1>1. PICK t \in 1..146, p \in Seq(Byte) :
        /\ p = encode_payload(m) /\ Half31(Len(p))
        /\ encode(m) = Framed(t, p)
        /\ decode_payload(t, p) = Ok(m, <<>>)
  BY FrameWritten
<1>2. decode(Framed(t, p) \o rest) =
           IF Len(p) > MaxMessage THEN Err("MessageTooLarge")
           ELSE IF Failed(decode_payload(t, p)) THEN decode_payload(t, p)
           ELSE Ok(decode_payload(t, p).val, rest)
  BY <1>1, DecodeFrame
<1>3. ~Failed(Ok(m, <<>>)) /\ Ok(m, <<>>).val = m
  BY AwaitedOk
<1>4. PICK n \in Nat : n = Len(p)
  BY LengthIsNat
<1>5. Fits(m) <=> ~(n > MaxMessage)
  <2>1. Fits(m) <=> n <= MaxMessage
    BY <1>1, <1>4 DEF Fits
  <2>2. MaxMessage \in Nat
    BY LimitIsNat
  <2>3. QED
    BY <2>1, <2>2
<1>6. QED
  BY <1>1, <1>2, <1>3, <1>4, <1>5

(* A frame cut anywhere is waited for, or refused for its length.            *)
LEMMA FrameCut ==
  ASSUME NEW m, Writable(m), NEW b, CutOf(b, encode(m))
  PROVE  \/ decode(b) = Incomplete
         \/ ~Fits(m) /\ decode(b) = Err("MessageTooLarge")
<1>1. PICK t \in 1..146, p \in Seq(Byte) :
        /\ p = encode_payload(m) /\ Half31(Len(p))
        /\ encode(m) = Framed(t, p)
        /\ decode_payload(t, p) = Ok(m, <<>>)
  BY FrameWritten
<1>2. \/ decode(b) = Incomplete
      \/ Len(p) > MaxMessage /\ decode(b) = Err("MessageTooLarge")
  BY <1>1, DecodeCut
<1>3. PICK n \in Nat : n = Len(p)
  BY LengthIsNat
<1>4. n > MaxMessage => ~Fits(m)
  <2>1. Fits(m) <=> n <= MaxMessage
    BY <1>1, <1>3 DEF Fits
  <2>2. MaxMessage \in Nat
    BY LimitIsNat
  <2>3. QED
    BY <2>1, <2>2
<1>5. QED
  BY <1>2, <1>3, <1>4

(* An empty buffer is waited for.                                            *)
LEMMA NothingIncomplete == decode(<<>>) = Incomplete
<1>1. PICK e \in Seq(Byte) : e = <<>> /\ Len(e) = 0
  <2>1. <<>> \in Seq(Byte)
    OBVIOUS
  <2>2. Len(<<>>) = 0
    OBVIOUS
  <2>3. QED
    BY <2>1, <2>2
<1>2. 1 \in 1..146 /\ Half31(Len(e))
  <2>1. Half31(0)
    BY SMT DEF Half31
  <2>2. QED
    BY <1>1, <2>1
<1>3. PICK f : f = Framed(1, e)
  OBVIOUS
<1>4. f \in Seq(Byte) /\ Len(f) # 0
  BY <1>2, <1>3, FramedBytes
<1>5. CutOf(e, f)
  <2>1. PICK l \in Nat : l = Len(f)
    BY <1>4, LengthIsNat
  <2>2. 0 < l
    BY <1>4, <2>1
  <2>3. \A i \in 1..0 : e[i] = f[i]
    OBVIOUS
  <2>4. QED
    BY <1>1, <1>4, <2>1, <2>2, <2>3 DEF CutOf
<1>6. decode(e) = Incomplete \/ Len(e) > MaxMessage
  BY <1>2, <1>3, <1>5, DecodeCut
<1>7. ~(0 > MaxMessage)
  BY LimitIsNat
<1>8. QED
  BY <1>1, <1>6, <1>7

(* What two sequences share is what comes first in both.                     *)
LEMMA Cancel ==
  ASSUME NEW a \in Seq(Byte), NEW b \in Seq(Byte), NEW c \in Seq(Byte), a \o b = a \o c
  PROVE  b = c
<1>1. SubSeq(a \o b, Len(a) + 1, Len(a \o b)) = b
  BY Parts
<1>2. SubSeq(a \o c, Len(a) + 1, Len(a \o c)) = c
  BY Parts
<1>3. QED
  BY <1>1, <1>2

Same(b, x, f, y) == b \o x = f \o y
Whole(b, x, f, y) == \E c \in Seq(Byte) : b = f \o c /\ c \o x = y

Leads(b, s) == \A i \in 1..Len(b) : s[i] = b[i]

(* A concatenation starts with its first part.                               *)
LEMMA Leading ==
  ASSUME NEW M, NEW b \in Seq(M), NEW x \in Seq(M)
  PROVE  Leads(b, b \o x)
BY ConcatSeqs DEF Leads

(* A buffer at the front of a stream holds its first frame or a cut of it.   *)
LEMMA CutOrWhole ==
  ASSUME NEW b \in Seq(Byte), NEW x \in Seq(Byte), NEW f \in Seq(Byte), NEW y \in Seq(Byte),
         Same(b, x, f, y)
  PROVE  CutOf(b, f) \/ Whole(b, x, f, y)
<1>0. b \o x = f \o y
  BY DEF Same
<1>1. PICK s : s = b \o x /\ s = f \o y
  BY <1>0
<1>2. PICK k \in Nat, l \in Nat, m \in Nat, n \in Nat : k = Len(b) /\ l = Len(x) /\ m = Len(f) /\ n = Len(y)
  BY Concat
<1>3. \A i \in 1..k : s[i] = b[i]
  <2>1. Leads(b, b \o x)
    BY Leading
  <2>2. QED
    BY <1>1, <1>2, <2>1 DEF Leads
<1>4. \A i \in 1..m : s[i] = f[i]
  <2>1. Leads(f, f \o y)
    BY Leading
  <2>2. QED
    BY <1>1, <1>2, <2>1 DEF Leads
<1>5. CASE k < m
  <2>1. \A i \in 1..k : b[i] = f[i]
    <3> TAKE i \in 1..k
    <3>1. i \in 1..m
      BY <1>5
    <3>2. QED
      BY <1>3, <1>4, <3>1
  <2>2. QED
    BY <1>2, <1>5, <2>1 DEF CutOf
<1>6. CASE ~(k < m)
  <2>1. m <= k
    BY <1>6
  <2>2. PICK h, c : h = SubSeq(b, 1, m) /\ c = SubSeq(b, m + 1, k)
    OBVIOUS
  <2>3. h \in Seq(Byte) /\ Len(h) = m /\ \A i \in 1..m : h[i] = b[i]
    BY <1>2, <2>1, <2>2, FirstB
  <2>4. c \in Seq(Byte)
    BY <1>2, <2>1, <2>2, SliceB
  <2>5. h = f
    <3>1. \A i \in 1..m : h[i] = f[i]
      <4> TAKE i \in 1..m
      <4>1. i \in 1..k
        BY <2>1
      <4>2. QED
        BY <1>3, <1>4, <2>3, <4>1
    <3>2. QED
      BY <1>2, <2>3, <3>1, SameBytes
  <2>6. b = f \o c
    <3>1. SubSeq(b, 1, m) \o SubSeq(b, m + 1, k) = SubSeq(b, 1, k)
      <4>1. m <= k /\ k <= Len(b)
        BY <1>2, <2>1
      <4>2. QED
        BY <4>1, SliceJoin
    <3>2. SubSeq(b, 1, k) = b
      BY <1>2
    <3>3. QED
      BY <2>2, <2>5, <3>1, <3>2
  <2>7. f \o (c \o x) = f \o y
    <3>1. Regroups(f, c, x)
      BY <2>4, Regrouped
    <3>2. QED
      BY <1>0, <2>6, <3>1 DEF Regroups
  <2>8. c \o x = y
    <3>1. c \o x \in Seq(Byte)
      BY <2>4, Concat
    <3>2. QED
      BY <2>7, <3>1, Cancel
  <2>9. QED
    BY <2>4, <2>6, <2>8 DEF Whole
<1>7. QED
  BY <1>5, <1>6

----------------------------------------------------------------------------
(***************************************************************************)
(* Streams: what a connection holds while messages are sent and read.      *)
(***************************************************************************)

(* The bytes of the first messages of s.                                     *)
Stream(s) == Joined([i \in 1..Len(s) |-> encode(s[i])])

(* Every message of s can be read back.                                      *)
AllWritable(s) == \A i \in 1..Len(s) : Writable(s[i])

(* a is what follows the first k messages, up to the n-th.                   *)
Ahead(s, k, n, a) == a \in Seq(Byte) /\ Stream(s)[n] = Stream(s)[k] \o a

(* The bytes of a message more.                                              *)
LEMMA StreamStep ==
  ASSUME NEW s, Len(s) \in Nat
  PROVE  /\ Stream(s)[0] = <<>>
         /\ \A n \in Nat : n + 1 <= Len(s) => Stream(s)[n + 1] = Stream(s)[n] \o encode(s[n + 1])
<1>1. PICK P : P = [i \in 1..Len(s) |-> encode(s[i])]
  OBVIOUS
<1>2. PICK T : T = Stream(s)
  OBVIOUS
<1>3. T[0] = <<>> /\ \A n \in Nat : T[n + 1] = T[n] \o P[n + 1]
  BY <1>1, <1>2, JoinedUnfolds DEF Stream
<1>4. \A n \in Nat : n + 1 <= Len(s) => P[n + 1] = encode(s[n + 1])
  BY <1>1
<1>5. QED
  BY <1>2, <1>3, <1>4

(* A stream is bytes.                                                        *)
LEMMA StreamBytes ==
  ASSUME NEW s, Len(s) \in Nat, AllWritable(s)
  PROVE  \A n \in 0..Len(s) : Stream(s)[n] \in Seq(Byte)
<1>1. PICK P : P = [i \in 1..Len(s) |-> encode(s[i])]
  OBVIOUS
<1>2. \A i \in 1..Len(s) : P[i] \in Seq(Byte)
  BY <1>1, FrameBytes DEF AllWritable
<1>3. \A n \in 0..Len(s) : Joined(P)[n] \in Seq(Byte)
  BY <1>2, JoinedSeq
<1>4. QED
  BY <1>1, <1>3 DEF Stream

(* Something is ahead of every message.                                      *)
LEMMA AheadExists ==
  ASSUME NEW s, Len(s) \in Nat, AllWritable(s), NEW k \in 0..Len(s), NEW n \in k..Len(s)
  PROVE  \E a : Ahead(s, k, n, a)
<1> DEFINE Bad == {m \in k..Len(s) : ~ \E a : Ahead(s, k, m, a)}
<1>1. SUFFICES ASSUME Bad # {}
               PROVE  FALSE
  OBVIOUS
<1>2. Bad \in SUBSET Nat
  OBVIOUS
<1>3. PICK m \in Bad : \A i \in Bad : m <= i
  BY <1>1, <1>2, HasMin
<1>4. m \in k..Len(s) /\ ~ \E a : Ahead(s, k, m, a)
  BY <1>3
<1>5. PICK T : T = Stream(s)
  OBVIOUS
<1>6. CASE m = k
  <2>1. T[k] \in Seq(Byte)
    BY <1>5, StreamBytes
  <2>2. T[k] = T[k] \o <<>>
    BY <2>1
  <2>3. <<>> \in Seq(Byte)
    OBVIOUS
  <2>4. Ahead(s, k, k, <<>>)
    BY <1>5, <2>2, <2>3 DEF Ahead
  <2>5. QED
    BY <1>4, <1>6, <2>4
<1>7. CASE m # k
  <2>1. PICK i \in Nat : m = i + 1 /\ i \in k..Len(s) /\ ~(m <= i) /\ i + 1 \in 1..Len(s) /\ i + 1 <= Len(s)
    <3>1. m - 1 \in Nat /\ m = (m - 1) + 1 /\ m - 1 \in k..Len(s) /\ ~(m <= m - 1)
          /\ (m - 1) + 1 \in 1..Len(s) /\ (m - 1) + 1 <= Len(s)
      BY <1>4, <1>7
    <3>2. QED
      BY <3>1
  <2>2. PICK a : Ahead(s, k, i, a)
    BY <1>3, <2>1
  <2>3. PICK e \in Seq(Byte) : e = encode(s[i + 1])
    BY <2>1, FrameBytes DEF AllWritable
  <2>4. T[i + 1] = T[i] \o e
    BY <1>5, <2>1, <2>3, StreamStep
  <2>5. a \in Seq(Byte) /\ T[i] = T[k] \o a /\ T[k] \in Seq(Byte)
    BY <1>5, <2>2, StreamBytes DEF Ahead
  <2>6. Regroups(T[k], a, e)
    BY <2>5, Regrouped
  <2>7. a \o e \in Seq(Byte)
    BY <2>5, Concat
  <2>8. Ahead(s, k, i + 1, a \o e)
    BY <1>5, <2>4, <2>5, <2>6, <2>7 DEF Ahead, Regroups
  <2>9. QED
    BY <1>4, <2>1, <2>8
<1>8. QED
  BY <1>6, <1>7

(* And only one thing.                                                       *)
LEMMA AheadIs ==
  ASSUME NEW s, NEW k, NEW n, NEW a, NEW b, Stream(s)[k] \in Seq(Byte),
         Ahead(s, k, n, a), Ahead(s, k, n, b)
  PROVE  a = b
<1>1. PICK t \in Seq(Byte) : t = Stream(s)[k]
  OBVIOUS
<1>2. a \in Seq(Byte) /\ b \in Seq(Byte) /\ t \o a = t \o b
  BY <1>1 DEF Ahead
<1>3. QED
  BY <1>2, Cancel

StepsTo(s, k, n, a) == \E c \in Seq(Byte) : Ahead(s, k + 1, n, c) /\ a = encode(s[k + 1]) \o c

(* The next message comes first of what is ahead.                            *)
LEMMA AheadStep ==
  ASSUME NEW s, Len(s) \in Nat, AllWritable(s), NEW n \in 0..Len(s), NEW k \in Nat, k < n,
         NEW a, Ahead(s, k, n, a)
  PROVE  StepsTo(s, k, n, a)
<1>1. k \in 0..Len(s) /\ k + 1 \in 0..Len(s) /\ k + 1 \in 1..Len(s) /\ n \in (k + 1)..Len(s)
      /\ k + 1 <= Len(s)
  OBVIOUS
<1>2. PICK c : Ahead(s, k + 1, n, c)
  BY <1>1, AheadExists
<1>3. PICK T : T = Stream(s)
  OBVIOUS
<1>4. PICK e \in Seq(Byte) : e = encode(s[k + 1])
  BY <1>1, FrameBytes DEF AllWritable
<1>5. T[k + 1] = T[k] \o e
  BY <1>1, <1>3, <1>4, StreamStep
<1>6. T[k] \in Seq(Byte) /\ c \in Seq(Byte) /\ T[n] = T[k + 1] \o c
  BY <1>1, <1>2, <1>3, StreamBytes DEF Ahead
<1>7. Regroups(T[k], e, c)
  BY <1>6, Regrouped
<1>8. e \o c \in Seq(Byte)
  BY <1>6, Concat
<1>9. Ahead(s, k, n, e \o c)
  BY <1>3, <1>5, <1>6, <1>7, <1>8 DEF Ahead, Regroups
<1>10. a = e \o c
  BY <1>3, <1>6, <1>9, AheadIs
<1>11. QED
  BY <1>2, <1>4, <1>6, <1>10 DEF StepsTo

(* DecodeAll takes the messages up to the j-th out of b and leaves c, because
   the next is not all there, or too large to be taken.                      *)
DrainsTo(s, k, j, n, b, x, c) ==
  /\ DecodeAll(b) = [msgs |-> SubSeq(s, k + 1, j), rest |-> c, bad |-> decode(c) # Incomplete]
  /\ Ahead(s, j, n, c \o x)
  /\ \A i \in (k + 1)..j : Fits(s[i])
  /\ Failed(decode(c))
  /\ decode(c) # Incomplete => j < n /\ ~Fits(s[j + 1])

(* So it is of every buffer that holds the messages from the k-th on.        *)
DrainsFrom(s, k, n) ==
  \A b, x \in Seq(Byte) : Ahead(s, k, n, b \o x) =>
     \E j \in k..n, c \in Seq(Byte) : DrainsTo(s, k, j, n, b, x, c)

(* A buffer that does not decode gives no message.                           *)
LEMMA NoneTaken ==
  ASSUME NEW M, NEW s \in Seq(M), NEW k \in Nat, NEW n \in Nat, k <= n, NEW b \in Seq(Byte),
         NEW x \in Seq(Byte), Ahead(s, k, n, b \o x),
         Failed(decode(b)), decode(b) # Incomplete => k < n /\ ~Fits(s[k + 1])
  PROVE  DrainsTo(s, k, k, n, b, x, b)
<1>1. DecodeAll(b) = [msgs |-> <<>>, rest |-> b, bad |-> decode(b) # Incomplete]
  BY DecodeAllEnd
<1>2. SubSeq(s, k + 1, k) = <<>>
  OBVIOUS
<1>3. \A i \in (k + 1)..k : Fits(s[i])
  OBVIOUS
<1>4. QED
  BY <1>1, <1>2, <1>3 DEF DrainsTo

(* With nothing ahead nothing is taken.                                      *)
LEMMA DrainsEnd ==
  ASSUME NEW M, NEW s \in Seq(M), AllWritable(s), NEW n \in 0..Len(s)
  PROVE  DrainsFrom(s, n, n)
<1>1. SUFFICES ASSUME NEW b \in Seq(Byte), NEW x \in Seq(Byte), Ahead(s, n, n, b \o x)
               PROVE  \E j \in n..n, c \in Seq(Byte) : DrainsTo(s, n, j, n, b, x, c)
  BY DEF DrainsFrom
<1>2. Stream(s)[n] \in Seq(Byte)
  BY StreamBytes, LengthIsNat
<1>3. PICK t \in Seq(Byte) : t = Stream(s)[n]
  BY <1>2
<1>4. PICK y \in Seq(Byte) : y = b \o x /\ t = t \o y
  BY <1>1, <1>3 DEF Ahead
<1>5. PICK k \in Nat, l \in Nat, m \in Nat : k = Len(b) /\ l = Len(y) /\ m = Len(t)
  BY Concat
<1>6. m = m + l
  BY <1>4, <1>5, Concat
<1>7. l = k + Len(x) /\ Len(x) \in Nat
  BY <1>4, <1>5, Concat
<1>8. k = 0
  BY <1>6, <1>7
<1>9. b = <<>>
  BY <1>5, <1>8, EmptyIsEmpty
<1>10. decode(b) = Incomplete
  BY <1>9, NothingIncomplete
<1>11. n \in Nat /\ n <= n /\ n \in n..n
  OBVIOUS
<1>12. DrainsTo(s, n, n, n, b, x, b)
  BY <1>1, <1>10, <1>11, AwaitedCut, NoneTaken
<1>13. QED
  BY <1>11, <1>12

(* Two sequences that agree everywhere are one.                              *)
LEMMA SameItems ==
  ASSUME NEW M, NEW v \in Seq(M), NEW w \in Seq(M), Len(v) = Len(w),
         \A k \in 1..Len(v) : v[k] = w[k]
  PROVE  v = w
OBVIOUS

Trails(u, v) == \A i \in 1..Len(v) : (u \o v)[Len(u) + i] = v[i]

(* A concatenation ends with its second part.                                *)
LEMMA Trailing ==
  ASSUME NEW M, NEW u \in Seq(M), NEW v \in Seq(M)
  PROVE  Trails(u, v)
BY ConcatSeqs DEF Trails

(* An item and the items behind it are a slice.                              *)
LEMMA HeadSlice ==
  ASSUME NEW M, NEW s \in Seq(M), NEW k \in Nat, NEW j \in Nat, k + 1 <= j, j <= Len(s)
  PROVE  <<s[k + 1]>> \o SubSeq(s, k + 2, j) = SubSeq(s, k + 1, j)
<1>1. PICK u, v, w : u = <<s[k + 1]>> /\ v = SubSeq(s, k + 2, j) /\ w = SubSeq(s, k + 1, j)
  OBVIOUS
<1>2. s[k + 1] \in M
  OBVIOUS
<1>3. u \in Seq(M) /\ Len(u) = 1 /\ u[1] = s[k + 1]
  BY <1>1, <1>2
<1>4. v \in Seq(M) /\ Len(v) = j - (k + 1)
  BY <1>1
<1>5. w \in Seq(M) /\ Len(w) = j - k
  BY <1>1
<1>6. \A i \in 1..(j - (k + 1)) : v[i] = s[k + 1 + i]
  BY <1>1
<1>7. \A i \in 1..(j - k) : w[i] = s[k + i]
  BY <1>1
<1>8. PICK h \in Seq(M) : h = u \o v
  BY <1>3, <1>4, ConcatSeqs
<1>9. /\ Len(h) = j - k
      /\ \A i \in 1..1 : h[i] = u[i]
      /\ \A i \in 1..(j - (k + 1)) : h[1 + i] = v[i]
  <2>1. PICK l \in Nat : l = j - (k + 1) /\ l = Len(v)
    BY <1>4
  <2>2. Len(u \o v) = Len(u) + Len(v)
    BY <1>3, <1>4, ConcatSeqs
  <2>3. \A i \in 1..Len(u) : (u \o v)[i] = u[i]
    BY <1>3, <1>4, ConcatSeqs
  <2>4. \A i \in 1..Len(v) : (u \o v)[Len(u) + i] = v[i]
    <3>1. Trails(u, v)
      BY <1>3, <1>4, Trailing
    <3>2. QED
      BY <3>1 DEF Trails
  <2>5. Len(h) = 1 + l /\ \A i \in 1..l : h[1 + i] = v[i]
    BY <1>3, <1>8, <2>1, <2>2, <2>4
  <2>6. \A i \in 1..1 : h[i] = u[i]
    BY <1>3, <1>8, <2>3
  <2>7. 1 + l = j - k
    BY <2>1
  <2>8. QED
    BY <2>1, <2>5, <2>6, <2>7
<1>10. \A i \in 1..(j - k) : h[i] = w[i]
  <2> TAKE i \in 1..(j - k)
  <2>1. CASE i = 1
    <3>1. h[1] = u[1]
      BY <1>9
    <3>2. w[1] = s[k + 1]
      BY <1>7, <2>1
    <3>3. QED
      BY <1>3, <2>1, <3>1, <3>2
  <2>2. CASE i # 1
    <3>1. i - 1 \in 1..(j - (k + 1)) /\ k + 1 + (i - 1) = k + i
      BY <2>2
    <3>2. h[i] = v[i - 1]
      <4>1. 1 + (i - 1) = i
        OBVIOUS
      <4>2. QED
        BY <1>9, <3>1, <4>1
    <3>3. v[i - 1] = s[k + i]
      BY <1>6, <3>1
    <3>4. QED
      BY <1>7, <3>2, <3>3
  <2>3. QED
    BY <2>1, <2>2
<1>11. h = w
  <2>1. PICK l \in Nat : l = j - k
    OBVIOUS
  <2>2. Len(h) = l /\ Len(w) = l /\ \A i \in 1..l : h[i] = w[i]
    BY <1>5, <1>9, <1>10, <2>1
  <2>3. QED
    BY <1>5, <1>8, <2>2, SameItems
<1>12. QED
  BY <1>1, <1>8, <1>11

(* Draining from a message, from draining behind it.                         *)
LEMMA DrainsBack ==
  ASSUME NEW M, NEW s \in Seq(M), AllWritable(s), NEW n \in 0..Len(s), NEW k \in Nat, k < n,
         DrainsFrom(s, k + 1, n)
  PROVE  DrainsFrom(s, k, n)
<1>1. SUFFICES ASSUME NEW b \in Seq(Byte), NEW x \in Seq(Byte), Ahead(s, k, n, b \o x)
               PROVE  \E j \in k..n, c \in Seq(Byte) : DrainsTo(s, k, j, n, b, x, c)
  BY DEF DrainsFrom
<1>2. Len(s) \in Nat
  BY LengthIsNat
<1>3. PICK m, e : m = s[k + 1] /\ e = encode(m)
  OBVIOUS
<1>4. Writable(m) /\ e \in Seq(Byte)
  <2>1. k + 1 \in 1..Len(s)
    BY <1>2
  <2>2. Writable(m)
    BY <1>3, <2>1 DEF AllWritable
  <2>3. QED
    BY <1>3, <2>2, FrameBytes
<1>5. PICK y \in Seq(Byte) : Ahead(s, k + 1, n, y) /\ Same(b, x, e, y)
  <2>1. PICK a : a = b \o x
    OBVIOUS
  <2>2. Ahead(s, k, n, a)
    BY <1>1, <2>1
  <2>3. PICK y \in Seq(Byte) : Ahead(s, k + 1, n, y) /\ a = encode(s[k + 1]) \o y
    <3>1. StepsTo(s, k, n, a)
      BY <1>2, <2>2, AheadStep
    <3>2. QED
      BY <3>1 DEF StepsTo
  <2>4. QED
    BY <1>3, <2>1, <2>3 DEF Same
<1>6. k \in k..n /\ k + 1 \in Nat /\ k <= n
  BY <1>2
<1>7. CutOf(b, e) \/ Whole(b, x, e, y)
  BY <1>4, <1>5, CutOrWhole
<1>8. CASE CutOf(b, e)
  <2>1. decode(b) = Incomplete \/ (~Fits(m) /\ decode(b) = Err("MessageTooLarge"))
    BY <1>3, <1>4, <1>8, FrameCut
  <2>2. Failed(decode(b)) /\ (decode(b) # Incomplete => ~Fits(m))
    BY <2>1, AwaitedCut
  <2>3. DrainsTo(s, k, k, n, b, x, b)
    BY <1>1, <1>3, <1>6, <2>2, NoneTaken
  <2>4. QED
    BY <1>6, <2>3
<1>9. CASE Whole(b, x, e, y)
  <2>1. PICK c \in Seq(Byte) : b = e \o c /\ c \o x = y
    BY <1>9 DEF Whole
  <2>2. decode(b) = IF Fits(m) THEN Ok(m, c) ELSE Err("MessageTooLarge")
    BY <1>3, <1>4, <2>1, FrameRead
  <2>3. CASE ~Fits(m)
    <3>1. Failed(decode(b))
      BY <2>2, <2>3, AwaitedCut
    <3>2. DrainsTo(s, k, k, n, b, x, b)
      BY <1>1, <1>3, <1>6, <2>3, <3>1, NoneTaken
    <3>3. QED
      BY <1>6, <3>2
  <2>4. CASE Fits(m)
    <3>1. DecodeAll(b) = [DecodeAll(c) EXCEPT !.msgs = <<m>> \o DecodeAll(c).msgs]
      BY <2>2, <2>4, DecodeAllStep
    <3>2. Ahead(s, k + 1, n, c \o x)
      BY <1>5, <2>1
    <3>3. PICK j \in (k + 1)..n, d \in Seq(Byte) : DrainsTo(s, k + 1, j, n, c, x, d)
      BY <3>2 DEF DrainsFrom
    <3>4. /\ DecodeAll(c) = [msgs |-> SubSeq(s, (k + 1) + 1, j), rest |-> d, bad |-> decode(d) # Incomplete]
          /\ Ahead(s, j, n, d \o x)
          /\ \A i \in ((k + 1) + 1)..j : Fits(s[i])
          /\ Failed(decode(d))
          /\ decode(d) # Incomplete => j < n /\ ~Fits(s[j + 1])
      BY <3>3 DEF DrainsTo
    <3>5. <<m>> \o SubSeq(s, k + 2, j) = SubSeq(s, k + 1, j)
      <4>1. j \in Nat /\ k + 1 <= j /\ j <= Len(s)
        BY <1>2
      <4>2. QED
        BY <1>3, <4>1, HeadSlice
    <3>6. DecodeAll(b) = [msgs |-> SubSeq(s, k + 1, j), rest |-> d, bad |-> decode(d) # Incomplete]
      <4>1. (k + 1) + 1 = k + 2
        OBVIOUS
      <4>2. PICK q, z, B : q = SubSeq(s, k + 2, j) /\ z = <<m>> \o q /\ B = (decode(d) # Incomplete)
        OBVIOUS
      <4>3. DecodeAll(c) = [msgs |-> q, rest |-> d, bad |-> B]
        BY <3>4, <4>1, <4>2
      <4>4. DecodeAll(b) = [[msgs |-> q, rest |-> d, bad |-> B] EXCEPT !.msgs = z]
        <5>1. PICK D : D = DecodeAll(c)
          OBVIOUS
        <5>2. D.msgs = q
          BY <4>3, <5>1
        <5>3. QED
          BY <3>1, <4>2, <4>3, <5>1, <5>2
      <4>5. [[msgs |-> q, rest |-> d, bad |-> B] EXCEPT !.msgs = z] = [msgs |-> z, rest |-> d, bad |-> B]
        OBVIOUS
      <4>6. z = SubSeq(s, k + 1, j)
        BY <3>5, <4>2
      <4>7. QED
        BY <4>2, <4>4, <4>5, <4>6
    <3>7. \A i \in (k + 1)..j : Fits(s[i])
      <4> TAKE i \in (k + 1)..j
      <4>1. CASE i = k + 1
        BY <1>3, <2>4, <4>1
      <4>2. CASE i # k + 1
        <5>1. i \in ((k + 1) + 1)..j
          BY <4>2
        <5>2. QED
          BY <3>4, <5>1
      <4>3. QED
        BY <4>1, <4>2
    <3>8. DrainsTo(s, k, j, n, b, x, d)
      BY <3>4, <3>6, <3>7 DEF DrainsTo
    <3>9. j \in k..n
      OBVIOUS
    <3>10. QED
      BY <3>8, <3>9
  <2>5. QED
    BY <2>3, <2>4
<1>10. QED
  BY <1>7, <1>8, <1>9

(* Draining takes all the messages that are whole and may be read.           *)
LEMMA Drains ==
  ASSUME NEW M, NEW s \in Seq(M), AllWritable(s), NEW n \in 0..Len(s), NEW k \in 0..n
  PROVE  DrainsFrom(s, k, n)
<1> DEFINE Bad == {d \in 0..n : ~DrainsFrom(s, n - d, n)}
<1>1. SUFFICES Bad = {}
  <2>1. n - k \in 0..n /\ n - (n - k) = k
    BY LengthIsNat
  <2>2. QED
    BY <1>1, <2>1
<1>2. SUFFICES ASSUME Bad # {}
               PROVE  FALSE
  OBVIOUS
<1>3. Bad \in SUBSET Nat
  BY LengthIsNat
<1>4. PICK d \in Bad : \A i \in Bad : d <= i
  BY <1>2, <1>3, HasMin
<1>5. d \in 0..n /\ ~DrainsFrom(s, n - d, n)
  BY <1>4
<1>6. CASE d = 0
  <2>1. n - 0 = n
    BY LengthIsNat
  <2>2. DrainsFrom(s, n, n)
    BY DrainsEnd
  <2>3. QED
    BY <1>5, <1>6, <2>1, <2>2
<1>7. CASE d # 0
  <2>1. d - 1 \in 0..n /\ ~(d <= d - 1) /\ n - (d - 1) = (n - d) + 1 /\ n - d \in Nat /\ n - d < n
    BY <1>5, <1>7, LengthIsNat
  <2>2. DrainsFrom(s, n - (d - 1), n)
    BY <1>4, <2>1
  <2>3. DrainsFrom(s, n - d, n)
    <3>1. PICK l : l = n - d
      OBVIOUS
    <3>2. l \in Nat /\ l < n /\ DrainsFrom(s, l + 1, n)
      BY <2>1, <2>2, <3>1
    <3>3. DrainsFrom(s, l, n)
      BY <3>2, DrainsBack
    <3>4. QED
      BY <3>1, <3>3
  <2>4. QED
    BY <1>5, <2>3
<1>8. QED
  BY <1>6, <1>7

(* A buffer at which decoding stopped holds less than the next message, if
   that may be read.                                                         *)
LEMMA HoldsNoMessage ==
  ASSUME NEW M, NEW s \in Seq(M), AllWritable(s), NEW n \in 0..Len(s), NEW k \in 0..n,
         NEW b \in Seq(Byte), NEW x \in Seq(Byte), Ahead(s, k, n, b \o x), Failed(decode(b)),
         k < Len(s), Fits(s[k + 1])
  PROVE  Len(b) < Len(encode(s[k + 1]))
<1>1. Len(s) \in Nat /\ k \in Nat /\ n \in Nat
  BY LengthIsNat
<1>2. PICK m, e : m = s[k + 1] /\ e = encode(m)
  OBVIOUS
<1>3. Writable(m) /\ e \in Seq(Byte) /\ Len(e) # 0
  <2>1. k + 1 \in 1..Len(s)
    BY <1>1
  <2>2. Writable(m)
    BY <1>2, <2>1 DEF AllWritable
  <2>3. QED
    BY <1>2, <2>2, FrameBytes
<1>4. CASE k < n
  <2>1. PICK y \in Seq(Byte) : Ahead(s, k + 1, n, y) /\ Same(b, x, e, y)
    <3>1. PICK a : a = b \o x
      OBVIOUS
    <3>2. Ahead(s, k, n, a)
      BY <3>1
    <3>3. PICK y \in Seq(Byte) : Ahead(s, k + 1, n, y) /\ a = encode(s[k + 1]) \o y
      <4>1. StepsTo(s, k, n, a)
        BY <1>1, <1>4, <3>2, AheadStep
      <4>2. QED
        BY <4>1 DEF StepsTo
    <3>4. QED
      BY <1>2, <3>1, <3>3 DEF Same
  <2>2. CutOf(b, e) \/ Whole(b, x, e, y)
    BY <1>3, <2>1, CutOrWhole
  <2>3. CASE CutOf(b, e)
    BY <1>2, <2>3 DEF CutOf
  <2>4. CASE Whole(b, x, e, y)
    <3>1. PICK c \in Seq(Byte) : b = e \o c
      BY <2>4 DEF Whole
    <3>2. decode(b) = Ok(m, c)
      BY <1>2, <1>3, <3>1, FrameRead
    <3>3. QED
      BY <3>2, AwaitedOk
  <2>5. QED
    BY <2>2, <2>3, <2>4
<1>5. CASE ~(k < n)
  <2>1. k = n
    BY <1>1, <1>5
  <2>2. Stream(s)[n] \in Seq(Byte)
    BY <1>1, StreamBytes
  <2>3. PICK t \in Seq(Byte) : t = Stream(s)[n]
    BY <2>2
  <2>4. PICK y \in Seq(Byte) : y = b \o x /\ t = t \o y
    BY <2>1, <2>3 DEF Ahead
  <2>5. PICK i \in Nat, l \in Nat, q \in Nat : i = Len(b) /\ l = Len(y) /\ q = Len(t)
    BY Concat
  <2>6. q = q + l
    BY <2>4, <2>5, Concat
  <2>7. l = i + Len(x) /\ Len(x) \in Nat
    BY <2>4, <2>5, Concat
  <2>8. i = 0
    BY <2>6, <2>7
  <2>9. PICK z \in Nat : z = Len(e)
    BY <1>3, LengthIsNat
  <2>10. 0 < z
    BY <1>3, <2>9
  <2>11. QED
    BY <1>2, <2>5, <2>8, <2>9, <2>10
<1>6. QED
  BY <1>4, <1>5

(* The message is written when Wire's promise holds of it.                   *)
LEMMA DecodesWritable ==
  ASSUME NEW m, Decodes(m)
  PROVE  Writable(m)
BY DEF Decodes, Writable, Half31, Byte

(* A message is one event or none.                                           *)
LEMMA EventOrNone ==
  ASSUME NEW m
  PROVE  from_proto_message(m) = <<>> \/ \E e : from_proto_message(m) = <<e>>
BY DEF from_proto_message

EventsOf(M) == {from_proto_message(m)[1] : m \in M}

(* The events of a message.                                                  *)
LEMMA EventTyped ==
  ASSUME NEW M, NEW m \in M
  PROVE  from_proto_message(m) \in Seq(EventsOf(M))
<1>1. CASE from_proto_message(m) = <<>>
  BY <1>1
<1>2. CASE from_proto_message(m) # <<>>
  <2>1. PICK e : from_proto_message(m) = <<e>>
    BY <1>2, EventOrNone
  <2>2. from_proto_message(m)[1] = e
    BY <2>1
  <2>3. e \in EventsOf(M)
    BY <2>2 DEF EventsOf
  <2>4. QED
    BY <2>1, <2>3
<1>3. QED
  BY <1>1, <1>2

(* The events of every message.                                              *)
Pieces(msgs) == [i \in DOMAIN msgs |-> from_proto_message(msgs[i])]

(* The events of messages, one run each.                                     *)
LEMMA PiecesTyped ==
  ASSUME NEW M, NEW a \in Seq(M)
  PROVE  Pieces(a) \in Seq(Seq(EventsOf(M))) /\ Len(Pieces(a)) = Len(a) /\ DOMAIN Pieces(a) = 1..Len(a)
<1>1. DOMAIN a = 1..Len(a) /\ Len(a) \in Nat /\ \A i \in 1..Len(a) : a[i] \in M
  OBVIOUS
<1>2. \A i \in 1..Len(a) : from_proto_message(a[i]) \in Seq(EventsOf(M))
  BY <1>1, EventTyped
<1>3. QED
  BY <1>1, <1>2 DEF Pieces

(* The runs of a concatenation.                                              *)
LEMMA PiecesConcat ==
  ASSUME NEW M, NEW a \in Seq(M), NEW b \in Seq(M)
  PROVE  Pieces(a \o b) = Pieces(a) \o Pieces(b)
<1>1. PICK h \in Seq(M) : h = a \o b
  BY ConcatSeqs
<1>2. PICK k \in Nat, l \in Nat : k = Len(a) /\ l = Len(b)
  BY ConcatSeqs
<1>3. Len(h) = k + l
  BY <1>1, <1>2, ConcatSeqs
<1>4. \A i \in 1..k : h[i] = a[i]
  <2>1. Leads(a, a \o b)
    BY Leading
  <2>2. QED
    BY <1>1, <1>2, <2>1 DEF Leads
<1>5. \A i \in 1..l : h[k + i] = b[i]
  <2>1. Trails(a, b)
    BY Trailing
  <2>2. QED
    BY <1>1, <1>2, <2>1 DEF Trails
<1>6. PICK T : T = Seq(EventsOf(M))
  OBVIOUS
<1>7. PICK p, q, r : p = Pieces(a) /\ q = Pieces(b) /\ r = Pieces(h)
  OBVIOUS
<1>8. p \in Seq(T) /\ Len(p) = k /\ q \in Seq(T) /\ Len(q) = l /\ r \in Seq(T) /\ Len(r) = k + l
  BY <1>2, <1>3, <1>6, <1>7, PiecesTyped
<1>9. PICK s \in Seq(T) : s = p \o q
  BY <1>8, ConcatSeqs
<1>10. Len(s) = k + l
  BY <1>8, <1>9, ConcatSeqs
<1>11. \A i \in 1..k : s[i] = p[i]
  <2>1. Leads(p, p \o q)
    BY <1>8, Leading
  <2>2. QED
    BY <1>8, <1>9, <2>1 DEF Leads
<1>12. \A i \in 1..l : s[k + i] = q[i]
  <2>1. Trails(p, q)
    BY <1>8, Trailing
  <2>2. QED
    BY <1>8, <1>9, <2>1 DEF Trails
<1>13. \A i \in 1..k : p[i] = from_proto_message(a[i])
  BY <1>2, <1>7 DEF Pieces
<1>14. \A i \in 1..l : q[i] = from_proto_message(b[i])
  BY <1>2, <1>7 DEF Pieces
<1>15. \A i \in 1..(k + l) : r[i] = from_proto_message(h[i])
  BY <1>3, <1>7 DEF Pieces
<1>16. \A i \in 1..(k + l) : r[i] = s[i]
  <2> TAKE i \in 1..(k + l)
  <2>1. CASE i <= k
    <3>1. i \in 1..k
      BY <2>1
    <3>2. QED
      BY <1>4, <1>11, <1>13, <1>15, <3>1
  <2>2. CASE ~(i <= k)
    <3>1. PICK j \in 1..l : i = k + j
      <4>1. i - k \in 1..l /\ i = k + (i - k)
        BY <2>2
      <4>2. QED
        BY <4>1
    <3>2. r[i] = from_proto_message(h[k + j])
      BY <1>15, <3>1
    <3>3. QED
      BY <1>5, <1>12, <1>14, <3>1, <3>2
  <2>3. QED
    BY <2>1, <2>2
<1>17. r = s
  <2>1. PICK n \in Nat : n = k + l
    OBVIOUS
  <2>2. Len(r) = n /\ Len(s) = n /\ \A i \in 1..n : r[i] = s[i]
    BY <1>8, <1>10, <1>16, <2>1
  <2>3. QED
    BY <1>8, <1>9, <2>2, SameItems
<1>18. QED
  BY <1>1, <1>7, <1>9, <1>17

(* The events of two runs of messages are those of the one and of the other. *)
EventsAdd(a, b) == Events(a \o b) = Events(a) \o Events(b)

(* The events of a concatenation.                                            *)
LEMMA EventsConcat ==
  ASSUME NEW M, NEW a \in Seq(M), NEW b \in Seq(M)
  PROVE  EventsAdd(a, b) /\ Events(a) \in Seq(EventsOf(M))
<1>1. PICK S : S = EventsOf(M)
  OBVIOUS
<1>2. PICK p, q : p = Pieces(a) /\ q = Pieces(b)
  OBVIOUS
<1>3. p \in Seq(Seq(S)) /\ q \in Seq(Seq(S))
  BY <1>1, <1>2, PiecesTyped
<1>4. FlattenSeq(p \o q) = FlattenSeq(p) \o FlattenSeq(q) /\ FlattenSeq(p) \in Seq(S)
  BY <1>3, FlattenConcat
<1>5. Pieces(a \o b) = p \o q
  BY <1>2, PiecesConcat
<1>6. Events(a) = FlattenSeq(p) /\ Events(b) = FlattenSeq(q) /\ Events(a \o b) = FlattenSeq(Pieces(a \o b))
  BY <1>2 DEF Events, Pieces
<1>7. QED
  BY <1>1, <1>4, <1>5, <1>6 DEF EventsAdd

(* No messages, no events.                                                   *)
LEMMA EventsNone == Events(<<>>) = <<>>
<1>1. PICK p : p = Pieces(<<>>)
  OBVIOUS
<1>2. p \in Seq(Seq({})) /\ Len(p) = 0
  BY <1>1 DEF Pieces
<1>3. FlattenSeq(p) = Joined(p)[Len(p)]
  BY <1>2, FlattenJoins
<1>4. Joined(p)[0] = <<>>
  BY JoinedUnfolds
<1>5. QED
  BY <1>1, <1>2, <1>3, <1>4 DEF Events, Pieces

(* One message, its events.                                                  *)
LEMMA EventsOne ==
  ASSUME NEW m
  PROVE  Events(<<m>>) = from_proto_message(m)
<1>1. PICK p, e : p = Pieces(<<m>>) /\ e = from_proto_message(m)
  OBVIOUS
<1>2. PICK S : S = EventsOf({m})
  OBVIOUS
<1>3. e \in Seq(S)
  BY <1>1, <1>2, EventTyped
<1>4. Len(p) = 1 /\ p[1] = e /\ p \in Seq(Seq(S))
  BY <1>1, <1>3 DEF Pieces
<1>5. FlattenSeq(p) = Joined(p)[Len(p)]
  BY <1>4, FlattenJoins
<1>6. Joined(p)[0] = <<>> /\ Joined(p)[0 + 1] = Joined(p)[0] \o p[0 + 1]
  BY JoinedUnfolds
<1>7. <<>> \o e = e
  BY <1>3
<1>8. FlattenSeq(p) = e
  BY <1>4, <1>5, <1>6, <1>7
<1>9. QED
  BY <1>1, <1>8 DEF Events, Pieces

Joins(d, a, b) == SubSeq(d, 1, a) \o SubSeq(d, a + 1, b) = SubSeq(d, 1, b)

(* Two adjacent runs of messages make one.                                   *)
LEMMA RunsJoin ==
  ASSUME NEW M, NEW d \in Seq(M), NEW a \in Nat, NEW b \in Nat, a <= b, b <= Len(d)
  PROVE  Joins(d, a, b)
<1>1. PICK u, v, w : u = SubSeq(d, 1, a) /\ v = SubSeq(d, a + 1, b) /\ w = SubSeq(d, 1, b)
  OBVIOUS
<1>2. a <= Len(d)
  <2>1. Len(d) \in Nat
    BY LengthIsNat
  <2>2. QED
    BY <2>1
<1>3. u \in Seq(M) /\ Len(u) = a /\ \A i \in 1..a : u[i] = d[i]
  BY <1>1, <1>2
<1>4. v \in Seq(M) /\ Len(v) = b - a
  BY <1>1
<1>5. \A i \in 1..(b - a) : v[i] = d[a + i]
  BY <1>1
<1>6. w \in Seq(M) /\ Len(w) = b /\ \A i \in 1..b : w[i] = d[i]
  BY <1>1
<1>7. PICK h \in Seq(M) : h = u \o v
  BY <1>3, <1>4, ConcatSeqs
<1>8. Len(h) = b
  <2>1. Len(h) = Len(u) + Len(v)
    BY <1>3, <1>4, <1>7, ConcatSeqs
  <2>2. QED
    BY <1>3, <1>4, <2>1
<1>9. \A i \in 1..a : h[i] = u[i]
  <2>1. Leads(u, u \o v)
    BY <1>3, <1>4, Leading
  <2>2. QED
    BY <1>3, <1>7, <2>1 DEF Leads
<1>10. \A i \in 1..(b - a) : h[a + i] = v[i]
  <2>1. Trails(u, v)
    BY <1>3, <1>4, Trailing
  <2>2. QED
    BY <1>3, <1>4, <1>7, <2>1 DEF Trails
<1>11. \A i \in 1..b : h[i] = w[i]
  <2> TAKE i \in 1..b
  <2>1. CASE i <= a
    <3>1. i \in 1..a
      BY <2>1
    <3>2. QED
      BY <1>3, <1>6, <1>9, <3>1
  <2>2. CASE ~(i <= a)
    <3>1. PICK j \in 1..(b - a) : i = a + j
      <4>1. i - a \in 1..(b - a) /\ i = a + (i - a)
        BY <2>2
      <4>2. QED
        BY <4>1
    <3>2. h[a + j] = d[a + j]
      BY <1>5, <1>10, <3>1
    <3>3. QED
      BY <1>6, <3>1, <3>2
  <2>3. QED
    BY <2>1, <2>2
<1>12. h = w
  BY <1>6, <1>7, <1>8, <1>11, SameItems
<1>13. QED
  BY <1>1, <1>7, <1>12 DEF Joins

(* b and x are what a connection holds of the first n messages of s when k are
   taken: all that is left of them, unless it is closed and lost some.       *)
Held(s, n, open, b, x, k) ==
  /\ b \in Seq(Byte) /\ x \in Seq(Byte)
  /\ \A i \in 1..k : Fits(s[i])
  /\ \E t \in Seq(Byte) : Ahead(s, k, n, b \o (x \o t)) /\ (open => t = <<>>)

(* A connection starts with nothing held.                                    *)
LEMMA HeldStart ==
  ASSUME NEW s, Len(s) \in Nat
  PROVE  Held(s, 0, TRUE, <<>>, <<>>, 0)
<1>1. PICK e \in Seq(Byte) : e = <<>>
  <2>1. <<>> \in Seq(Byte)
    OBVIOUS
  <2>2. QED
    BY <2>1
<1>2. e \o (e \o e) = e /\ e \o e = e
  BY <1>1
<1>3. Stream(s)[0] = e
  BY <1>1, StreamStep
<1>4. Ahead(s, 0, 0, e)
  BY <1>2, <1>3 DEF Ahead
<1>5. \A i \in 1..0 : Fits(s[i])
  OBVIOUS
<1>6. Held(s, 0, TRUE, e, e, 0)
  <2>1. Ahead(s, 0, 0, e \o (e \o e))
    BY <1>2, <1>4
  <2>2. \E t \in Seq(Byte) : Ahead(s, 0, 0, e \o (e \o t)) /\ (TRUE => t = <<>>)
    BY <1>1, <2>1
  <2>3. QED
    BY <1>5, <2>2 DEF Held
<1>7. QED
  BY <1>1, <1>6

(* The host puts a message on the connection.                                *)
LEMMA HeldSend ==
  ASSUME NEW s, Len(s) \in Nat, AllWritable(s), NEW n \in Nat, n + 1 <= Len(s), NEW k \in 0..n,
         NEW b, NEW x, Held(s, n, TRUE, b, x, k)
  PROVE  Held(s, n + 1, TRUE, b, x \o encode(s[n + 1]), k)
<1>1. b \in Seq(Byte) /\ x \in Seq(Byte) /\ \A i \in 1..k : Fits(s[i])
  BY DEF Held
<1>2. PICK t \in Seq(Byte) : Ahead(s, k, n, b \o (x \o t)) /\ t = <<>>
  BY DEF Held
<1>3. n + 1 \in 1..Len(s) /\ n \in 0..Len(s) /\ k \in 0..Len(s)
  OBVIOUS
<1>4. PICK e \in Seq(Byte) : e = encode(s[n + 1])
  BY <1>3, FrameBytes DEF AllWritable
<1>5. PICK T : T = Stream(s)
  OBVIOUS
<1>6. T[n + 1] = T[n] \o e
  BY <1>4, <1>5, StreamStep
<1>7. x \o t = x
  BY <1>1, <1>2
<1>8. PICK y \in Seq(Byte) : y = b \o x
  BY <1>1, Concat
<1>9. T[n] = T[k] \o y
  BY <1>2, <1>5, <1>7, <1>8 DEF Ahead
<1>10. T[k] \in Seq(Byte)
  BY <1>3, <1>5, StreamBytes
<1>11. Regroups(T[k], y, e)
  BY <1>10, Regrouped
<1>12. y \o e \in Seq(Byte)
  BY Concat
<1>13. Ahead(s, k, n + 1, y \o e)
  BY <1>5, <1>6, <1>9, <1>11, <1>12 DEF Ahead, Regroups
<1>14. Regroups(b, x, e)
  BY <1>1, Regrouped
<1>15. PICK z \in Seq(Byte) : z = x \o e
  BY <1>1, Concat
<1>16. z \o t = z
  BY <1>2
<1>17. Ahead(s, k, n + 1, b \o (z \o t))
  BY <1>8, <1>13, <1>14, <1>15, <1>16 DEF Regroups
<1>18. QED
  BY <1>1, <1>2, <1>4, <1>15, <1>17 DEF Held

Split(x, j) == x = SubSeq(x, 1, j) \o SubSeq(x, j + 1, Len(x))

(* A sequence cut in two.                                                    *)
LEMMA Splits ==
  ASSUME NEW x \in Seq(Byte), NEW j \in 0..Len(x)
  PROVE  Split(x, j) /\ SubSeq(x, 1, j) \in Seq(Byte) /\ SubSeq(x, j + 1, Len(x)) \in Seq(Byte)
<1>1. PICK l \in Nat : l = Len(x)
  BY LengthIsNat
<1>2. j \in Nat /\ j <= l
  BY <1>1
<1>3. Joins(x, j, l)
  BY <1>1, <1>2, RunsJoin
<1>4. SubSeq(x, 1, l) = x
  BY <1>1
<1>5. SubSeq(x, 1, j) \in Seq(Byte) /\ SubSeq(x, j + 1, Len(x)) \in Seq(Byte)
  OBVIOUS
<1>6. QED
  BY <1>1, <1>3, <1>4, <1>5 DEF Joins, Split

(* A connection that closes may lose the end.                                *)
LEMMA HeldClose ==
  ASSUME NEW s, NEW n, NEW o, NEW b, NEW x, NEW k, Held(s, n, o, b, x, k), NEW j \in 0..Len(x)
  PROVE  Held(s, n, FALSE, b, SubSeq(x, 1, j), k)
<1>1. b \in Seq(Byte) /\ x \in Seq(Byte) /\ \A i \in 1..k : Fits(s[i])
  BY DEF Held
<1>2. PICK t \in Seq(Byte) : Ahead(s, k, n, b \o (x \o t))
  BY DEF Held
<1>3. PICK f \in Seq(Byte), g \in Seq(Byte) : f = SubSeq(x, 1, j) /\ g = SubSeq(x, j + 1, Len(x))
  BY <1>1, Splits
<1>4. x = f \o g
  BY <1>1, <1>3, Splits DEF Split
<1>5. Regroups(f, g, t)
  BY Regrouped
<1>6. PICK w \in Seq(Byte) : w = g \o t
  BY Concat
<1>7. Ahead(s, k, n, b \o (f \o w))
  BY <1>2, <1>4, <1>5, <1>6 DEF Regroups
<1>8. QED
  BY <1>1, <1>3, <1>7 DEF Held

(* A read moves bytes from the connection to the buffer.                     *)
LEMMA HeldRead ==
  ASSUME NEW s, NEW n, NEW o, NEW b, NEW x, NEW k, Held(s, n, o, b, x, k), NEW j \in 0..Len(x)
  PROVE  Held(s, n, o, b \o SubSeq(x, 1, j), SubSeq(x, j + 1, Len(x)), k)
<1>1. b \in Seq(Byte) /\ x \in Seq(Byte) /\ \A i \in 1..k : Fits(s[i])
  BY DEF Held
<1>2. PICK t \in Seq(Byte) : Ahead(s, k, n, b \o (x \o t)) /\ (o => t = <<>>)
  BY DEF Held
<1>3. PICK f \in Seq(Byte), g \in Seq(Byte) : f = SubSeq(x, 1, j) /\ g = SubSeq(x, j + 1, Len(x))
  BY <1>1, Splits
<1>4. x = f \o g
  BY <1>1, <1>3, Splits DEF Split
<1>5. Regroups(f, g, t)
  BY Regrouped
<1>6. PICK w \in Seq(Byte) : w = g \o t
  BY Concat
<1>7. Regroups(b, f, w)
  BY <1>1, Regrouped
<1>8. PICK c \in Seq(Byte) : c = b \o f
  BY <1>1, Concat
<1>9. Ahead(s, k, n, c \o (g \o t))
  BY <1>2, <1>4, <1>5, <1>6, <1>7, <1>8 DEF Regroups
<1>10. QED
  BY <1>1, <1>2, <1>3, <1>8, <1>9 DEF Held

(* What draining leaves is what the connection holds then.                   *)
HeldDrained(s, n, o, b, x, k, j, c) ==
  /\ DecodeAll(b) = [msgs |-> SubSeq(s, k + 1, j), rest |-> c, bad |-> decode(c) # Incomplete]
  /\ Held(s, n, o, c, x, j)
  /\ Failed(decode(c))
  /\ decode(c) # Incomplete => j < n /\ ~Fits(s[j + 1])

(* Draining takes messages in order, and leaves the next or a cut of it.     *)
LEMMA HeldDrains ==
  ASSUME NEW M, NEW s \in Seq(M), AllWritable(s), NEW n \in 0..Len(s), NEW k \in 0..n,
         NEW o, NEW b, NEW x, Held(s, n, o, b, x, k)
  PROVE  \E j \in k..n, c \in Seq(Byte) : HeldDrained(s, n, o, b, x, k, j, c)
<1>1. b \in Seq(Byte) /\ x \in Seq(Byte) /\ \A i \in 1..k : Fits(s[i])
  BY DEF Held
<1>2. PICK t \in Seq(Byte) : Ahead(s, k, n, b \o (x \o t)) /\ (o => t = <<>>)
  BY DEF Held
<1>3. PICK w \in Seq(Byte) : w = x \o t
  BY <1>1, Concat
<1>4. DrainsFrom(s, k, n)
  BY Drains
<1>5. PICK j \in k..n, c \in Seq(Byte) : DrainsTo(s, k, j, n, b, w, c)
  BY <1>1, <1>2, <1>3, <1>4 DEF DrainsFrom
<1>6. /\ DecodeAll(b) = [msgs |-> SubSeq(s, k + 1, j), rest |-> c, bad |-> decode(c) # Incomplete]
      /\ Ahead(s, j, n, c \o w)
      /\ \A i \in (k + 1)..j : Fits(s[i])
      /\ Failed(decode(c))
      /\ decode(c) # Incomplete => j < n /\ ~Fits(s[j + 1])
  BY <1>5 DEF DrainsTo
<1>7. \A i \in 1..j : Fits(s[i])
  <2>1. \A i \in 1..j : i \in 1..k \/ i \in (k + 1)..j
    BY LengthIsNat
  <2>2. QED
    BY <1>1, <1>6, <2>1
<1>8. Held(s, n, o, c, x, j)
  BY <1>1, <1>2, <1>3, <1>6, <1>7 DEF Held
<1>9. QED
  BY <1>5, <1>6, <1>8 DEF HeldDrained

(* A message that decodes is the next, and leaves what is held behind it.    *)
HeldTaken(s, n, o, b, x, k, c) ==
  /\ k + 1 \in 0..n /\ Fits(s[k + 1])
  /\ decode(b) = Ok(s[k + 1], c)
  /\ Held(s, n, o, c, x, k + 1)

(* decode takes the next message.                                            *)
LEMMA HeldTakes ==
  ASSUME NEW s, Len(s) \in Nat, AllWritable(s), NEW n \in 0..Len(s), NEW k \in 0..n,
         NEW o, NEW b, NEW x, Held(s, n, o, b, x, k), ~Failed(decode(b))
  PROVE  \E c \in Seq(Byte) : HeldTaken(s, n, o, b, x, k, c)
<1>1. b \in Seq(Byte) /\ x \in Seq(Byte) /\ \A i \in 1..k : Fits(s[i])
  BY DEF Held
<1>2. PICK t \in Seq(Byte) : Ahead(s, k, n, b \o (x \o t)) /\ (o => t = <<>>)
  BY DEF Held
<1>3. PICK w \in Seq(Byte) : w = x \o t
  BY <1>1, Concat
<1>4. PICK a : a = b \o w /\ Ahead(s, k, n, a)
  BY <1>2, <1>3
<1>5. k # n
  <2>1. SUFFICES ASSUME k = n
                 PROVE  FALSE
    OBVIOUS
  <2>2. PICK u \in Seq(Byte) : u = Stream(s)[n]
    BY StreamBytes
  <2>3. a \in Seq(Byte) /\ u = u \o a
    BY <1>4, <2>1, <2>2 DEF Ahead
  <2>4. PICK p \in Nat, q \in Nat, r \in Nat : p = Len(u) /\ q = Len(a) /\ r = Len(b)
    BY <1>1, <2>3, Concat
  <2>5. p = p + q
    BY <2>3, <2>4, Concat
  <2>6. q = r + Len(w) /\ Len(w) \in Nat
    BY <1>1, <1>4, <2>4, Concat
  <2>7. r = 0
    BY <2>5, <2>6
  <2>8. b = <<>>
    BY <1>1, <2>4, <2>7, EmptyIsEmpty
  <2>9. Failed(decode(b))
    BY <2>8, NothingIncomplete, AwaitedCut
  <2>10. QED
    BY <2>9
<1>6. k \in Nat /\ k < n /\ k + 1 \in 0..n /\ k + 1 \in 1..Len(s)
  BY <1>5
<1>7. PICK m, e : m = s[k + 1] /\ e = encode(m)
  OBVIOUS
<1>8. Writable(m) /\ e \in Seq(Byte)
  BY <1>6, <1>7, FrameBytes DEF AllWritable
<1>9. PICK y \in Seq(Byte) : Ahead(s, k + 1, n, y) /\ Same(b, w, e, y)
  <2>1. StepsTo(s, k, n, a)
    BY <1>4, <1>6, AheadStep
  <2>2. QED
    BY <1>4, <1>7, <2>1 DEF StepsTo, Same
<1>10. CutOf(b, e) \/ Whole(b, w, e, y)
  BY <1>1, <1>8, <1>9, CutOrWhole
<1>11. ~CutOf(b, e)
  BY <1>7, <1>8, FrameCut, AwaitedCut
<1>12. PICK c \in Seq(Byte) : b = e \o c /\ c \o w = y
  BY <1>10, <1>11 DEF Whole
<1>13. decode(b) = IF Fits(m) THEN Ok(m, c) ELSE Err("MessageTooLarge")
  BY <1>7, <1>8, <1>12, FrameRead
<1>14. Fits(m) /\ decode(b) = Ok(m, c)
  BY <1>13, AwaitedCut
<1>15. Ahead(s, k + 1, n, c \o (x \o t))
  BY <1>3, <1>9, <1>12
<1>16. \A i \in 1..(k + 1) : Fits(s[i])
  <2>1. \A i \in 1..(k + 1) : i \in 1..k \/ i = k + 1
    BY <1>6
  <2>2. QED
    BY <1>1, <1>7, <1>14, <2>1
<1>17. Held(s, n, o, c, x, k + 1)
  BY <1>1, <1>2, <1>15, <1>16 DEF Held
<1>18. QED
  BY <1>6, <1>7, <1>14, <1>17 DEF HeldTaken

(* The buffer at which decoding stopped holds less than the next message, if
   that may be read.                                                         *)
LEMMA HeldIsShort ==
  ASSUME NEW M, NEW s \in Seq(M), AllWritable(s), NEW n \in 0..Len(s), NEW k \in 0..n,
         NEW o, NEW b, NEW x, Held(s, n, o, b, x, k), Failed(decode(b)),
         k < Len(s), Fits(s[k + 1])
  PROVE  Len(b) < Len(encode(s[k + 1]))
<1>1. b \in Seq(Byte) /\ x \in Seq(Byte)
  BY DEF Held
<1>2. PICK t \in Seq(Byte) : Ahead(s, k, n, b \o (x \o t))
  BY DEF Held
<1>3. PICK w \in Seq(Byte) : w = x \o t
  BY <1>1, Concat
<1>4. Ahead(s, k, n, b \o w)
  BY <1>2, <1>3
<1>5. QED
  BY <1>1, <1>4, HoldsNoMessage

----------------------------------------------------------------------------
(***************************************************************************)
(* Sessions: the network thread, its queue of events and its host.         *)
(***************************************************************************)

(* The session, and how much of what it is to say is on its way.             *)
Says ==
  /\ mode \in {"window", "headless", "hold", "embedded"}
  /\ script \in Seq(Range(script)) /\ acts \in Seq(Range(acts))
  /\ sent \in 0..Len(script)

(* What the render loop gets when the thread ends.                           *)
Ending(thread) == IF thread = "ended" THEN <<[ev |-> "Quit"]>> ELSE <<>>

(* k messages are applied, the render loop has their events, and what follows
   is what the connection holds.                                             *)
Passed(k) ==
  /\ applied = SubSeq(script, 1, k)
  /\ frames = Events(applied) \o Ending(net)
  /\ Held(script, sent, hostOpen, inbuf, down, k)

(* An embedded session may run into a message it cannot read.                *)
Beyond == mode = "embedded" /\ Readable < Len(script)

(* The invariant of the network thread.                                      *)
NetInv ==
  /\ Says
  /\ net \in {"handshake", "await"} => applied = <<>>
  /\ mode = "embedded" => net = "read"
  /\ mode # "embedded" /\ net = "read" => Failed(decode(inbuf))
  /\ Beyond \/ \E k \in 0..sent : Passed(k)

(* The events of the first k messages.                                       *)
EventsWith(k) == Events(SubSeq(script, 1, k))

(* Appending an item, and nothing.                                           *)
LEMMA AppendIs ==
  ASSUME NEW M, NEW s \in Seq(M), NEW e
  PROVE  Append(s, e) = s \o <<e>> /\ s \o <<>> = s
OBVIOUS

(* Readable counts the messages before the first that is too large.          *)
LEMMA ReadableAll ==
  ASSUME NEW M, script \in Seq(M)
  PROVE  /\ Readable \in Nat /\ Readable <= Len(script)
         /\ ~(Readable < Len(script)) => \A i \in 1..Len(script) : Fits(script[i])
         /\ Readable < Len(script) => ~Fits(script[Readable + 1])
         /\ \A i \in 1..Len(script) : i <= Readable => Fits(script[i])
<1>1. PICK n \in Nat : n = Len(script) /\ DOMAIN script = 1..n
  <2>1. Len(script) \in Nat /\ DOMAIN script = 1..Len(script)
    OBVIOUS
  <2>2. QED
    BY <2>1
<1>2. PICK R : R = {i \in DOMAIN script : ~Fits(script[i])}
  OBVIOUS
<1>3. Readable = IF R = {} THEN n ELSE Min(R) - 1
  BY <1>1, <1>2 DEF Readable
<1>4. CASE R = {}
  <2>1. \A i \in 1..n : Fits(script[i])
    BY <1>1, <1>2, <1>4
  <2>2. Readable = n
    BY <1>3, <1>4
  <2>3. QED
    BY <1>1, <2>1, <2>2
<1>5. CASE R # {}
  <2>1. R \in SUBSET Nat
    BY <1>1, <1>2
  <2>2. Min(R) \in R /\ \A i \in R : Min(R) <= i
    BY <1>5, <2>1, HasMin
  <2>3. PICK r : r = Min(R)
    OBVIOUS
  <2>4. r \in 1..n /\ ~Fits(script[r])
    BY <1>1, <1>2, <2>2, <2>3
  <2>5. Readable = r - 1
    BY <1>3, <1>5, <2>3
  <2>6. (r - 1) + 1 = r /\ r - 1 \in Nat /\ r - 1 < n
    BY <2>4
  <2>7. \A i \in 1..n : i <= r - 1 => Fits(script[i])
    <3> SUFFICES ASSUME NEW i \in 1..n, i <= r - 1, ~Fits(script[i])
                 PROVE  FALSE
      OBVIOUS
    <3>1. i \in R
      BY <1>1, <1>2
    <3>2. r <= i
      BY <2>2, <2>3, <3>1
    <3>3. QED
      BY <2>4, <3>2
  <2>8. QED
    BY <1>1, <2>4, <2>5, <2>6, <2>7
<1>6. QED
  BY <1>4, <1>5

(* What the invariant speaks of stays: it holds on.                          *)
LEMMA NetKept ==
  ASSUME NetInv, UNCHANGED <<env, host, down, inbuf, applied, frames, net>>
  PROVE  NetInv'
BY DEF NetInv, Says, Passed, Beyond, Readable, env, host

(* An embedded session with a message too large stays one.                   *)
LEMMA BeyondStays ==
  ASSUME UNCHANGED env, Beyond
  PROVE  Beyond'
BY DEF Beyond, Readable, env

(* A session starts with nothing said.                                       *)
LEMMA NetInit ==
  ASSUME Init
  PROVE  NetInv
<1>1. PICK s \in Sessions : mode = s.mode /\ script = s.script /\ acts = s.acts
  BY DEF Init
<1>2. mode \in {"window", "headless", "hold", "embedded"}
      /\ script \in Seq(Range(script)) /\ acts \in Seq(Range(acts))
  BY <1>1, NetAssumption
<1>3. Len(script) \in Nat /\ 0 \in 0..Len(script)
  <2>1. Len(script) \in Nat
    BY <1>2, LengthIsNat
  <2>2. QED
    BY <2>1
<1>4. Says
  BY <1>2, <1>3 DEF Says, Init
<1>5. Held(script, 0, TRUE, <<>>, <<>>, 0)
  BY <1>3, HeldStart
<1>6. SubSeq(script, 1, 0) = <<>>
  BY <1>2
<1>7. Ending(net) = <<>>
  BY DEF Init, Ending
<1>8. <<>> \o <<>> = <<>>
  OBVIOUS
<1>9. Passed(0)
  BY <1>5, <1>6, <1>7, <1>8, EventsNone DEF Passed, Init
<1>10. \E k \in 0..sent : Passed(k)
  <2>1. 0 \in 0..sent
    BY DEF Init
  <2>2. QED
    BY <1>9, <2>1
<1>11. QED
  BY <1>4, <1>10 DEF NetInv, Init

(* HostSends keeps the invariant: what is ahead grows by the message.        *)
LEMMA SendsKeeps ==
  ASSUME NetInv, AllWritable(script), HostSends
  PROVE  NetInv'
<1>1. script' = script /\ mode' = mode /\ acts' = acts /\ hostOpen' = hostOpen /\ hostOpen
      /\ inbuf' = inbuf /\ applied' = applied /\ frames' = frames /\ net' = net
      /\ sent < Len(script) /\ sent' = sent + 1 /\ down' = down \o encode(script[sent + 1])
  BY DEF HostSends, env
<1>2. script \in Seq(Range(script)) /\ sent \in 0..Len(script)
  BY DEF NetInv, Says
<1>3. Len(script) \in Nat
  BY <1>2, LengthIsNat
<1>4. sent \in Nat /\ sent + 1 <= Len(script) /\ sent + 1 \in 0..Len(script)
  BY <1>1, <1>2, <1>3
<1>5. Says'
  BY <1>1, <1>4 DEF NetInv, Says
<1>6. (Beyond \/ \E k \in 0..sent : Passed(k))'
  <2>1. CASE Beyond
    BY <1>1, <2>1, BeyondStays DEF env
  <2>2. CASE ~Beyond
    <3>1. PICK k \in 0..sent : Passed(k)
      BY <2>2 DEF NetInv
    <3>2. applied = SubSeq(script, 1, k) /\ frames = Events(applied) \o Ending(net)
          /\ Held(script, sent, TRUE, inbuf, down, k)
      <4>1. hostOpen = TRUE \/ hostOpen # TRUE
        OBVIOUS
      <4>2. \E t \in Seq(Byte) : Ahead(script, k, sent, inbuf \o (down \o t)) /\ t = <<>>
        BY <1>1, <3>1 DEF Passed, Held
      <4>3. QED
        BY <3>1, <4>2 DEF Passed, Held
    <3>3. Held(script, sent + 1, TRUE, inbuf, down \o encode(script[sent + 1]), k)
      BY <1>3, <1>4, <3>2, HeldSend
    <3>4. Held(script, sent + 1, hostOpen, inbuf, down \o encode(script[sent + 1]), k)
      BY <3>3 DEF Held
    <3>5. Passed(k)'
      BY <1>1, <3>2, <3>4 DEF Passed
    <3>6. k \in 0..sent'
      BY <1>1, <1>4
    <3>7. QED
      BY <3>5, <3>6
  <2>3. QED
    BY <2>1, <2>2
<1>7. QED
  BY <1>1, <1>5, <1>6 DEF NetInv

(* HostCloses keeps it.                                                      *)
LEMMA ClosesKeeps ==
  ASSUME NetInv, HostCloses
  PROVE  NetInv'
<1>1. script' = script /\ mode' = mode /\ acts' = acts /\ hostOpen' = FALSE
      /\ inbuf' = inbuf /\ applied' = applied /\ frames' = frames /\ net' = net /\ sent' = sent
  BY DEF HostCloses, env
<1>2. PICK j : j \in {0, Len(down) \div 2, Len(down)} /\ down' = SubSeq(down, 1, j)
  BY DEF HostCloses
<1>3. Says'
  BY <1>1 DEF NetInv, Says
<1>4. (Beyond \/ \E k \in 0..sent : Passed(k))'
  <2>1. CASE Beyond
    BY <1>1, <2>1, BeyondStays DEF env
  <2>2. CASE ~Beyond
    <3>1. PICK k \in 0..sent : Passed(k)
      BY <2>2 DEF NetInv
    <3>2. Held(script, sent, hostOpen, inbuf, down, k)
      BY <3>1 DEF Passed
    <3>3. down \in Seq(Byte)
      BY <3>2 DEF Held
    <3>4. j \in 0..Len(down)
      <4>1. PICK n \in Nat : n = Len(down)
        BY <3>3, LengthIsNat
      <4>2. n \div 2 \in 0..n
        OBVIOUS
      <4>3. QED
        BY <1>2, <4>1, <4>2
    <3>5. Held(script, sent, FALSE, inbuf, SubSeq(down, 1, j), k)
      BY <3>2, <3>4, HeldClose
    <3>6. Passed(k)'
      BY <1>1, <1>2, <3>1, <3>5 DEF Passed
    <3>7. QED
      BY <1>1, <3>6
  <2>3. QED
    BY <2>1, <2>2
<1>5. QED
  BY <1>1, <1>3, <1>4 DEF NetInv

(* A read of any number of bytes.                                            *)
LEMMA ChunkHeld ==
  ASSUME NEW n \in ReadSizes, Chunk(n), NEW k, Held(script, sent, hostOpen, inbuf, down, k)
  PROVE  Held(script, sent, hostOpen, inbuf', down', k)
<1>1. down \in Seq(Byte)
  BY DEF Held
<1>2. PICK l \in Nat : l = Len(down)
  BY <1>1, LengthIsNat
<1>3. n \in Nat \ {0}
  BY NetAssumption
<1>4. inbuf' = inbuf \o SubSeq(down, 1, Least(n, l)) /\ down' = SubSeq(down, n + 1, l)
  BY <1>2 DEF Chunk
<1>5. CASE n <= l
  <2>1. Least(n, l) = n /\ n \in 0..l
    BY <1>3, <1>5 DEF Least
  <2>2. n \in 0..Len(down)
    BY <1>2, <2>1
  <2>3. Held(script, sent, hostOpen, inbuf \o SubSeq(down, 1, n), SubSeq(down, n + 1, Len(down)), k)
    BY <2>2, HeldRead
  <2>4. QED
    BY <1>2, <1>4, <2>1, <2>3
<1>6. CASE ~(n <= l)
  <2>1. Least(n, l) = l /\ l \in 0..l
    BY <1>3, <1>6 DEF Least
  <2>2. l \in 0..Len(down)
    BY <1>2, <2>1
  <2>3. Held(script, sent, hostOpen, inbuf \o SubSeq(down, 1, l), SubSeq(down, l + 1, Len(down)), k)
    BY <2>2, HeldRead
  <2>4. SubSeq(down, n + 1, l) = <<>> /\ SubSeq(down, l + 1, l) = <<>>
    BY <1>1, <1>2, <1>3, <1>6
  <2>5. QED
    BY <1>2, <1>4, <2>1, <2>3, <2>4
<1>7. QED
  BY <1>5, <1>6

(* A read that reaches the buffer, with the thread at what it does next.     *)
LEMMA ReadKeeps ==
  ASSUME NetInv, NEW n \in ReadSizes, Chunk(n), UNCHANGED <<env, host, applied, frames>>,
         Ending(net') = Ending(net), net' \in {"handshake", "await"} => applied = <<>>,
         mode = "embedded" => net' = "read", mode = "embedded" \/ net' # "read"
  PROVE  NetInv'
<1>1. script' = script /\ mode' = mode /\ acts' = acts /\ hostOpen' = hostOpen /\ sent' = sent
      /\ applied' = applied /\ frames' = frames
  BY DEF env, host
<1>2. Says'
  BY <1>1 DEF NetInv, Says
<1>3. (Beyond \/ \E k \in 0..sent : Passed(k))'
  <2>1. CASE Beyond
    BY <2>1, BeyondStays
  <2>2. CASE ~Beyond
    <3>1. PICK k \in 0..sent : Passed(k)
      BY <2>2 DEF NetInv
    <3>2. Held(script, sent, hostOpen, inbuf, down, k)
      BY <3>1 DEF Passed
    <3>3. Held(script, sent, hostOpen, inbuf', down', k)
      BY <3>2, ChunkHeld
    <3>4. Passed(k)'
      BY <1>1, <3>1, <3>3 DEF Passed
    <3>5. QED
      BY <1>1, <3>4
  <2>3. QED
    BY <2>1, <2>2
<1>4. QED
  BY <1>1, <1>2, <1>3 DEF NetInv

(* The thread ends and tells the render loop.                                *)
LEMMA EndingKeeps ==
  ASSUME NetInv, mode # "embedded", net # "ended", net' = "ended",
         UNCHANGED <<env, host, down, inbuf, applied>>,
         frames' = Append(frames, [ev |-> "Quit"])
  PROVE  NetInv'
<1>1. script' = script /\ mode' = mode /\ acts' = acts /\ hostOpen' = hostOpen /\ sent' = sent
      /\ applied' = applied /\ inbuf' = inbuf /\ down' = down
  BY DEF env, host
<1>2. Says' /\ script \in Seq(Range(script))
  BY <1>1 DEF NetInv, Says
<1>3. PICK k \in 0..sent : Passed(k)
  BY DEF NetInv, Beyond
<1>4. PICK S : S = EventsOf(Range(script))
  OBVIOUS
<1>5. Events(applied) \in Seq(S)
  <2>1. SubSeq(script, 1, k) \in Seq(Range(script))
    <3>1. k \in Nat /\ k <= Len(script)
      <4>1. Len(script) \in Nat
        BY <1>2, LengthIsNat
      <4>2. QED
        BY <4>1 DEF NetInv, Says
    <3>2. QED
      BY <1>2, <3>1
  <2>2. applied \in Seq(Range(script))
    BY <1>3, <2>1 DEF Passed
  <2>3. QED
    BY <1>4, <2>2, EventsConcat
<1>6. frames = Events(applied)
  <2>1. frames = Events(applied) \o <<>>
    BY <1>3 DEF Passed, Ending
  <2>2. QED
    BY <1>5, <2>1, AppendIs
<1>7. frames' = Events(applied) \o <<[ev |-> "Quit"]>>
  BY <1>5, <1>6, AppendIs
<1>8. frames' = Events(applied) \o Ending(net')
  BY <1>7 DEF Ending
<1>9. Passed(k)'
  BY <1>1, <1>3, <1>8 DEF Passed
<1>10. (\E i \in 0..sent : Passed(i))'
  BY <1>1, <1>9
<1>11. QED
  BY <1>1, <1>2, <1>10 DEF NetInv

(* The read of the handshake keeps it: bytes go to the buffer.               *)
LEMMA HandshakeReadKeeps ==
  ASSUME NetInv, HandshakeRead
  PROVE  NetInv'
<1>1. mode # "embedded" /\ net = "await"
  BY DEF NetInv, HandshakeRead
<1>2. CASE (\E n \in ReadSizes : Chunk(n)) /\ net' = "handshake" /\ UNCHANGED frames
  <2>1. PICK n \in ReadSizes : Chunk(n)
    BY <1>2
  <2>2. Ending(net') = Ending(net)
    BY <1>1, <1>2 DEF Ending
  <2>3. UNCHANGED <<env, host, applied, frames>>
    BY <1>2 DEF HandshakeRead
  <2>4. applied = <<>>
    BY <1>1 DEF NetInv
  <2>5. QED
    BY <1>1, <1>2, <2>1, <2>2, <2>3, <2>4, ReadKeeps
<1>3. CASE AtEof /\ Fails /\ UNCHANGED <<inbuf, down>>
  <2>1. UNCHANGED <<env, host, down, inbuf, applied>>
    BY <1>3 DEF HandshakeRead
  <2>2. QED
    BY <1>1, <1>3, <2>1, EndingKeeps DEF Fails
<1>4. QED
  BY <1>2, <1>3 DEF HandshakeRead

(* WELCOME: the bytes read along with it stay in the buffer.                 *)
LEMMA HandshakeKeeps ==
  ASSUME NetInv, AllWritable(script), Handshake
  PROVE  NetInv'
<1>1. mode # "embedded" /\ net = "handshake" /\ applied = <<>> /\ UNCHANGED <<env, host, down>>
  BY DEF NetInv, Handshake
<1>2. PICK r : /\ r = decode(inbuf)
               /\ IF r = Incomplete THEN net' = "await" /\ UNCHANGED <<inbuf, applied, frames, writer>>
                  ELSE IF ~Failed(r) /\ r.val.type = "Welcome"
                  THEN /\ inbuf' = r.rest
                       /\ applied' = <<r.val>>
                       /\ frames' = frames \o from_proto_message(r.val)
                       /\ net' = "apply"
                       /\ writer' = "check"
                  ELSE Fails /\ UNCHANGED <<inbuf, applied, writer>>
  BY DEF Handshake
<1>3. script' = script /\ mode' = mode /\ acts' = acts /\ hostOpen' = hostOpen /\ sent' = sent
      /\ down' = down
  BY <1>1 DEF env, host
<1>4. Says' /\ script \in Seq(Range(script)) /\ sent \in 0..Len(script)
  BY <1>3 DEF NetInv, Says
<1>5. Len(script) \in Nat
  BY <1>4, LengthIsNat
<1>6. PICK k \in 0..sent : Passed(k)
  BY <1>1 DEF NetInv, Beyond
<1>7. k = 0
  <2>1. SubSeq(script, 1, k) = <<>>
    BY <1>1, <1>6 DEF Passed
  <2>2. k \in Nat /\ k <= Len(script)
    BY <1>4, <1>5
  <2>3. Len(SubSeq(script, 1, k)) = k
    BY <1>4, <2>2
  <2>4. Len(<<>>) = 0
    OBVIOUS
  <2>5. QED
    BY <2>1, <2>3, <2>4
<1>8. Held(script, sent, hostOpen, inbuf, down, 0)
  BY <1>6, <1>7 DEF Passed
<1>9. frames = <<>>
  <2>1. frames = <<>> \o <<>>
    BY <1>1, <1>6, EventsNone DEF Passed, Ending
  <2>2. QED
    BY <2>1
<1>10. CASE r = Incomplete
  <2>1. inbuf' = inbuf /\ applied' = applied /\ frames' = frames /\ net' = "await"
    BY <1>2, <1>10
  <2>2. Ending(net') = Ending(net)
    BY <1>1, <2>1 DEF Ending
  <2>3. Passed(k)'
    BY <1>3, <1>6, <2>1, <2>2 DEF Passed
  <2>4. (\E i \in 0..sent : Passed(i))'
    BY <1>3, <2>3
  <2>5. QED
    BY <1>1, <1>3, <1>4, <2>1, <2>4 DEF NetInv
<1>11. CASE r # Incomplete /\ ~Failed(r) /\ r.val.type = "Welcome"
  <2>1. inbuf' = r.rest /\ applied' = <<r.val>> /\ frames' = frames \o from_proto_message(r.val)
        /\ net' = "apply"
    BY <1>2, <1>11
  <2>2. 0 \in 0..sent
    BY <1>4
  <2>3. PICK c \in Seq(Byte) : HeldTaken(script, sent, hostOpen, inbuf, down, 0, c)
    BY <1>2, <1>4, <1>5, <1>8, <1>11, <2>2, HeldTakes
  <2>4. 0 + 1 = 1
    OBVIOUS
  <2>5. 1 \in 0..sent /\ decode(inbuf) = Ok(script[1], c) /\ Held(script, sent, hostOpen, c, down, 1)
    BY <2>3, <2>4 DEF HeldTaken
  <2>6. r.val = script[1] /\ r.rest = c
    BY <1>2, <2>5, AwaitedOk
  <2>7. <<script[1]>> = SubSeq(script, 1, 1)
    <3>1. 1 <= Len(script)
      BY <1>4, <1>5, <2>5
    <3>2. QED
      BY <1>4, <3>1
  <2>8. frames' = Events(applied') \o Ending(net')
    <3>1. PICK w : w = from_proto_message(script[1])
      OBVIOUS
    <3>2. w \in Seq(EventsOf({script[1]}))
      BY <3>1, EventTyped
    <3>3. frames' = w
      <4>1. frames' = <<>> \o w
        BY <1>9, <2>1, <2>6, <3>1
      <4>2. QED
        BY <3>2, <4>1
    <3>4. Events(applied') = w
      BY <2>1, <2>6, <3>1, EventsOne
    <3>5. Ending(net') = <<>>
      BY <2>1 DEF Ending
    <3>6. w \o <<>> = w
      BY <3>2, AppendIs
    <3>7. QED
      BY <3>3, <3>4, <3>5, <3>6
  <2>9. Passed(1)'
    BY <1>3, <2>1, <2>5, <2>6, <2>7, <2>8 DEF Passed
  <2>10. (\E i \in 0..sent : Passed(i))'
    BY <1>3, <2>5, <2>9
  <2>11. QED
    BY <1>1, <1>3, <1>4, <2>1, <2>10 DEF NetInv
<1>12. CASE r # Incomplete /\ ~(~Failed(r) /\ r.val.type = "Welcome")
  <2>1. Fails /\ UNCHANGED <<inbuf, applied>>
    BY <1>2, <1>12
  <2>2. UNCHANGED <<env, host, down, inbuf, applied>>
    BY <1>1, <2>1
  <2>3. QED
    BY <1>1, <2>1, <2>2, EndingKeeps DEF Fails
<1>13. QED
  BY <1>10, <1>11, <1>12

(* What draining does to applied and frames.                                 *)
LEMMA DrainKeeps ==
  ASSUME NetInv, AllWritable(script), NEW k \in 0..sent, Passed(k), net # "ended"
  PROVE  \E j \in k..sent, c \in Seq(Byte) :
            /\ HeldDrained(script, sent, hostOpen, inbuf, down, k, j, c)
            /\ applied \o DecodeAll(inbuf).msgs = SubSeq(script, 1, j)
            /\ frames \o Events(DecodeAll(inbuf).msgs) = EventsWith(j)
            /\ EventsWith(j) \in Seq(EventsOf(Range(script)))
<1>1. script \in Seq(Range(script)) /\ sent \in 0..Len(script)
  BY DEF NetInv, Says
<1>2. Len(script) \in Nat
  BY <1>1, LengthIsNat
<1>3. Held(script, sent, hostOpen, inbuf, down, k)
  BY DEF Passed
<1>4. PICK j \in k..sent, c \in Seq(Byte) : HeldDrained(script, sent, hostOpen, inbuf, down, k, j, c)
  BY <1>1, <1>3, HeldDrains
<1>5. k \in Nat /\ j \in Nat /\ k <= j /\ j <= Len(script) /\ k <= Len(script)
  BY <1>1, <1>2
<1>6. PICK a, d : a = SubSeq(script, 1, k) /\ d = SubSeq(script, k + 1, j)
  OBVIOUS
<1>7. a \in Seq(Range(script)) /\ d \in Seq(Range(script))
  BY <1>1, <1>5, <1>6
<1>8. DecodeAll(inbuf).msgs = d
  <2>1. DecodeAll(inbuf) = [msgs |-> d, rest |-> c, bad |-> decode(c) # Incomplete]
    BY <1>4, <1>6 DEF HeldDrained
  <2>2. QED
    BY <2>1
<1>9. a \o d = SubSeq(script, 1, j)
  <2>1. Joins(script, k, j)
    BY <1>1, <1>5, RunsJoin
  <2>2. QED
    BY <1>6, <2>1 DEF Joins
<1>10. EventsAdd(a, d) /\ Events(a) \in Seq(EventsOf(Range(script)))
  BY <1>7, EventsConcat
<1>11. applied = a
  BY <1>6 DEF Passed
<1>12. frames = Events(a)
  <2>1. frames = Events(a) \o <<>>
    BY <1>11 DEF Passed, Ending
  <2>2. QED
    BY <1>10, <2>1, AppendIs
<1>13. frames \o Events(d) = EventsWith(j)
  BY <1>9, <1>10, <1>12 DEF EventsAdd, EventsWith
<1>14. EventsWith(j) \in Seq(EventsOf(Range(script)))
  <2>1. SubSeq(script, 1, j) \in Seq(Range(script))
    BY <1>1, <1>5
  <2>2. QED
    BY <2>1, EventsConcat DEF EventsWith
<1>15. QED
  BY <1>4, <1>8, <1>9, <1>11, <1>13, <1>14

(* The drain of the buffer keeps it.                                         *)
LEMMA ApplyKeeps ==
  ASSUME NetInv, AllWritable(script), Apply
  PROVE  NetInv'
<1>1. mode # "embedded" /\ net = "apply"
  BY DEF NetInv, Apply
<1>2. script' = script /\ mode' = mode /\ acts' = acts /\ hostOpen' = hostOpen /\ sent' = sent
      /\ down' = down
  BY DEF Apply, env, host
<1>3. PICK all, msgs : /\ all = DecodeAll(inbuf) /\ msgs = all.msgs
                       /\ applied' = applied \o msgs
                       /\ inbuf' = all.rest
                       /\ frames' = frames \o Events(msgs)
                                           \o (IF stop THEN <<[ev |-> "Quit"]>> ELSE <<>>)
                       /\ net' = (IF stop THEN "ended" ELSE "read")
  BY DEF Apply
<1>4. Says'
  BY <1>2 DEF NetInv, Says
<1>5. PICK k \in 0..sent : Passed(k)
  BY <1>1 DEF NetInv, Beyond
<1>6. PICK j \in k..sent, c \in Seq(Byte) :
            /\ HeldDrained(script, sent, hostOpen, inbuf, down, k, j, c)
            /\ applied \o msgs = SubSeq(script, 1, j)
            /\ frames \o Events(msgs) = EventsWith(j)
            /\ EventsWith(j) \in Seq(EventsOf(Range(script)))
  BY <1>1, <1>3, <1>5, DrainKeeps
<1>7. all.rest = c /\ Held(script, sent, hostOpen, c, down, j) /\ Failed(decode(c))
  <2>1. all = [msgs |-> SubSeq(script, k + 1, j), rest |-> c, bad |-> decode(c) # Incomplete]
        /\ Held(script, sent, hostOpen, c, down, j) /\ Failed(decode(c))
    BY <1>3, <1>6 DEF HeldDrained
  <2>2. QED
    BY <2>1
<1>8. frames' = EventsWith(j) \o Ending(net')
  BY <1>3, <1>6 DEF Ending
<1>9. applied' = SubSeq(script, 1, j)
  BY <1>3, <1>6
<1>10. frames' = Events(applied') \o Ending(net')
  BY <1>8, <1>9 DEF EventsWith
<1>11. Passed(j)'
  BY <1>2, <1>3, <1>7, <1>9, <1>10 DEF Passed
<1>12. j \in 0..sent
  <2>1. k \in Nat /\ sent \in Nat
    BY LengthIsNat DEF NetInv, Says
  <2>2. QED
    BY <2>1
<1>13. (\E i \in 0..sent : Passed(i))'
  BY <1>2, <1>11, <1>12
<1>14. Failed(decode(inbuf'))
  BY <1>3, <1>7
<1>15. net' \notin {"handshake", "await"}
  BY <1>3
<1>16. QED
  BY <1>1, <1>2, <1>4, <1>13, <1>14, <1>15 DEF NetInv

(* The read of the message loop keeps it.                                    *)
LEMMA ReadsKeeps ==
  ASSUME NetInv, Read
  PROVE  NetInv'
<1>1. mode # "embedded" /\ net = "read"
  BY DEF Read
<1>2. CASE (\E n \in ReadSizes : Chunk(n)) /\ net' = "apply" /\ UNCHANGED <<frames, stop>>
  <2>1. PICK n \in ReadSizes : Chunk(n)
    BY <1>2
  <2>2. Ending(net') = Ending(net)
    BY <1>1, <1>2 DEF Ending
  <2>3. UNCHANGED <<env, host, applied, frames>>
    BY <1>2 DEF Read
  <2>4. QED
    BY <1>1, <1>2, <2>1, <2>2, <2>3, ReadKeeps
<1>3. CASE /\ AtEof
           /\ net' = "ended" /\ stop' = TRUE
           /\ frames' = Append(frames, [ev |-> "Quit"])
           /\ UNCHANGED <<inbuf, down>>
  <2>1. UNCHANGED <<env, host, down, inbuf, applied>>
    BY <1>3 DEF Read
  <2>2. QED
    BY <1>1, <1>3, <2>1, EndingKeeps
<1>4. QED
  BY <1>2, <1>3 DEF Read

(* EmbeddedReads keeps it.                                                   *)
LEMMA EmbeddedReadsKeeps ==
  ASSUME NetInv, EmbeddedReads
  PROVE  NetInv'
<1>1. mode = "embedded" /\ net = "read" /\ net' = net
  BY DEF NetInv, EmbeddedReads
<1>2. PICK n \in ReadSizes : Chunk(n)
  BY DEF EmbeddedReads
<1>3. UNCHANGED <<env, host, applied, frames>>
  BY DEF EmbeddedReads
<1>4. QED
  BY <1>1, <1>2, <1>3, ReadKeeps

(* Ingest keeps it.                                                          *)
LEMMA IngestKeeps ==
  ASSUME NetInv, AllWritable(script), Ingest
  PROVE  NetInv'
<1>1. mode = "embedded" /\ net = "read" /\ net' = net
  BY DEF NetInv, Ingest
<1>2. script' = script /\ mode' = mode /\ acts' = acts /\ hostOpen' = hostOpen /\ sent' = sent
      /\ down' = down
  BY DEF Ingest, env, host
<1>3. Says' /\ script \in Seq(Range(script)) /\ sent \in 0..Len(script)
  BY <1>2 DEF NetInv, Says
<1>4. (Beyond \/ \E k \in 0..sent : Passed(k))'
  <2>1. CASE Beyond
    BY <1>2, <2>1, BeyondStays DEF env
  <2>2. CASE ~Beyond
    <3>1. PICK k \in 0..sent : Passed(k)
      BY <2>2 DEF NetInv
    <3>2. PICK all, msgs : /\ all = DecodeAll(inbuf) /\ msgs = all.msgs
                           /\ applied' = applied \o msgs
                           /\ frames' = frames \o Events(msgs)
                           /\ inbuf' = IF all.bad THEN inbuf ELSE all.rest
      BY DEF Ingest
    <3>3. PICK j \in k..sent, c \in Seq(Byte) :
                /\ HeldDrained(script, sent, hostOpen, inbuf, down, k, j, c)
                /\ applied \o msgs = SubSeq(script, 1, j)
                /\ frames \o Events(msgs) = EventsWith(j)
                /\ EventsWith(j) \in Seq(EventsOf(Range(script)))
      BY <1>1, <3>1, <3>2, DrainKeeps
    <3>4. PICK B : B = (decode(c) # Incomplete)
      OBVIOUS
    <3>5. all = [msgs |-> SubSeq(script, k + 1, j), rest |-> c, bad |-> B]
          /\ Held(script, sent, hostOpen, c, down, j)
          /\ (B => j < sent /\ ~Fits(script[j + 1]))
      BY <3>2, <3>3, <3>4 DEF HeldDrained
    <3>6. k \in Nat /\ sent \in Nat /\ Len(script) \in Nat /\ sent <= Len(script) /\ j \in 0..sent
      <4>1. Len(script) \in Nat
        BY <1>3, LengthIsNat
      <4>2. QED
        BY <1>3, <4>1
    <3>7. ~B
      <4>1. SUFFICES ASSUME B
                     PROVE  FALSE
        OBVIOUS
      <4>2. j + 1 \in 1..Len(script) /\ ~Fits(script[j + 1])
        BY <3>5, <3>6, <4>1
      <4>3. ~(Readable < Len(script))
        BY <1>1, <2>2 DEF Beyond
      <4>4. \A i \in 1..Len(script) : Fits(script[i])
        BY <1>3, <4>3, ReadableAll
      <4>5. QED
        BY <4>2, <4>4
    <3>8. inbuf' = c
      <4>1. all.rest = c /\ all.bad = B
        BY <3>5
      <4>2. QED
        BY <3>2, <3>7, <4>1
    <3>9. applied' = SubSeq(script, 1, j) /\ frames' = EventsWith(j)
      BY <3>2, <3>3
    <3>10. frames' = Events(applied') \o Ending(net')
      <4>1. Ending(net') = <<>>
        BY <1>1 DEF Ending
      <4>2. EventsWith(j) \o <<>> = EventsWith(j)
        BY <3>3, AppendIs
      <4>3. QED
        BY <3>9, <4>1, <4>2 DEF EventsWith
    <3>11. Passed(j)'
      BY <1>2, <3>5, <3>8, <3>9, <3>10 DEF Passed
    <3>12. QED
      BY <1>2, <3>6, <3>11
  <2>3. QED
    BY <2>1, <2>2
<1>5. QED
  BY <1>1, <1>2, <1>3, <1>4 DEF NetInv

(* Every step keeps what the render loop has and the connection holds.       *)
LEMMA NetStep ==
  ASSUME NetInv, AllWritable(script), [Next]_vars
  PROVE  NetInv'
<1>1. CASE HostSends \/ HostCloses
  BY <1>1, SendsKeeps, ClosesKeeps
<1>2. CASE NetNext
  BY <1>2, HandshakeReadKeeps, HandshakeKeeps, ApplyKeeps, ReadsKeeps DEF NetNext
<1>3. CASE EmbeddedReads \/ Ingest
  BY <1>3, EmbeddedReadsKeeps, IngestKeeps
<1>4. CASE HoldFires
  BY <1>4, NetKept DEF HoldFires
<1>5. CASE WriterChecks
  BY <1>5, NetKept DEF WriterChecks
<1>6. CASE WriterSends
  BY <1>6, NetKept DEF WriterSends
<1>7. CASE UserActs
  BY <1>7, NetKept DEF UserActs
<1>8. CASE RenderReturns
  BY <1>8, NetKept DEF RenderReturns
<1>9. CASE Join
  BY <1>9, NetKept DEF Join
<1>10. CASE UNCHANGED vars
  BY <1>10, NetKept DEF vars, env, host
<1>11. QED
  BY <1>1, <1>2, <1>3, <1>4, <1>5, <1>6, <1>7, <1>8, <1>9, <1>10 DEF Next

(* What a session is to say is all readable: the hypothesis of the theorems,
   for as long as it runs.                                                   *)
Promised ==
  /\ AllWritable(script) /\ \A i \in 1..Len(script) : Writable(Raw(script[i]))
  /\ \A i \in 1..Len(acts) : Writable(into_proto_message(acts[i]))
  /\ Writable(HELLO)

(* Frames have their fields, and their pixels are bytes.                     *)
FramesTyped ==
  \A i \in 1..Len(script) : script[i].type \in DOMAIN WsHeader =>
     /\ DOMAIN script[i] = {"type"} \cup DOMAIN Fields(script[i].type)
     /\ script[i].pixels \in Seq(Byte)

(* The queue holds the newest of the events emitted.                         *)
QueueInv ==
  /\ emitted \in Nat /\ emitted <= Len(acts)
  /\ queue \in Seq(Range(acts)) /\ Len(queue) <= emitted
  /\ \A i \in 1..Len(queue) : queue[i] = acts[(emitted - Len(queue)) + i]
  /\ up \in Seq(Byte)

(* The invariant of a session.                                               *)
SessionInv == Promised /\ FramesTyped /\ NetInv /\ QueueInv

(* The items of a sequence.                                                  *)
LEMMA ItemOf ==
  ASSUME NEW M, NEW s \in Seq(M)
  PROVE  DOMAIN s = 1..Len(s) /\ Len(s) \in Nat /\ \A i \in 1..Len(s) : s[i] \in M
OBVIOUS

(* The invariant of a session holds at its start.                            *)
LEMMA SessionInit ==
  ASSUME Init, PayloadsDecode
  PROVE  SessionInv
<1>1. NetInv
  BY NetInit
<1>2. script \in Seq(Range(script)) /\ acts \in Seq(Range(acts))
  BY <1>1 DEF NetInv, Says
<1>3. DOMAIN script = 1..Len(script) /\ DOMAIN acts = 1..Len(acts) /\ Len(acts) \in Nat
  BY <1>2, ItemOf
<1>4. /\ \A i \in DOMAIN script : Decodes(script[i]) /\ Decodes(Raw(script[i]))
      /\ \A i \in DOMAIN acts : Decodes(into_proto_message(acts[i]))
      /\ Decodes(HELLO)
  <2>1. PICK s \in Sessions : script = s.script /\ acts = s.acts
    BY DEF Init
  <2>2. QED
    BY <2>1 DEF PayloadsDecode
<1>5. Promised
  <2>1. AllWritable(script) /\ \A i \in 1..Len(script) : Writable(Raw(script[i]))
    BY <1>3, <1>4, DecodesWritable DEF AllWritable
  <2>2. \A i \in 1..Len(acts) : Writable(into_proto_message(acts[i]))
    BY <1>3, <1>4, DecodesWritable
  <2>3. Writable(HELLO)
    BY <1>4, DecodesWritable
  <2>4. QED
    BY <2>1, <2>2, <2>3 DEF Promised
<1>6. FramesTyped
  <2>1. PICK s \in Sessions : script = s.script
    BY DEF Init
  <2>2. \A m \in Range(script) : m.type \in DOMAIN WsHeader =>
           DOMAIN m = {"type"} \cup DOMAIN Fields(m.type) /\ m.pixels \in Seq(0..255)
    BY <2>1, NetAssumption
  <2>3. \A i \in 1..Len(script) : script[i] \in Range(script)
    BY <1>2, ItemOf
  <2>4. QED
    BY <2>2, <2>3 DEF FramesTyped, Byte
<1>7. QueueInv
  <2>1. emitted = 0 /\ queue = <<>> /\ up = encode(HELLO)
    BY DEF Init
  <2>2. up \in Seq(Byte)
    BY <1>5, <2>1, FrameBytes DEF Promised
  <2>3. <<>> \in Seq(Range(acts)) /\ Len(<<>>) = 0
    OBVIOUS
  <2>4. 0 <= Len(acts) /\ \A i \in 1..0 : queue[i] = acts[(emitted - 0) + i]
    BY <1>3
  <2>5. QED
    BY <2>1, <2>2, <2>3, <2>4 DEF QueueInv
<1>8. QED
  BY <1>1, <1>5, <1>6, <1>7 DEF SessionInv

(* What a session is to say never changes.                                   *)
LEMMA EnvStays ==
  ASSUME [Next]_vars
  PROVE  UNCHANGED env
BY DEF Next, vars, env, HostSends, HostCloses, NetNext, HandshakeRead, Handshake, Apply, Read,
       HoldFires, WriterChecks, WriterSends, UserActs, RenderReturns, Join, EmbeddedReads, Ingest

(* UserActs: the event joins the queue.                                      *)
LEMMA EmitKeeps ==
  ASSUME QueueInv, acts \in Seq(Range(acts)), UserActs
  PROVE  QueueInv'
<1>1. emitted < Len(acts) /\ emitted' = emitted + 1 /\ queue' = Append(queue, acts[emitted + 1])
      /\ up' = up /\ acts' = acts
  BY DEF UserActs, env
<1>2. PICK n \in Nat, q \in Nat : n = emitted /\ q = Len(queue)
  <2>1. Len(queue) \in Nat
    BY LengthIsNat DEF QueueInv
  <2>2. QED
    BY <2>1 DEF QueueInv
<1>3. PICK a : a = acts[n + 1]
  OBVIOUS
<1>4. Len(acts) \in Nat
  BY LengthIsNat
<1>5. a \in Range(acts) /\ n + 1 <= Len(acts) /\ n + 1 \in Nat
  <2>1. n + 1 \in 1..Len(acts) /\ n + 1 <= Len(acts) /\ n + 1 \in Nat
    BY <1>1, <1>2, <1>4
  <2>2. QED
    BY <1>3, <2>1, ItemOf
<1>6. queue \in Seq(Range(acts)) /\ q <= n /\ \A i \in 1..q : queue[i] = acts[(n - q) + i]
  BY <1>2 DEF QueueInv
<1>7. queue' \in Seq(Range(acts)) /\ Len(queue') = q + 1
      /\ \A i \in 1..(q + 1) : queue'[i] = IF i = q + 1 THEN a ELSE queue[i]
  BY <1>1, <1>2, <1>3, <1>5, <1>6
<1>8. \A i \in 1..(q + 1) : queue'[i] = acts[((n + 1) - (q + 1)) + i]
  <2> TAKE i \in 1..(q + 1)
  <2>1. (n + 1) - (q + 1) = n - q
    OBVIOUS
  <2>2. CASE i = q + 1
    <3>1. (n - q) + (q + 1) = n + 1
      OBVIOUS
    <3>2. QED
      BY <1>3, <1>7, <2>1, <2>2, <3>1
  <2>3. CASE i # q + 1
    <3>1. i \in 1..q
      BY <2>3
    <3>2. QED
      BY <1>6, <1>7, <2>1, <2>3, <3>1
  <2>4. QED
    BY <2>2, <2>3
<1>9. q + 1 <= n + 1
  BY <1>6
<1>10. QED
  BY <1>1, <1>2, <1>5, <1>7, <1>8, <1>9 DEF QueueInv

(* The oldest event leaves the queue.                                        *)
LEMMA OldestLeaves ==
  ASSUME QueueInv, acts \in Seq(Range(acts)), queue # <<>>
  PROVE  /\ (emitted - Len(queue)) + 1 \in 1..Len(acts)
         /\ Head(queue) = acts[(emitted - Len(queue)) + 1]
         /\ Tail(queue) \in Seq(Range(acts)) /\ Len(Tail(queue)) = Len(queue) - 1
         /\ Len(queue) \in Nat /\ Len(queue) # 0
         /\ \A i \in 1..Len(Tail(queue)) : Tail(queue)[i] = acts[(emitted - Len(Tail(queue))) + i]
<1>1. PICK n \in Nat, q \in Nat : n = emitted /\ q = Len(queue)
  <2>1. Len(queue) \in Nat
    BY LengthIsNat DEF QueueInv
  <2>2. QED
    BY <2>1 DEF QueueInv
<1>2. queue \in Seq(Range(acts)) /\ q <= n /\ n <= Len(acts)
      /\ \A i \in 1..q : queue[i] = acts[(n - q) + i]
  BY <1>1 DEF QueueInv
<1>3. q # 0
  BY <1>1, <1>2, EmptyIsEmpty
<1>4. Head(queue) = queue[1] /\ Tail(queue) \in Seq(Range(acts)) /\ Len(Tail(queue)) = q - 1
      /\ \A i \in 1..(q - 1) : Tail(queue)[i] = queue[i + 1]
  BY <1>1, <1>2, <1>3
<1>5. Len(acts) \in Nat
  BY LengthIsNat
<1>6. (n - q) + 1 \in 1..Len(acts) /\ 1 \in 1..q
  BY <1>2, <1>3, <1>5
<1>7. \A i \in 1..(q - 1) : Tail(queue)[i] = acts[(n - (q - 1)) + i]
  <2> TAKE i \in 1..(q - 1)
  <2>1. i + 1 \in 1..q /\ (n - q) + (i + 1) = (n - (q - 1)) + i
    BY <1>2
  <2>2. queue[i + 1] = acts[(n - q) + (i + 1)]
    BY <1>2, <2>1
  <2>3. QED
    BY <1>4, <2>1, <2>2
<1>8. QED
  BY <1>1, <1>2, <1>3, <1>4, <1>6, <1>7

(* WriterSends: the oldest event leaves it.                                  *)
LEMMA WriteKeeps ==
  ASSUME Promised, QueueInv, acts \in Seq(Range(acts)), WriterSends
  PROVE  QueueInv'
<1>1. acts' = acts /\ emitted' = emitted
  BY DEF WriterSends, env
<1>2. CASE queue # <<>> /\ queue' = Tail(queue)
  <2>0. PICK w : w = Tail(queue)
    OBVIOUS
  <2>1. PICK n \in Nat, q \in Nat : n = emitted /\ q = Len(queue) /\ w = Tail(queue)
    BY <1>2, <2>0, OldestLeaves DEF QueueInv
  <2>2. /\ w \in Seq(Range(acts)) /\ Len(w) = q - 1 /\ q # 0
        /\ \A i \in 1..Len(w) : w[i] = acts[(n - Len(w)) + i]
    BY <1>2, <2>1, OldestLeaves
  <2>3. q <= n /\ n <= Len(acts)
    BY <2>1 DEF QueueInv
  <2>4. up' \in Seq(Byte)
    <3>1. up' = up \/ up' = up \o encode(into_proto_message(Head(queue)))
      BY <1>2 DEF WriterSends
    <3>2. PICK m : m = into_proto_message(Head(queue))
      OBVIOUS
    <3>3. Writable(m)
      BY <1>2, <3>2, OldestLeaves DEF Promised
    <3>4. encode(m) \in Seq(Byte)
      BY <3>3, FrameBytes
    <3>5. up \in Seq(Byte)
      BY DEF QueueInv
    <3>6. up \o encode(m) \in Seq(Byte)
      BY <3>4, <3>5, Concat
    <3>7. QED
      BY <3>1, <3>2, <3>5, <3>6
  <2>5. q - 1 <= n
    BY <2>3
  <2>6. QED
    BY <1>1, <1>2, <2>1, <2>2, <2>3, <2>4, <2>5 DEF QueueInv
<1>3. CASE UNCHANGED <<queue, up>>
  BY <1>1, <1>3 DEF QueueInv
<1>4. QED
  BY <1>2, <1>3 DEF WriterSends

(* Every step keeps the queue.                                               *)
LEMMA QueueStep ==
  ASSUME Promised, QueueInv, acts \in Seq(Range(acts)), [Next]_vars
  PROVE  QueueInv'
<1>1. CASE UserActs
  BY <1>1, EmitKeeps
<1>2. CASE WriterSends
  BY <1>2, WriteKeeps
<1>3. CASE ~UserActs /\ ~WriterSends
  <2>1. UNCHANGED <<acts, emitted, queue, up>>
    BY <1>3 DEF Next, vars, env, user, HostSends, HostCloses, NetNext, HandshakeRead, Handshake,
       Apply, Read, HoldFires, WriterChecks, RenderReturns, Join, EmbeddedReads, Ingest
  <2>2. QED
    BY <2>1 DEF QueueInv
<1>4. QED
  BY <1>1, <1>2, <1>3

(* Every step keeps the invariant of a session.                              *)
LEMMA SessionStep ==
  ASSUME SessionInv, [Next]_vars
  PROVE  SessionInv'
<1>1. script' = script /\ acts' = acts
  BY EnvStays DEF env
<1>2. Promised'
  BY <1>1 DEF SessionInv, Promised
<1>3. FramesTyped'
  BY <1>1 DEF SessionInv, FramesTyped
<1>4. NetInv'
  BY NetStep DEF SessionInv, Promised
<1>5. QueueInv'
  BY QueueStep DEF SessionInv, NetInv, Says
<1>6. QED
  BY <1>2, <1>3, <1>4, <1>5 DEF SessionInv

(* SessionInv is an invariant.                                               *)
LEMMA SessionAlways == PayloadsDecode /\ Spec => []SessionInv
<1>1. Init /\ PayloadsDecode => SessionInv
  BY SessionInit
<1>2. SessionInv /\ [Next]_vars => SessionInv'
  BY SessionStep
<1>3. QED
  BY <1>1, <1>2, PTL DEF Spec

(* It says that what is delivered is in order.                               *)
LEMMA InOrder ==
  ASSUME SessionInv
  PROVE  DeliversInOrder
<1>1. script \in Seq(Range(script)) /\ sent \in 0..Len(script) /\ AllWritable(script)
  BY DEF SessionInv, NetInv, Says, Promised
<1>2. CASE Beyond
  BY <1>2 DEF Beyond, DeliversInOrder
<1>3. CASE ~Beyond
  <2>1. PICK k \in 0..sent : Passed(k)
    BY <1>3 DEF SessionInv, NetInv
  <2>2. applied = SubSeq(script, 1, k) /\ frames = Events(applied) \o Ending(net)
        /\ Held(script, sent, hostOpen, inbuf, down, k)
    BY <2>1 DEF Passed
  <2>3. PICK n \in Nat, r \in Nat : n = Len(script) /\ r = Readable /\ r <= n
    <3>1. Len(script) \in Nat
      BY <1>1, LengthIsNat
    <3>2. QED
      BY <1>1, <3>1, ReadableAll
  <2>4. k \in Nat /\ k <= n /\ k <= sent
    BY <1>1, <2>3
  <2>5. k <= r
    <3>1. SUFFICES ASSUME ~(k <= r)
                   PROVE  FALSE
      OBVIOUS
    <3>2. r < n /\ r + 1 \in 1..k
      BY <2>4, <3>1
    <3>3. ~Fits(script[r + 1])
      BY <1>1, <2>3, <3>2, ReadableAll
    <3>4. \A i \in 1..k : Fits(script[i])
      BY <2>2 DEF Held
    <3>5. QED
      BY <3>2, <3>3, <3>4
  <2>6. applied \in Seq(Range(script)) /\ Len(applied) = k
    BY <1>1, <2>2, <2>3, <2>4
  <2>7. IsPrefix(applied, SubSeq(script, 1, Readable))
    <3>1. PICK t : t = SubSeq(script, 1, r)
      OBVIOUS
    <3>2. Len(t) = r
      BY <1>1, <2>3, <3>1
    <3>3. SubSeq(t, 1, k) = SubSeq(script, 1, k)
      BY <1>1, <2>3, <2>4, <2>5, <3>1
    <3>4. SubSeq(applied, 1, k) = applied
      BY <2>6
    <3>5. k <= Len(t)
      BY <2>5, <3>2
    <3>6. IsPrefix(applied, t)
      BY <2>2, <2>6, <3>3, <3>4, <3>5 DEF IsPrefix
    <3>7. QED
      BY <2>3, <3>1, <3>6
  <2>8. PICK E : E = Events(applied)
    OBVIOUS
  <2>9. E \in Seq(EventsOf(Range(script)))
    BY <2>6, <2>8, EventsConcat
  <2>10. IsPrefix(Events(applied), frames) /\ Len(frames) - Len(Events(applied)) \in {0, 1}
    <3>1. PICK l \in Nat : l = Len(E)
      BY <2>9, LengthIsNat
    <3>2. CASE net = "ended"
      <4>1. frames = Append(E, [ev |-> "Quit"])
        BY <2>2, <2>8, <2>9, <3>2, AppendIs DEF Ending
      <4>2. Len(frames) = l + 1 /\ SubSeq(frames, 1, l) = E /\ SubSeq(E, 1, l) = E
        BY <2>9, <3>1, <4>1
      <4>3. l <= l + 1 /\ (l + 1) - l = 1
        OBVIOUS
      <4>4. QED
        BY <2>8, <3>1, <4>2, <4>3 DEF IsPrefix
    <3>3. CASE net # "ended"
      <4>1. frames = E
        BY <2>2, <2>8, <2>9, <3>3, AppendIs DEF Ending
      <4>2. l <= l /\ l - l = 0
        OBVIOUS
      <4>3. QED
        BY <2>8, <3>1, <4>1, <4>2 DEF IsPrefix
    <3>4. QED
      BY <3>2, <3>3
  <2>11. ASSUME mode # "embedded", net = "read", Len(applied) < Readable
         PROVE  Len(inbuf) < Len(encode(script[Len(applied) + 1]))
    <3>1. Failed(decode(inbuf))
      BY <2>11 DEF SessionInv, NetInv
    <3>2. k < r
      BY <2>3, <2>6, <2>11
    <3>3. k < n /\ k + 1 \in 1..n /\ k + 1 <= r
      BY <2>3, <2>4, <3>2
    <3>4. Fits(script[k + 1])
      BY <1>1, <2>3, <3>3, ReadableAll
    <3>5. QED
      BY <1>1, <2>2, <2>3, <2>6, <3>1, <3>3, <3>4, HeldIsShort
  <2>12. QED
    BY <2>7, <2>10, <2>11 DEF DeliversInOrder
<1>4. QED
  BY <1>2, <1>3

(* DeliversInOrder: however the messages of the host are cut up and put      *)
(* together by the connection, whichever reads the handshake, the loop or an *)
(* embedding application do, the render loop has the events of the messages  *)
(* applied, each once and in the order sent, and what is applied is a prefix *)
(* of what was sent.                                                         *)
THEOREM DeliveredInOrder == PayloadsDecode /\ Spec => []DeliversInOrder
<1>1. SessionInv => DeliversInOrder
  BY InOrder
<1>2. QED
  BY <1>1, SessionAlways, PTL

(* A frame with nothing behind it.                                           *)
LEMMA NothingBehind ==
  ASSUME NEW e \in Seq(Byte)
  PROVE  e \o <<>> = e /\ <<>> \in Seq(Byte)
OBVIOUS

(* So it is read back.                                                       *)
LEMMA DecodesAlone ==
  ASSUME NEW m, Writable(m)
  PROVE  decode(encode(m)) = IF Fits(m) THEN Ok(m, <<>>) ELSE Err("MessageTooLarge")
<1>1. PICK e \in Seq(Byte) : e = encode(m)
  BY FrameBytes
<1>2. e \o <<>> = e /\ <<>> \in Seq(Byte)
  BY NothingBehind
<1>3. decode(e \o <<>>) = IF Fits(m) THEN Ok(m, <<>>) ELSE Err("MessageTooLarge")
  BY <1>1, <1>2, FrameRead
<1>4. QED
  BY <1>1, <1>2, <1>3

(* Draining it gives the one message.                                        *)
LEMMA DrainsOne ==
  ASSUME NEW m, Writable(m), Fits(m)
  PROVE  DecodeAll(encode(m)) = [msgs |-> <<m>>, rest |-> <<>>, bad |-> FALSE]
<1>1. PICK e \in Seq(Byte) : e = encode(m)
  BY FrameBytes
<1>2. decode(e) = Ok(m, <<>>)
  BY <1>1, DecodesAlone
<1>3. <<>> \in Seq(Byte)
  OBVIOUS
<1>4. PICK D : D = DecodeAll(<<>>)
  OBVIOUS
<1>5. D = [msgs |-> <<>>, rest |-> <<>>, bad |-> FALSE]
  <2>1. Failed(decode(<<>>)) /\ decode(<<>>) = Incomplete
    BY NothingIncomplete, AwaitedCut
  <2>2. D = [msgs |-> <<>>, rest |-> <<>>, bad |-> decode(<<>>) # Incomplete]
    BY <1>3, <1>4, <2>1, DecodeAllEnd
  <2>3. (decode(<<>>) # Incomplete) = FALSE
    BY <2>1
  <2>4. QED
    BY <2>2, <2>3
<1>6. DecodeAll(e) = [D EXCEPT !.msgs = <<m>> \o D.msgs]
  BY <1>2, <1>4, DecodeAllStep
<1>7. <<m>> \o <<>> = <<m>>
  OBVIOUS
<1>8. D.msgs = <<>>
  BY <1>5
<1>9. DecodeAll(e) = [D EXCEPT !.msgs = <<m>>]
  BY <1>6, <1>7, <1>8
<1>10. QED
  BY <1>1, <1>5, <1>9

(* A step of a session writes the oldest event or none.                      *)
LEMMA InputStep ==
  ASSUME SessionInv, [Next]_vars
  PROVE  [InputWritten]_vars
<1>1. SUFFICES ASSUME up' # up
               PROVE  InputWritten
  BY DEF InputWritten
<1>2. WriterSends
  BY <1>1 DEF Next, vars, HostSends, HostCloses, NetNext, HandshakeRead, Handshake,
       Apply, Read, HoldFires, WriterChecks, RenderReturns, Join, EmbeddedReads, Ingest, UserActs
<1>3. queue # <<>> /\ up' = up \o encode(into_proto_message(Head(queue)))
  BY <1>1, <1>2 DEF WriterSends
<1>4. Promised /\ QueueInv /\ acts \in Seq(Range(acts)) /\ up \in Seq(Byte)
  BY DEF SessionInv, NetInv, Says, QueueInv
<1>5. PICK i : i = (emitted - Len(queue)) + 1
  OBVIOUS
<1>6. i \in 1..Len(acts) /\ Head(queue) = acts[i]
  BY <1>3, <1>4, <1>5, OldestLeaves
<1>7. PICK m : m = into_proto_message(acts[i])
  OBVIOUS
<1>8. Writable(m)
  BY <1>4, <1>6, <1>7 DEF Promised
<1>9. PICK e \in Seq(Byte) : e = encode(m)
  BY <1>8, FrameBytes
<1>10. up' = up \o e
  BY <1>3, <1>6, <1>7, <1>9
<1>11. SubSeq(up', 1, Len(up)) = up /\ SubSeq(up', Len(up) + 1, Len(up')) = e
  BY <1>4, <1>10, Parts
<1>12. Fits(m) => DecodeAll(e) = [msgs |-> <<m>>, rest |-> <<>>, bad |-> FALSE]
  BY <1>8, <1>9, DrainsOne
<1>13. QED
  BY <1>5, <1>7, <1>11, <1>12 DEF InputWritten

(* HostReadsInputs: what WriterSends puts on the connection is one whole     *)
(* frame behind those already there, and decodes to the oldest of the events *)
(* not sent.                                                                 *)
THEOREM InputsReadInOrder == PayloadsDecode /\ Spec => HostReadsInputs
<1>1. SessionInv /\ [Next]_vars => [InputWritten]_vars
  BY InputStep
<1>2. QED
  BY <1>1, SessionAlways, PTL DEF Spec, HostReadsInputs

(* A number field is written in its width.                                   *)
LEMMA NumberWritten ==
  ASSUME NEW m, NEW kind \in {"u8", "u16", "u32", "u64"}, NEW v
  PROVE  WriteField(m, kind, v) = Le(v, Width[kind])
<1>1. WriteField(m, kind, v) = WriteScalar(kind, v)
  BY DEF WriteField, Row
<1>2. WriteScalar(kind, v) = Le(v, Width[kind])
  BY DEF WriteScalar
<1>3. QED
  BY <1>1, <1>2

(* The widths of the number fields.                                          *)
LEMMA Widths == Width["u8"] = 1 /\ Width["u16"] = 2 /\ Width["u32"] = 4 /\ Width["u64"] = 8
BY DEF Width

(* A number is as many bytes as its width.                                   *)
LEMMA LeIsSeq ==
  ASSUME NEW v, NEW n \in Nat
  PROVE  Le(v, n) \in Seq(Range(Le(v, n))) /\ Len(Le(v, n)) = n
<1>1. PICK g : g = [i \in 1..n |-> IF i > 4 THEN 0 ELSE (v \div Power[i]) % 256]
  OBVIOUS
<1>2. DOMAIN g = 1..n /\ g = [i \in 1..n |-> g[i]]
  BY <1>1
<1>3. \A i \in 1..n : g[i] \in Range(g)
  BY <1>2 DEF Range
<1>4. g \in Seq(Range(g)) /\ Len(g) = n
  BY <1>2, <1>3
<1>5. QED
  BY <1>1, <1>4 DEF Le

(* RAW is a byte of zero.                                                    *)
LEMMA LeZero == Le(0, 1) = <<0>>
<1>1. (0 \div 1) % 256 = 0
  BY SMT
<1>2. Power[1] = 1
  BY DEF Power
<1>3. Le(0, 1) = [i \in 1..1 |-> 0]
  <2>1. \A i \in 1..1 : (IF i > 4 THEN 0 ELSE (0 \div Power[i]) % 256) = 0
    BY <1>1, <1>2
  <2>2. QED
    BY <2>1 DEF Le
<1>4. [i \in 1..1 |-> 0] = <<0>>
  OBVIOUS
<1>5. QED
  BY <1>3, <1>4

----------------------------------------------------------------------------
(***************************************************************************)
(* WebSocket frames: what encode_ws_item writes by hand.                   *)
(***************************************************************************)

(* One more piece makes it longer by the piece.                              *)
Longer(P, k, j) == Len(Joined(P)[j]) = Len(Joined(P)[k]) + Len(P[j])

(* The pieces joined are longer by the piece.                                *)
LEMMA JoinedLonger ==
  ASSUME NEW S, NEW n \in Nat, NEW P, \A i \in 1..n : P[i] \in Seq(S), NEW k \in Nat,
         NEW j \in 1..n, j = k + 1
  PROVE  Longer(P, k, j)
<1>1. PICK J : J = Joined(P)
  OBVIOUS
<1>2. J[k + 1] = J[k] \o P[k + 1]
  <2>1. \A i \in Nat : J[i + 1] = J[i] \o P[i + 1]
    BY <1>1, JoinedUnfolds
  <2>2. QED
    BY <2>1
<1>3. k \in 0..n
  OBVIOUS
<1>4. J[k] \in Seq(S) /\ P[j] \in Seq(S)
  BY <1>1, <1>3, JoinedSeq
<1>5. PICK a \in Seq(S), b \in Seq(S) : a = J[k] /\ b = P[j]
  BY <1>4
<1>6. Len(a \o b) = Len(a) + Len(b)
  BY ConcatSeqs
<1>7. QED
  BY <1>1, <1>2, <1>5, <1>6 DEF Longer

(* The pieces of a payload: numbers of these widths, a byte and the pixels.  *)
FrameOf(P, n, px, hdr) ==
  /\ P \in Seq(Seq(UNION {Range(P[i]) : i \in 1..(n + 2)})) /\ Len(P) = n + 2
  /\ Len(Joined(P)[n]) + 1 = hdr
  /\ P[n + 1] = <<RAW>> /\ P[n + 2] = px

(* Pieces are sequences over what they hold.                                 *)
LEMMA RangeIn ==
  ASSUME NEW P, NEW n \in Nat, DOMAIN P = 1..n, P = [i \in 1..n |-> P[i]],
         \A i \in 1..n : P[i] \in Seq(Range(P[i]))
  PROVE  P \in Seq(Seq(UNION {Range(P[i]) : i \in 1..n})) /\ Len(P) = n
<1>1. PICK S : S = UNION {Range(P[i]) : i \in 1..n}
  OBVIOUS
<1>2. \A i \in 1..n : P[i] \in Seq(S)
  <2> TAKE i \in 1..n
  <2>1. PICK q, R : q = P[i] /\ R = Range(P[i])
    OBVIOUS
  <2>2. q \in Seq(R) /\ R \subseteq S
    BY <1>1, <2>1
  <2>3. Len(q) \in Nat /\ DOMAIN q = 1..Len(q) /\ \A j \in 1..Len(q) : q[j] \in S
    BY <2>2
  <2>4. q = [j \in 1..Len(q) |-> q[j]]
    BY <2>2
  <2>5. q \in Seq(S)
    BY <2>3, <2>4
  <2>6. QED
    BY <2>1, <2>5
<1>3. QED
  BY <1>1, <1>2

RawFrameOrder == <<"ts_us", "width", "height", "stride", "format", "compression", "pixels">>
SubframeOrder ==
  <<"ts_us", "x", "y", "w", "h", "stride", "format", "compression", "pixels">>

(* The fields of a full frame.                                               *)
LEMMA RawFrameKinds ==
  /\ Fields("RawFrame")["ts_us"] = "u64" /\ Fields("RawFrame")["width"] = "u16"
  /\ Fields("RawFrame")["height"] = "u16" /\ Fields("RawFrame")["stride"] = "u32"
  /\ Fields("RawFrame")["format"] = "u32" /\ Fields("RawFrame")["compression"] = "u8"
  /\ Fields("RawFrame")["pixels"] = "pixels"
  /\ DOMAIN Fields("RawFrame") =
        {"ts_us", "width", "height", "stride", "format", "compression", "pixels"}
<1>1. "RawFrame" \notin DOMAIN ControlFields
  BY DEF ControlFields
<1>2. "RawFrame" \in DOMAIN MediaFields
  BY DEF MediaFields
<1>3. PICK F : F = [ts_us |-> "u64", width |-> "u16", height |-> "u16", stride |-> "u32",
                    format |-> "u32", compression |-> "u8", pixels |-> "pixels"]
  OBVIOUS
<1>4. MediaFields["RawFrame"] = F
  BY <1>3 DEF MediaFields
<1>5. Fields("RawFrame") = F
  BY <1>1, <1>2, <1>4 DEF Fields
<1>6. QED
  BY <1>3, <1>5

(* The fields of a region.                                                   *)
LEMMA SubframeKinds ==
  /\ Fields("Subframe")["ts_us"] = "u64" /\ Fields("Subframe")["x"] = "u16"
  /\ Fields("Subframe")["y"] = "u16" /\ Fields("Subframe")["w"] = "u16"
  /\ Fields("Subframe")["h"] = "u16" /\ Fields("Subframe")["stride"] = "u32"
  /\ Fields("Subframe")["format"] = "u32" /\ Fields("Subframe")["compression"] = "u8"
  /\ Fields("Subframe")["pixels"] = "pixels"
  /\ DOMAIN Fields("Subframe") =
        {"ts_us", "x", "y", "w", "h", "stride", "format", "compression", "pixels"}
<1>1. "Subframe" \notin DOMAIN ControlFields
  BY DEF ControlFields
<1>2. "Subframe" \in DOMAIN MediaFields
  BY DEF MediaFields
<1>3. PICK F : F = [ts_us |-> "u64", x |-> "u16", y |-> "u16", w |-> "u16", h |-> "u16",
                    stride |-> "u32", format |-> "u32", compression |-> "u8", pixels |-> "pixels"]
  OBVIOUS
<1>4. MediaFields["Subframe"] = F
  BY <1>3 DEF MediaFields
<1>5. Fields("Subframe") = F
  BY <1>1, <1>2, <1>4 DEF Fields
<1>6. QED
  BY <1>3, <1>5

(* The order the fields of a frame are written in.                           *)
PayloadOf(r, order) ==
  encode_payload(r) =
     FlattenSeq([i \in DOMAIN order |-> WriteField(r, Fields(r.type)[order[i]], r[order[i]])])

(* The payload of a full frame is its fields in order.                       *)
LEMMA RawFramePayload ==
  ASSUME NEW r, r.type = "RawFrame"
  PROVE  PayloadOf(r, RawFrameOrder)
<1>1. "RawFrame" \in DOMAIN WriteControl /\ WriteControl["RawFrame"] = RawFrameOrder
  BY DEF WriteControl, RawFrameOrder
<1>2. RawFrameOrder \o <<>> = RawFrameOrder
  BY DEF RawFrameOrder
<1>3. r.type # "LayerUpdate"
  OBVIOUS
<1>4. encode_payload(r) = Each(RawFrameOrder, LAMBDA f : WriteField(r, Fields(r.type)[f], r[f]))
  BY <1>1, <1>2, <1>3 DEF encode_payload
<1>5. QED
  BY <1>4 DEF Each, PayloadOf

(* The payload of a region is its fields in order.                           *)
LEMMA SubframePayload ==
  ASSUME NEW r, r.type = "Subframe"
  PROVE  PayloadOf(r, SubframeOrder)
<1>1. "Subframe" \notin DOMAIN WriteControl
  BY DEF WriteControl
<1>2. WriteSession["Subframe"] = SubframeOrder
  BY DEF WriteSession, SubframeOrder
<1>3. SubframeOrder \o <<>> = SubframeOrder
  BY DEF SubframeOrder
<1>4. r.type # "LayerUpdate"
  OBVIOUS
<1>5. encode_payload(r) = Each(SubframeOrder, LAMBDA f : WriteField(r, Fields(r.type)[f], r[f]))
  BY <1>1, <1>2, <1>3, <1>4 DEF encode_payload
<1>6. QED
  BY <1>5 DEF Each, PayloadOf

PieceOf(r, order) == [i \in 1..Len(order) |-> WriteField(r, Fields(r.type)[order[i]], r[order[i]])]

(* Raw pixels are written as they are.                                       *)
LEMMA PixelsWritten ==
  ASSUME NEW r, r.compression = RAW, NEW v
  PROVE  WriteField(r, "pixels", v) = r.pixels
<1>1. WriteField(r, "pixels", v) = write_payload_geom(r, PixelWidth(r), PixelHeight(r))
  BY DEF WriteField, Row
<1>2. write_payload_geom(r, PixelWidth(r), PixelHeight(r)) = r.pixels
  BY DEF write_payload_geom, RAW, LZ4_DELTA
<1>3. QED
  BY <1>1, <1>2

(* The pieces of a full frame.                                               *)
LEMMA RawFramePieces ==
  ASSUME NEW r, r.type = "RawFrame", r.compression = RAW, r.pixels \in Seq(Byte)
  PROVE  FrameOf(PieceOf(r, RawFrameOrder), 5, r.pixels, 21)
<1>1. PICK P : P = PieceOf(r, RawFrameOrder)
  OBVIOUS
<1>2. Len(RawFrameOrder) = 7
  BY DEF RawFrameOrder
<1>3. DOMAIN P = 1..7 /\ P = [i \in 1..7 |-> P[i]]
  BY <1>1, <1>2 DEF PieceOf
<1>4. \A i \in 1..7 : P[i] = WriteField(r, Fields("RawFrame")[RawFrameOrder[i]], r[RawFrameOrder[i]])
  BY <1>1, <1>2 DEF PieceOf
<1>5. /\ P[1] = WriteField(r, "u64", r["ts_us"]) /\ P[2] = WriteField(r, "u16", r["width"])
      /\ P[3] = WriteField(r, "u16", r["height"]) /\ P[4] = WriteField(r, "u32", r["stride"])
      /\ P[5] = WriteField(r, "u32", r["format"]) /\ P[6] = WriteField(r, "u8", RAW)
      /\ P[7] = WriteField(r, "pixels", r["pixels"])
  <2>1. /\ RawFrameOrder[1] = "ts_us" /\ RawFrameOrder[2] = "width" /\ RawFrameOrder[3] = "height"
        /\ RawFrameOrder[4] = "stride" /\ RawFrameOrder[5] = "format"
        /\ RawFrameOrder[6] = "compression" /\ RawFrameOrder[7] = "pixels"
    BY DEF RawFrameOrder
  <2>2. 1 \in 1..7 /\ 2 \in 1..7 /\ 3 \in 1..7 /\ 4 \in 1..7 /\ 5 \in 1..7 /\ 6 \in 1..7 /\ 7 \in 1..7
    OBVIOUS
  <2>3. QED
    BY <1>4, <2>1, <2>2, RawFrameKinds
<1>6. /\ P[1] = Le(r["ts_us"], 8) /\ P[2] = Le(r["width"], 2) /\ P[3] = Le(r["height"], 2)
      /\ P[4] = Le(r["stride"], 4) /\ P[5] = Le(r["format"], 4)
  BY <1>5, NumberWritten, Widths
<1>7. P[6] = <<RAW>> /\ P[7] = r.pixels
  <2>1. P[6] = Le(RAW, 1)
    BY <1>5, NumberWritten, Widths
  <2>2. P[6] = <<RAW>>
    BY <2>1, LeZero DEF RAW
  <2>3. QED
    BY <1>5, <2>2, PixelsWritten
<1>8. /\ P[1] \in Seq(Range(P[1])) /\ P[2] \in Seq(Range(P[2])) /\ P[3] \in Seq(Range(P[3]))
      /\ P[4] \in Seq(Range(P[4])) /\ P[5] \in Seq(Range(P[5]))
      /\ Len(P[1]) = 8 /\ Len(P[2]) = 2 /\ Len(P[3]) = 2 /\ Len(P[4]) = 4 /\ Len(P[5]) = 4
  <2>1. \A v : Le(v, 8) \in Seq(Range(Le(v, 8))) /\ Len(Le(v, 8)) = 8
    BY LeIsSeq
  <2>2. \A v : Le(v, 2) \in Seq(Range(Le(v, 2))) /\ Len(Le(v, 2)) = 2
    BY LeIsSeq
  <2>3. \A v : Le(v, 4) \in Seq(Range(Le(v, 4))) /\ Len(Le(v, 4)) = 4
    BY LeIsSeq
  <2>4. QED
    BY <1>6, <2>1, <2>2, <2>3
<1>9. P[6] \in Seq(Range(P[6])) /\ P[7] \in Seq(Range(P[7]))
  <2>1. <<RAW>> \in Seq(Range(<<RAW>>))
    BY DEF Range
  <2>2. r.pixels \in Seq(Range(r.pixels))
    BY DEF Range
  <2>3. QED
    BY <1>7, <2>1, <2>2
<1>10. \A i \in 1..7 : P[i] \in Seq(Range(P[i]))
  <2> TAKE i \in 1..7
  <2>1. i = 1 \/ i = 2 \/ i = 3 \/ i = 4 \/ i = 5 \/ i = 6 \/ i = 7
    OBVIOUS
  <2>2. QED
    BY <1>8, <1>9, <2>1
<1>11. PICK S : S = UNION {Range(P[i]) : i \in 1..7}
  OBVIOUS
<1>12. P \in Seq(Seq(S)) /\ Len(P) = 7 /\ \A i \in 1..7 : P[i] \in Seq(S)
  <2>1. P \in Seq(Seq(S)) /\ Len(P) = 7
    BY <1>3, <1>10, <1>11, RangeIn
  <2>2. \A i \in 1..7 : P[i] \in Seq(S)
    BY <2>1, ItemOf
  <2>3. QED
    BY <2>1, <2>2
<1>13. PICK J : J = Joined(P)
  OBVIOUS
<1>14. Len(J[5]) = 20
  <2>0. Len(J[0]) = 0
    <3>1. J[0] = <<>>
      BY <1>13, JoinedUnfolds
    <3>2. QED
      BY <3>1
  <2>1. Len(J[1]) = 8
    <3>1. 0 \in Nat /\ 1 \in 1..7 /\ 1 = 0 + 1 /\ 7 \in Nat
      OBVIOUS
    <3>2. Longer(P, 0, 1)
      BY <1>12, <3>1, JoinedLonger
    <3>3. Len(J[1]) = Len(J[0]) + Len(P[1])
      BY <1>13, <3>2 DEF Longer
    <3>4. Len(P[1]) = 8
      BY <1>8
    <3>5. 0 + 8 = 8
      OBVIOUS
    <3>6. QED
      BY <2>0, <3>3, <3>4, <3>5
  <2>2. Len(J[2]) = 10
    <3>1. 1 \in Nat /\ 2 \in 1..7 /\ 2 = 1 + 1 /\ 7 \in Nat
      OBVIOUS
    <3>2. Longer(P, 1, 2)
      BY <1>12, <3>1, JoinedLonger
    <3>3. Len(J[2]) = Len(J[1]) + Len(P[2])
      BY <1>13, <3>2 DEF Longer
    <3>4. Len(P[2]) = 2
      BY <1>8
    <3>5. 8 + 2 = 10
      OBVIOUS
    <3>6. QED
      BY <2>1, <3>3, <3>4, <3>5
  <2>3. Len(J[3]) = 12
    <3>1. 2 \in Nat /\ 3 \in 1..7 /\ 3 = 2 + 1 /\ 7 \in Nat
      OBVIOUS
    <3>2. Longer(P, 2, 3)
      BY <1>12, <3>1, JoinedLonger
    <3>3. Len(J[3]) = Len(J[2]) + Len(P[3])
      BY <1>13, <3>2 DEF Longer
    <3>4. Len(P[3]) = 2
      BY <1>8
    <3>5. 10 + 2 = 12
      OBVIOUS
    <3>6. QED
      BY <2>2, <3>3, <3>4, <3>5
  <2>4. Len(J[4]) = 16
    <3>1. 3 \in Nat /\ 4 \in 1..7 /\ 4 = 3 + 1 /\ 7 \in Nat
      OBVIOUS
    <3>2. Longer(P, 3, 4)
      BY <1>12, <3>1, JoinedLonger
    <3>3. Len(J[4]) = Len(J[3]) + Len(P[4])
      BY <1>13, <3>2 DEF Longer
    <3>4. Len(P[4]) = 4
      BY <1>8
    <3>5. 12 + 4 = 16
      OBVIOUS
    <3>6. QED
      BY <2>3, <3>3, <3>4, <3>5
  <2>5. Len(J[5]) = 20
    <3>1. 4 \in Nat /\ 5 \in 1..7 /\ 5 = 4 + 1 /\ 7 \in Nat
      OBVIOUS
    <3>2. Longer(P, 4, 5)
      BY <1>12, <3>1, JoinedLonger
    <3>3. Len(J[5]) = Len(J[4]) + Len(P[5])
      BY <1>13, <3>2 DEF Longer
    <3>4. Len(P[5]) = 4
      BY <1>8
    <3>5. 16 + 4 = 20
      OBVIOUS
    <3>6. QED
      BY <2>4, <3>3, <3>4, <3>5
  <2>6. QED
    BY <2>5
<1>15. 5 + 1 = 6 /\ 5 + 2 = 7 /\ 20 + 1 = 21
  OBVIOUS
<1>16. QED
  BY <1>1, <1>7, <1>11, <1>12, <1>13, <1>14, <1>15 DEF FrameOf
(* The pieces of a region.                                                   *)
LEMMA SubframePieces ==
  ASSUME NEW r, r.type = "Subframe", r.compression = RAW, r.pixels \in Seq(Byte)
  PROVE  FrameOf(PieceOf(r, SubframeOrder), 7, r.pixels, 25)
<1>1. PICK P : P = PieceOf(r, SubframeOrder)
  OBVIOUS
<1>2. Len(SubframeOrder) = 9
  BY DEF SubframeOrder
<1>3. DOMAIN P = 1..9 /\ P = [i \in 1..9 |-> P[i]]
  BY <1>1, <1>2 DEF PieceOf
<1>4. \A i \in 1..9 : P[i] = WriteField(r, Fields("Subframe")[SubframeOrder[i]], r[SubframeOrder[i]])
  BY <1>1, <1>2 DEF PieceOf
<1>5. /\ P[1] = WriteField(r, "u64", r["ts_us"])
      /\ P[2] = WriteField(r, "u16", r["x"])
      /\ P[3] = WriteField(r, "u16", r["y"])
      /\ P[4] = WriteField(r, "u16", r["w"])
      /\ P[5] = WriteField(r, "u16", r["h"])
      /\ P[6] = WriteField(r, "u32", r["stride"])
      /\ P[7] = WriteField(r, "u32", r["format"])
      /\ P[8] = WriteField(r, "u8", RAW)
      /\ P[9] = WriteField(r, "pixels", r["pixels"])
  <2>1. /\ SubframeOrder[1] = "ts_us"
        /\ SubframeOrder[2] = "x"
        /\ SubframeOrder[3] = "y"
        /\ SubframeOrder[4] = "w"
        /\ SubframeOrder[5] = "h"
        /\ SubframeOrder[6] = "stride"
        /\ SubframeOrder[7] = "format"
        /\ SubframeOrder[8] = "compression"
        /\ SubframeOrder[9] = "pixels"
    BY DEF SubframeOrder
  <2>2. 1 \in 1..9 /\ 2 \in 1..9 /\ 3 \in 1..9 /\ 4 \in 1..9 /\ 5 \in 1..9
        /\ 6 \in 1..9 /\ 7 \in 1..9 /\ 8 \in 1..9 /\ 9 \in 1..9
    OBVIOUS
  <2>3. QED
    BY <1>4, <2>1, <2>2, SubframeKinds
<1>6. /\ P[1] = Le(r["ts_us"], 8)
      /\ P[2] = Le(r["x"], 2)
      /\ P[3] = Le(r["y"], 2)
      /\ P[4] = Le(r["w"], 2)
      /\ P[5] = Le(r["h"], 2)
      /\ P[6] = Le(r["stride"], 4)
      /\ P[7] = Le(r["format"], 4)
  BY <1>5, NumberWritten, Widths
<1>7. P[8] = <<RAW>> /\ P[9] = r.pixels
  <2>1. P[8] = Le(RAW, 1)
    BY <1>5, NumberWritten, Widths
  <2>2. P[8] = <<RAW>>
    BY <2>1, LeZero DEF RAW
  <2>3. QED
    BY <1>5, <2>2, PixelsWritten
<1>8. /\ P[1] \in Seq(Range(P[1])) /\ Len(P[1]) = 8
      /\ P[2] \in Seq(Range(P[2])) /\ Len(P[2]) = 2
      /\ P[3] \in Seq(Range(P[3])) /\ Len(P[3]) = 2
      /\ P[4] \in Seq(Range(P[4])) /\ Len(P[4]) = 2
      /\ P[5] \in Seq(Range(P[5])) /\ Len(P[5]) = 2
      /\ P[6] \in Seq(Range(P[6])) /\ Len(P[6]) = 4
      /\ P[7] \in Seq(Range(P[7])) /\ Len(P[7]) = 4
  <2>1. \A v : Le(v, 8) \in Seq(Range(Le(v, 8))) /\ Len(Le(v, 8)) = 8
    BY LeIsSeq
  <2>2. \A v : Le(v, 2) \in Seq(Range(Le(v, 2))) /\ Len(Le(v, 2)) = 2
    BY LeIsSeq
  <2>3. \A v : Le(v, 4) \in Seq(Range(Le(v, 4))) /\ Len(Le(v, 4)) = 4
    BY LeIsSeq
  <2>4. QED
    BY <1>6, <2>1, <2>2, <2>3
<1>9. P[8] \in Seq(Range(P[8])) /\ P[9] \in Seq(Range(P[9]))
  <2>1. <<RAW>> \in Seq(Range(<<RAW>>))
    BY DEF Range
  <2>2. r.pixels \in Seq(Range(r.pixels))
    BY DEF Range
  <2>3. QED
    BY <1>7, <2>1, <2>2
<1>10. \A i \in 1..9 : P[i] \in Seq(Range(P[i]))
  <2> TAKE i \in 1..9
  <2>1. i = 1 \/ i = 2 \/ i = 3 \/ i = 4 \/ i = 5 \/ i = 6 \/ i = 7 \/ i = 8 \/ i = 9
    OBVIOUS
  <2>2. QED
    BY <1>8, <1>9, <2>1
<1>11. PICK S : S = UNION {Range(P[i]) : i \in 1..9}
  OBVIOUS
<1>12. P \in Seq(Seq(S)) /\ Len(P) = 9 /\ \A i \in 1..9 : P[i] \in Seq(S)
  <2>1. P \in Seq(Seq(S)) /\ Len(P) = 9
    BY <1>3, <1>10, <1>11, RangeIn
  <2>2. \A i \in 1..9 : P[i] \in Seq(S)
    BY <2>1, ItemOf
  <2>3. QED
    BY <2>1, <2>2
<1>13. PICK J : J = Joined(P)
  OBVIOUS
<1>14. Len(J[7]) = 24
  <2>0. Len(J[0]) = 0
    <3>1. J[0] = <<>>
      BY <1>13, JoinedUnfolds
    <3>2. QED
      BY <3>1
  <2>1. Len(J[1]) = 8
    <3>1. 0 \in Nat /\ 1 \in 1..9 /\ 1 = 0 + 1 /\ 9 \in Nat
      OBVIOUS
    <3>2. Longer(P, 0, 1)
      BY <1>12, <3>1, JoinedLonger
    <3>3. Len(J[1]) = Len(J[0]) + Len(P[1])
      BY <1>13, <3>2 DEF Longer
    <3>4. Len(P[1]) = 8
      BY <1>8
    <3>5. 0 + 8 = 8
      OBVIOUS
    <3>6. QED
      BY <2>0, <3>3, <3>4, <3>5
  <2>2. Len(J[2]) = 10
    <3>1. 1 \in Nat /\ 2 \in 1..9 /\ 2 = 1 + 1 /\ 9 \in Nat
      OBVIOUS
    <3>2. Longer(P, 1, 2)
      BY <1>12, <3>1, JoinedLonger
    <3>3. Len(J[2]) = Len(J[1]) + Len(P[2])
      BY <1>13, <3>2 DEF Longer
    <3>4. Len(P[2]) = 2
      BY <1>8
    <3>5. 8 + 2 = 10
      OBVIOUS
    <3>6. QED
      BY <2>1, <3>3, <3>4, <3>5
  <2>3. Len(J[3]) = 12
    <3>1. 2 \in Nat /\ 3 \in 1..9 /\ 3 = 2 + 1 /\ 9 \in Nat
      OBVIOUS
    <3>2. Longer(P, 2, 3)
      BY <1>12, <3>1, JoinedLonger
    <3>3. Len(J[3]) = Len(J[2]) + Len(P[3])
      BY <1>13, <3>2 DEF Longer
    <3>4. Len(P[3]) = 2
      BY <1>8
    <3>5. 10 + 2 = 12
      OBVIOUS
    <3>6. QED
      BY <2>2, <3>3, <3>4, <3>5
  <2>4. Len(J[4]) = 14
    <3>1. 3 \in Nat /\ 4 \in 1..9 /\ 4 = 3 + 1 /\ 9 \in Nat
      OBVIOUS
    <3>2. Longer(P, 3, 4)
      BY <1>12, <3>1, JoinedLonger
    <3>3. Len(J[4]) = Len(J[3]) + Len(P[4])
      BY <1>13, <3>2 DEF Longer
    <3>4. Len(P[4]) = 2
      BY <1>8
    <3>5. 12 + 2 = 14
      OBVIOUS
    <3>6. QED
      BY <2>3, <3>3, <3>4, <3>5
  <2>5. Len(J[5]) = 16
    <3>1. 4 \in Nat /\ 5 \in 1..9 /\ 5 = 4 + 1 /\ 9 \in Nat
      OBVIOUS
    <3>2. Longer(P, 4, 5)
      BY <1>12, <3>1, JoinedLonger
    <3>3. Len(J[5]) = Len(J[4]) + Len(P[5])
      BY <1>13, <3>2 DEF Longer
    <3>4. Len(P[5]) = 2
      BY <1>8
    <3>5. 14 + 2 = 16
      OBVIOUS
    <3>6. QED
      BY <2>4, <3>3, <3>4, <3>5
  <2>6. Len(J[6]) = 20
    <3>1. 5 \in Nat /\ 6 \in 1..9 /\ 6 = 5 + 1 /\ 9 \in Nat
      OBVIOUS
    <3>2. Longer(P, 5, 6)
      BY <1>12, <3>1, JoinedLonger
    <3>3. Len(J[6]) = Len(J[5]) + Len(P[6])
      BY <1>13, <3>2 DEF Longer
    <3>4. Len(P[6]) = 4
      BY <1>8
    <3>5. 16 + 4 = 20
      OBVIOUS
    <3>6. QED
      BY <2>5, <3>3, <3>4, <3>5
  <2>7. Len(J[7]) = 24
    <3>1. 6 \in Nat /\ 7 \in 1..9 /\ 7 = 6 + 1 /\ 9 \in Nat
      OBVIOUS
    <3>2. Longer(P, 6, 7)
      BY <1>12, <3>1, JoinedLonger
    <3>3. Len(J[7]) = Len(J[6]) + Len(P[7])
      BY <1>13, <3>2 DEF Longer
    <3>4. Len(P[7]) = 4
      BY <1>8
    <3>5. 20 + 4 = 24
      OBVIOUS
    <3>6. QED
      BY <2>6, <3>3, <3>4, <3>5
  <2>8. QED
    BY <2>7
<1>15. 7 + 1 = 8 /\ 7 + 2 = 9 /\ 24 + 1 = 25
  OBVIOUS
<1>16. QED
  BY <1>1, <1>7, <1>11, <1>12, <1>13, <1>14, <1>15 DEF FrameOf

(* A payload that ends in a byte and the pixels is its header and those.     *)
HasHeader(r, order, n, px, hdr) ==
  \E h \in Seq(Byte) :
     /\ h = Joined(PieceOf(r, order))[n] /\ Len(h) + 1 = hdr
     /\ encode_payload(r) = h \o (<<RAW>> \o px)

(* So a payload is a header, the byte of RAW and the pixels.                 *)
LEMMA FrameParts ==
  ASSUME NEW r, NEW order, NEW n \in Nat, NEW px \in Seq(Byte), NEW hdr \in Nat, Len(order) = n + 2,
         DOMAIN order = 1..(n + 2), PayloadOf(r, order), FrameOf(PieceOf(r, order), n, px, hdr),
         encode_payload(r) \in Seq(Byte)
  PROVE  HasHeader(r, order, n, px, hdr)
<1>1. PICK P, S : P = PieceOf(r, order) /\ S = UNION {Range(P[i]) : i \in 1..(n + 2)}
  OBVIOUS
<1>2. P \in Seq(Seq(S)) /\ Len(P) = n + 2 /\ Len(Joined(P)[n]) + 1 = hdr
      /\ P[n + 1] = <<RAW>> /\ P[n + 2] = px
  BY <1>1 DEF FrameOf
<1>3. PICK e \in Seq(Byte) : e = encode_payload(r)
  OBVIOUS
<1>4. e = FlattenSeq(P)
  BY <1>1, <1>3 DEF PayloadOf, PieceOf
<1>5. PICK J : J = Joined(P)
  OBVIOUS
<1>6. e = J[n + 2]
  BY <1>2, <1>4, <1>5, FlattenJoins
<1>7. J[n + 1] = J[n] \o P[n + 1] /\ J[n + 2] = J[n + 1] \o P[n + 2]
  <2>1. \A i \in Nat : J[i + 1] = J[i] \o P[i + 1]
    BY <1>5, JoinedUnfolds
  <2>2. (n + 1) + 1 = n + 2 /\ n + 1 \in Nat
    OBVIOUS
  <2>3. J[(n + 1) + 1] = J[n + 1] \o P[(n + 1) + 1]
    BY <2>1, <2>2
  <2>4. QED
    BY <2>1, <2>2, <2>3
<1>8. PICK h, b : h = J[n] /\ b = <<RAW>>
  OBVIOUS
<1>9. \A i \in 1..(n + 2) : P[i] \in Seq(S)
  BY <1>2, ItemOf
<1>10. h \in Seq(S) /\ b \in Seq(S) /\ px \in Seq(S)
  <2>1. n + 2 \in Nat /\ n \in 0..(n + 2) /\ n + 1 \in 1..(n + 2) /\ n + 2 \in 1..(n + 2)
    OBVIOUS
  <2>2. J[n] \in Seq(S)
    BY <1>5, <1>9, <2>1, JoinedSeq
  <2>3. QED
    BY <1>2, <1>8, <1>9, <2>1, <2>2
<1>11. e = (h \o b) \o px
  BY <1>2, <1>6, <1>7, <1>8
<1>12. (h \o b) \o px = h \o (b \o px) /\ b \o px \in Seq(S)
  BY <1>10, Associates, SMTT(30)
<1>13. PICK y \in Seq(S) : y = b \o px
  BY <1>12
<1>14. e = h \o y
  BY <1>11, <1>12, <1>13
<1>15. SubSeq(e, 1, Len(h)) = h
  BY <1>10, <1>14, Parts
<1>16. Len(h) \in Nat /\ Len(h) <= Len(e)
  <2>1. Len(h \o y) = Len(h) + Len(y) /\ Len(h) \in Nat /\ Len(y) \in Nat
    BY <1>10, ConcatSeqs
  <2>2. QED
    BY <1>14, <2>1
<1>17. h \in Seq(Byte)
  <2>1. PICK k \in Nat : k = Len(h)
    BY <1>16
  <2>2. SubSeq(e, 1, k) \in Seq(Byte)
    BY <1>16, <2>1, FirstB
  <2>3. QED
    BY <1>15, <2>1, <2>2
<1>18. QED
  BY <1>1, <1>2, <1>3, <1>5, <1>8, <1>13, <1>14, <1>17 DEF HasHeader

(* Left to right is the same as nested.                                      *)
RegroupsFive(u, v, h, b, x) == (((u \o v) \o h) \o b) \o x = u \o (v \o (h \o (b \o x)))

(* And of five, from left to right.                                          *)
LEMMA FiveRegrouped ==
  ASSUME NEW u \in Seq(Byte), NEW v \in Seq(Byte), NEW h \in Seq(Byte), NEW b \in Seq(Byte),
         NEW x \in Seq(Byte)
  PROVE  RegroupsFive(u, v, h, b, x)
<1>1. PICK y \in Seq(Byte) : y = b \o x
  BY Concat
<1>2. PICK z \in Seq(Byte) : z = h \o y
  BY Concat
<1>3. PICK a \in Seq(Byte) : a = u \o v
  BY Concat
<1>4. PICK c \in Seq(Byte) : c = a \o h
  BY Concat
<1>5. Regroups(c, b, x) /\ Regroups(a, h, y) /\ Regroups(u, v, z)
  BY Regrouped
<1>6. (c \o b) \o x = c \o y
  BY <1>1, <1>5 DEF Regroups
<1>7. c \o y = a \o z
  BY <1>2, <1>4, <1>5 DEF Regroups
<1>8. a \o z = u \o (v \o z)
  BY <1>3, <1>5 DEF Regroups
<1>9. QED
  BY <1>1, <1>2, <1>3, <1>4, <1>6, <1>7, <1>8 DEF RegroupsFive

(* The header of a frame written by hand.                                    *)
HeaderOf(m, hdr) ==
  Each(hdr, LAMBDA f : WriteField(m, Fields(m.type)[f], m[f]))

(* A frame written by hand: tag, length, header, RAW and the pixels.         *)
HandWritten(m, t, n, h, px) ==
  encode_ws_item(m) = (((write_varint[t] \o write_varint[n]) \o h) \o <<RAW>>) \o px

(* What encode_ws_item writes by hand, in its parts.                         *)
LEMMA WsWritten ==
  ASSUME NEW m, m.type \in DOMAIN WsHeader
  PROVE  HandWritten(m, MESSAGE_TAG[m.type], WsHeaderBytes[m.type] + Len(m.pixels),
                     HeaderOf(m, WsHeader[m.type]), m.pixels)
BY DEF encode_ws_item, HandWritten, HeaderOf

(* The first n fields of a frame, written for m or for what m is raw.        *)
SameHeader(m, r, order, n, hdr) ==
  HeaderOf(m, hdr) = Joined(PieceOf(r, order))[n]

(* The header is the same for a frame and its raw form.                      *)
LEMMA HeaderSame ==
  ASSUME NEW m, NEW r, m.type = r.type, NEW order, NEW hdr, NEW n \in Nat,
         DOMAIN order = 1..(n + 2), Len(order) = n + 2, DOMAIN hdr = 1..n,
         \A i \in 1..n : hdr[i] = order[i] /\ r[hdr[i]] = m[hdr[i]],
         \A i \in 1..n : Fields(m.type)[hdr[i]] \in {"u8", "u16", "u32", "u64"},
         \A i \in 1..(n + 2) :
           PieceOf(r, order)[i] \in Seq(UNION {Range(PieceOf(r, order)[j]) : j \in 1..(n + 2)})
  PROVE  SameHeader(m, r, order, n, hdr)
<1>1. PICK P, S : P = PieceOf(r, order) /\ S = UNION {Range(P[j]) : j \in 1..(n + 2)}
  OBVIOUS
<1>2. PICK Q : Q = [i \in 1..n |-> WriteField(m, Fields(m.type)[hdr[i]], m[hdr[i]])]
  OBVIOUS
<1>3. HeaderOf(m, hdr) = FlattenSeq(Q)
  BY <1>2 DEF HeaderOf, Each
<1>4. \A i \in 1..n : Q[i] = P[i]
  <2> TAKE i \in 1..n
  <2>1. PICK kind, v : kind = Fields(m.type)[hdr[i]] /\ v = m[hdr[i]]
    OBVIOUS
  <2>2. kind \in {"u8", "u16", "u32", "u64"}
    BY <2>1
  <2>3. Q[i] = WriteField(m, kind, v)
    BY <1>2, <2>1
  <2>4. i \in 1..(n + 2)
    OBVIOUS
  <2>5. P[i] = WriteField(r, kind, v)
    BY <1>1, <2>1, <2>4 DEF PieceOf
  <2>6. WriteField(m, kind, v) = Le(v, Width[kind]) /\ WriteField(r, kind, v) = Le(v, Width[kind])
    BY <2>2, NumberWritten
  <2>7. QED
    BY <2>3, <2>5, <2>6
<1>5. \A i \in 1..n : P[i] \in Seq(S)
  BY <1>1
<1>6. Q \in Seq(Seq(S)) /\ Len(Q) = n
  BY <1>2, <1>4, <1>5
<1>7. FlattenSeq(Q) = Joined(Q)[n]
  BY <1>6, FlattenJoins
<1>8. Joined(Q)[n] = Joined(P)[n]
  <2>1. \A k \in 0..n : Joined(Q)[k] = Joined(P)[k]
    BY <1>4, JoinedLocal
  <2>2. QED
    BY <2>1
<1>9. QED
  BY <1>1, <1>3, <1>7, <1>8 DEF SameHeader

WsSame(m) == encode_ws_item(m) = encode(Raw(m))

(* A frame written by hand is the frame encode writes of the raw message.    *)
LEMMA HandIsEncoded ==
  ASSUME NEW m, NEW r, Writable(r), NEW px \in Seq(Byte), NEW h \in Seq(Byte), NEW hdr \in Nat,
         Len(h) + 1 = hdr, encode_payload(r) = h \o (<<RAW>> \o px),
         NEW t, MESSAGE_TAG[r.type] = t, HandWritten(m, t, hdr + Len(px), h, px)
  PROVE  encode_ws_item(m) = encode(r)
<1>1. PICK b \in Seq(Byte) : b = <<RAW>> /\ Len(b) = 1
  <2>1. <<RAW>> \in Seq(Byte) /\ Len(<<RAW>>) = 1
    BY DEF RAW, Byte
  <2>2. QED
    BY <2>1
<1>2. PICK p \in Seq(Byte) : p = encode_payload(r) /\ Half31(Len(p))
  BY DEF Writable
<1>3. PICK y \in Seq(Byte) : y = b \o px
  BY Concat
<1>4. p = h \o y
  BY <1>1, <1>2, <1>3
<1>5. Len(p) = hdr + Len(px)
  <2>1. PICK k \in Nat, l \in Nat, q \in Nat : k = Len(h) /\ l = Len(px) /\ q = Len(y)
    BY Concat
  <2>2. q = 1 + l
    BY <1>1, <1>3, <2>1, Concat
  <2>3. Len(p) = k + q
    BY <1>4, <2>1, Concat
  <2>4. k + 1 = hdr
    BY <2>1
  <2>5. k + (1 + l) = (k + 1) + l
    OBVIOUS
  <2>6. QED
    BY <2>1, <2>2, <2>3, <2>4, <2>5
<1>6. t \in 1..146
  BY TagIsSmall DEF Writable
<1>7. PICK n \in Nat : n = Len(p)
  BY LengthIsNat
<1>8. VarintOf(write_varint[t], t) /\ VarintOf(write_varint[n], n)
  BY <1>2, <1>6, <1>7, TagIsHalf, VarintWritten
<1>9. PICK u \in Seq(Byte), v \in Seq(Byte) : u = write_varint[t] /\ v = write_varint[n]
  BY <1>8, Zenon DEF VarintOf
<1>10. encode_ws_item(m) = (((u \o v) \o h) \o b) \o px
  BY <1>1, <1>5, <1>7, <1>9 DEF HandWritten
<1>11. (((u \o v) \o h) \o b) \o px = u \o (v \o (h \o (b \o px)))
  <2>1. RegroupsFive(u, v, h, b, px)
    BY FiveRegrouped
  <2>2. QED
    BY <2>1 DEF RegroupsFive
<1>12. encode(r) = Framed(t, p)
  BY <1>2, <1>6, EncodeFrames DEF Writable
<1>13. Framed(t, p) = u \o (v \o p)
  BY <1>7, <1>9 DEF Framed
<1>14. QED
  BY <1>3, <1>4, <1>10, <1>11, <1>12, <1>13

(* Of a full frame the two writers make the same bytes.                      *)
LEMMA RawFrameSame ==
  ASSUME NEW m, m.type = "RawFrame", DOMAIN m = {"type"} \cup DOMAIN Fields("RawFrame"),
         m.pixels \in Seq(Byte), Writable(Raw(m))
  PROVE  WsSame(m)
<1>1. PICK r : r = Raw(m)
  OBVIOUS
<1>2. r = [m EXCEPT !.compression = RAW]
  BY <1>1 DEF Raw, WsHeader
<1>3. r.type = "RawFrame" /\ r.compression = RAW /\ r.pixels = m.pixels
  BY <1>2, RawFrameKinds
<1>4. /\ r["ts_us"] = m["ts_us"] /\ r["width"] = m["width"] /\ r["height"] = m["height"]
      /\ r["stride"] = m["stride"] /\ r["format"] = m["format"]
  BY <1>2, RawFrameKinds
<1>5. /\ WsHeader["RawFrame"] = <<"ts_us", "width", "height", "stride", "format">>
      /\ WsHeaderBytes["RawFrame"] = 21
  BY DEF WsHeader, WsHeaderBytes
<1>6. PICK g : g = WsHeader["RawFrame"]
  OBVIOUS
<1>7. /\ DOMAIN g = 1..5 /\ g[1] = "ts_us" /\ g[2] = "width" /\ g[3] = "height" /\ g[4] = "stride"
      /\ g[5] = "format"
  BY <1>5, <1>6
<1>8. DOMAIN RawFrameOrder = 1..(5 + 2) /\ Len(RawFrameOrder) = 5 + 2
  BY DEF RawFrameOrder
<1>9. /\ RawFrameOrder[1] = "ts_us" /\ RawFrameOrder[2] = "width" /\ RawFrameOrder[3] = "height"
      /\ RawFrameOrder[4] = "stride" /\ RawFrameOrder[5] = "format"
  BY DEF RawFrameOrder
<1>10. \A i \in 1..5 : i = 1 \/ i = 2 \/ i = 3 \/ i = 4 \/ i = 5
  OBVIOUS
<1>11. \A i \in 1..5 : g[i] = RawFrameOrder[i] /\ r[g[i]] = m[g[i]]
  BY <1>4, <1>7, <1>9, <1>10
<1>12. \A i \in 1..5 : Fields(m.type)[g[i]] \in {"u8", "u16", "u32", "u64"}
  BY <1>7, <1>10, RawFrameKinds
<1>13. FrameOf(PieceOf(r, RawFrameOrder), 5, m.pixels, 21)
  BY <1>3, RawFramePieces
<1>14. SameHeader(m, r, RawFrameOrder, 5, g)
  <2>1. \A i \in 1..(5 + 2) : PieceOf(r, RawFrameOrder)[i] \in
              Seq(UNION {Range(PieceOf(r, RawFrameOrder)[j]) : j \in 1..(5 + 2)})
    <3>1. PICK P, S : P = PieceOf(r, RawFrameOrder) /\ S = Seq(UNION {Range(P[i]) : i \in 1..(5 + 2)})
      OBVIOUS
    <3>2. P \in Seq(S) /\ Len(P) = 5 + 2
      BY <1>13, <3>1 DEF FrameOf
    <3>3. \A i \in 1..(5 + 2) : P[i] \in S
      BY <3>2, ItemOf
    <3>4. QED
      BY <3>1, <3>3
  <2>2. 5 \in Nat /\ m.type = r.type
    BY <1>3
  <2>3. QED
    BY <1>7, <1>8, <1>11, <1>12, <2>1, <2>2, HeaderSame
<1>15. PayloadOf(r, RawFrameOrder)
  BY <1>3, RawFramePayload
<1>16. encode_payload(r) \in Seq(Byte) /\ Half31(Len(encode_payload(r)))
  BY <1>1 DEF Writable
<1>17. PICK h \in Seq(Byte) : /\ h = Joined(PieceOf(r, RawFrameOrder))[5] /\ Len(h) + 1 = 21
                             /\ encode_payload(r) = h \o (<<RAW>> \o m.pixels)
  <2>1. 5 \in Nat /\ 21 \in Nat
    OBVIOUS
  <2>2. HasHeader(r, RawFrameOrder, 5, m.pixels, 21)
    BY <1>8, <1>13, <1>15, <1>16, <2>1, FrameParts
  <2>3. QED
    BY <2>2 DEF HasHeader
<1>18. HeaderOf(m, g) = h
  BY <1>14, <1>17 DEF SameHeader
<1>19. HandWritten(m, MESSAGE_TAG["RawFrame"], 21 + Len(m.pixels), h, m.pixels)
  <2>1. m.type \in DOMAIN WsHeader
    BY DEF WsHeader
  <2>2. HandWritten(m, MESSAGE_TAG[m.type], WsHeaderBytes[m.type] + Len(m.pixels),
                    HeaderOf(m, WsHeader[m.type]), m.pixels)
    BY <2>1, WsWritten
  <2>3. QED
    BY <1>5, <1>6, <1>18, <2>2
<1>20. 21 \in Nat /\ MESSAGE_TAG[r.type] = MESSAGE_TAG["RawFrame"]
  BY <1>3
<1>21. encode_ws_item(m) = encode(r)
  BY <1>1, <1>17, <1>19, <1>20, HandIsEncoded
<1>22. QED
  BY <1>1, <1>21 DEF WsSame

(* And of a region.                                                          *)
LEMMA SubframeSame ==
  ASSUME NEW m, m.type = "Subframe", DOMAIN m = {"type"} \cup DOMAIN Fields("Subframe"),
         m.pixels \in Seq(Byte), Writable(Raw(m))
  PROVE  WsSame(m)
<1>1. PICK r : r = Raw(m)
  OBVIOUS
<1>2. r = [m EXCEPT !.compression = RAW]
  BY <1>1 DEF Raw, WsHeader
<1>3. r.type = "Subframe" /\ r.compression = RAW /\ r.pixels = m.pixels
  BY <1>2, SubframeKinds
<1>4. /\ r["ts_us"] = m["ts_us"] /\ r["x"] = m["x"] /\ r["y"] = m["y"] /\ r["w"] = m["w"]
      /\ r["h"] = m["h"] /\ r["stride"] = m["stride"] /\ r["format"] = m["format"]
  BY <1>2, SubframeKinds
<1>5. /\ WsHeader["Subframe"] = <<"ts_us", "x", "y", "w", "h", "stride", "format">>
      /\ WsHeaderBytes["Subframe"] = 25
  BY DEF WsHeader, WsHeaderBytes
<1>6. PICK g : g = WsHeader["Subframe"]
  OBVIOUS
<1>7. /\ DOMAIN g = 1..7 /\ g[1] = "ts_us" /\ g[2] = "x" /\ g[3] = "y" /\ g[4] = "w" /\ g[5] = "h"
      /\ g[6] = "stride" /\ g[7] = "format"
  BY <1>5, <1>6
<1>8. DOMAIN SubframeOrder = 1..(7 + 2) /\ Len(SubframeOrder) = 7 + 2
  BY DEF SubframeOrder
<1>9. /\ SubframeOrder[1] = "ts_us" /\ SubframeOrder[2] = "x" /\ SubframeOrder[3] = "y"
      /\ SubframeOrder[4] = "w" /\ SubframeOrder[5] = "h" /\ SubframeOrder[6] = "stride"
      /\ SubframeOrder[7] = "format"
  BY DEF SubframeOrder
<1>10. \A i \in 1..7 : i = 1 \/ i = 2 \/ i = 3 \/ i = 4 \/ i = 5 \/ i = 6 \/ i = 7
  OBVIOUS
<1>11. \A i \in 1..7 : g[i] = SubframeOrder[i] /\ r[g[i]] = m[g[i]]
  BY <1>4, <1>7, <1>9, <1>10
<1>12. \A i \in 1..7 : Fields(m.type)[g[i]] \in {"u8", "u16", "u32", "u64"}
  BY <1>7, <1>10, SubframeKinds
<1>13. FrameOf(PieceOf(r, SubframeOrder), 7, m.pixels, 25)
  BY <1>3, SubframePieces
<1>14. SameHeader(m, r, SubframeOrder, 7, g)
  <2>1. \A i \in 1..(7 + 2) : PieceOf(r, SubframeOrder)[i] \in
              Seq(UNION {Range(PieceOf(r, SubframeOrder)[j]) : j \in 1..(7 + 2)})
    <3>1. PICK P, S : P = PieceOf(r, SubframeOrder) /\ S = Seq(UNION {Range(P[i]) : i \in 1..(7 + 2)})
      OBVIOUS
    <3>2. P \in Seq(S) /\ Len(P) = 7 + 2
      BY <1>13, <3>1 DEF FrameOf
    <3>3. \A i \in 1..(7 + 2) : P[i] \in S
      BY <3>2, ItemOf
    <3>4. QED
      BY <3>1, <3>3
  <2>2. 7 \in Nat /\ m.type = r.type
    BY <1>3
  <2>3. QED
    BY <1>7, <1>8, <1>11, <1>12, <2>1, <2>2, HeaderSame
<1>15. PayloadOf(r, SubframeOrder)
  BY <1>3, SubframePayload
<1>16. encode_payload(r) \in Seq(Byte) /\ Half31(Len(encode_payload(r)))
  BY <1>1 DEF Writable
<1>17. PICK h \in Seq(Byte) : /\ h = Joined(PieceOf(r, SubframeOrder))[7] /\ Len(h) + 1 = 25
                             /\ encode_payload(r) = h \o (<<RAW>> \o m.pixels)
  <2>1. 7 \in Nat /\ 25 \in Nat
    OBVIOUS
  <2>2. HasHeader(r, SubframeOrder, 7, m.pixels, 25)
    BY <1>8, <1>13, <1>15, <1>16, <2>1, FrameParts
  <2>3. QED
    BY <2>2 DEF HasHeader
<1>18. HeaderOf(m, g) = h
  BY <1>14, <1>17 DEF SameHeader
<1>19. HandWritten(m, MESSAGE_TAG["Subframe"], 25 + Len(m.pixels), h, m.pixels)
  <2>1. m.type \in DOMAIN WsHeader
    BY DEF WsHeader
  <2>2. HandWritten(m, MESSAGE_TAG[m.type], WsHeaderBytes[m.type] + Len(m.pixels),
                    HeaderOf(m, WsHeader[m.type]), m.pixels)
    BY <2>1, WsWritten
  <2>3. QED
    BY <1>5, <1>6, <1>18, <2>2
<1>20. 25 \in Nat /\ MESSAGE_TAG[r.type] = MESSAGE_TAG["Subframe"]
  BY <1>3
<1>21. encode_ws_item(m) = encode(r)
  BY <1>1, <1>17, <1>19, <1>20, HandIsEncoded
<1>22. QED
  BY <1>1, <1>21 DEF WsSame

(* encode_ws_item writes what encode would of the raw message.               *)
LEMMA ItemSame ==
  ASSUME NEW m, Writable(m), Writable(Raw(m)),
         m.type \in DOMAIN WsHeader =>
             DOMAIN m = {"type"} \cup DOMAIN Fields(m.type) /\ m.pixels \in Seq(Byte)
  PROVE  WsSame(m)
<1>1. DOMAIN WsHeader = {"RawFrame", "Subframe"}
  BY DEF WsHeader
<1>2. CASE m.type = "RawFrame"
  BY <1>1, <1>2, RawFrameSame
<1>3. CASE m.type = "Subframe"
  BY <1>1, <1>3, SubframeSame
<1>4. CASE m.type \notin DOMAIN WsHeader
  BY <1>4 DEF WsSame, Raw, encode_ws_item
<1>5. QED
  BY <1>1, <1>2, <1>3, <1>4

(* So a WebSocket client decodes it.                                         *)
LEMMA WsDecodes ==
  ASSUME SessionInv
  PROVE  WebItemsDecode
<1>1. SUFFICES ASSUME sent > 0, NEW m, m = script[sent], Fits(Raw(m))
               PROVE  decode(encode_ws_item(m)) = Ok(Raw(m), <<>>)
  BY DEF WebItemsDecode
<1>2. sent \in 1..Len(script)
  <2>1. script \in Seq(Range(script)) /\ sent \in 0..Len(script)
    BY DEF SessionInv, NetInv, Says
  <2>2. Len(script) \in Nat
    BY <2>1, LengthIsNat
  <2>3. QED
    BY <1>1, <2>1, <2>2
<1>3. Writable(m) /\ Writable(Raw(m))
  BY <1>1, <1>2 DEF SessionInv, Promised, AllWritable
<1>4. m.type \in DOMAIN WsHeader =>
         DOMAIN m = {"type"} \cup DOMAIN Fields(m.type) /\ m.pixels \in Seq(Byte)
  BY <1>1, <1>2 DEF SessionInv, FramesTyped
<1>5. encode_ws_item(m) = encode(Raw(m))
  BY <1>3, <1>4, ItemSame DEF WsSame
<1>6. decode(encode(Raw(m))) = Ok(Raw(m), <<>>)
  BY <1>1, <1>3, DecodesAlone
<1>7. QED
  BY <1>5, <1>6

(* WebItemsDecode: every message a session is to say, written by hand for a  *)
(* WebSocket client by encode_ws_item, decodes to the message without its    *)
(* compression and leaves nothing of it behind.                              *)
THEOREM WebItemsDecoded == PayloadsDecode /\ Spec => []WebItemsDecode
<1>1. SessionInv => WebItemsDecode
  BY WsDecodes
<1>2. QED
  BY <1>1, SessionAlways, PTL

============================================================================
