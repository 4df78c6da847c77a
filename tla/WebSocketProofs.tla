--------------------------- MODULE WebSocketProofs ---------------------------
(***************************************************************************)
(* Proofs about WebSocket, for any payloads, masks and replies, any number *)
(* of frames, and any lengths at which the header's form changes, those of *)
(* the code (126, 65536 and 8 MiB) among them.                             *)
(*                                                                         *)
(* First the bytes: what is written reads back (Decode), wherever it is    *)
(* cut.  Then two logs of frames: the client's, over all bytes it has ever *)
(* sent, and the server's, over what it has written.  The invariant says   *)
(* that a log of the client's frames explains what the server has emitted, *)
(* what it keeps and what is under way; the results follow from it.        *)
(***************************************************************************)
EXTENDS WebSocket, SequenceTheorems, TLAPS

-----------------------------------------------------------------------------

(* What a byte of the model is: the first of a header, the second, or a    *)
(* number.                                                                 *)
Byte == [fin : BOOLEAN, op : Opcode] \cup [masked : BOOLEAN, len : Nat] \cup Nat

(* A frame's mask: none, or the four bytes of the field.                   *)
Mask == {<< >>} \cup [1..4 -> Bits]

(* The bytes of a frame: header, mask, payload. Both writers are cases of  *)
(* it (Encodes, PlainBytes).                                               *)
Written(f, mask) ==
  Header(f.fin, f.op, mask # << >>, Len(f.data)) \o mask
    \o (IF mask = << >> THEN f.data ELSE Masked(f.data, mask))

(* The bytes a length takes beyond the second byte of the header.          *)
Ext(n) == IF n < Short THEN 0 ELSE IF n < Medium THEN 2 ELSE 8

(* What concatenation gives, in the form the proofs below use.             *)
LEMMA Joined ==
  ASSUME NEW S, NEW p \in Seq(S), NEW q \in Seq(S)
  PROVE  /\ p \o q \in Seq(S) /\ Len(p \o q) = Len(p) + Len(q)
         /\ \A i \in 1..(Len(p) + Len(q)) : (p \o q)[i] = IF i <= Len(p) THEN p[i] ELSE q[i - Len(p)]
BY ConcatProperties

(* The two numbers of the writer, two and eight bytes long, read back.     *)
LEMMA UInt16Read ==
  ASSUME NEW n \in Nat
  PROVE  /\ UInt16(n) \in Seq(Byte) /\ Len(UInt16(n)) = 2
         /\ 256 * UInt16(n)[1] + UInt16(n)[2] = n
BY DEF UInt16, Byte

LEMMA UInt64Read ==
  ASSUME NEW n \in Nat
  PROVE  /\ UInt64(n) \in Seq(Byte) /\ Len(UInt64(n)) = 8
         /\ ReadUInt64(UInt64(n), 1) = n
<1> DEFINE a == n \div 65536
           b == a \div 65536
           c == b \div 65536
           k == b % 65536
           l == a % 65536
           m == n % 65536
           w == UInt16(c)
           x == UInt16(k)
           y == UInt16(l)
           z == UInt16(m)
           p == w \o x
           q == p \o y
           s == q \o z
<1>1. UInt64(n) = s
  BY DEF UInt64
<1>2. n = 65536 * a + m /\ m \in Nat /\ a \in Nat
  OBVIOUS
<1> HIDE DEF a, m
<1>3. a = 65536 * b + l /\ l \in Nat /\ b \in Nat
  BY <1>2
<1> HIDE DEF b, l
<1>4. b = 65536 * c + k /\ k \in Nat /\ c \in Nat
  BY <1>3
<1> HIDE DEF c, k
<1>5. /\ w \in Seq(Byte) /\ Len(w) = 2 /\ 256 * w[1] + w[2] = c
      /\ x \in Seq(Byte) /\ Len(x) = 2 /\ 256 * x[1] + x[2] = k
      /\ y \in Seq(Byte) /\ Len(y) = 2 /\ 256 * y[1] + y[2] = l
      /\ z \in Seq(Byte) /\ Len(z) = 2 /\ 256 * z[1] + z[2] = m
  BY <1>2, <1>3, <1>4, UInt16Read
<1> HIDE DEF w, x, y, z
<1>6. w \in Seq(Byte) /\ x \in Seq(Byte) /\ y \in Seq(Byte) /\ z \in Seq(Byte)
  BY <1>5
<1>7. p \in Seq(Byte)
  BY <1>6, Joined
<1>8. /\ Len(p) = Len(w) + Len(x)
      /\ \A i \in 1..(Len(w) + Len(x)) : p[i] = IF i <= Len(w) THEN w[i] ELSE x[i - Len(w)]
  BY <1>6, Joined
<1> HIDE DEF p
<1>9. q \in Seq(Byte)
  BY <1>6, <1>7, Joined
<1>10. /\ Len(q) = Len(p) + Len(y)
      /\ \A i \in 1..(Len(p) + Len(y)) : q[i] = IF i <= Len(p) THEN p[i] ELSE y[i - Len(p)]
  BY <1>6, <1>7, Joined
<1> HIDE DEF q
<1>11. s \in Seq(Byte)
  BY <1>6, <1>9, Joined
<1>12. /\ Len(s) = Len(q) + Len(z)
      /\ \A i \in 1..(Len(q) + Len(z)) : s[i] = IF i <= Len(q) THEN q[i] ELSE z[i - Len(q)]
  BY <1>6, <1>9, Joined
<1> HIDE DEF s
<1>13. Len(p) = 4 /\ Len(q) = 6 /\ Len(s) = 8
  BY <1>5, <1>8, <1>10, <1>12
<1>14. p[1] = w[1] /\ p[2] = w[2] /\ p[3] = x[1] /\ p[4] = x[2]
  BY <1>5, <1>8
<1>15. /\ q[1] = p[1] /\ q[2] = p[2] /\ q[3] = p[3] /\ q[4] = p[4]
       /\ q[5] = y[1] /\ q[6] = y[2]
  BY <1>5, <1>10, <1>13
<1>16. /\ s[1] = q[1] /\ s[2] = q[2] /\ s[3] = q[3] /\ s[4] = q[4]
       /\ s[5] = q[5] /\ s[6] = q[6] /\ s[7] = z[1] /\ s[8] = z[2]
  BY <1>5, <1>12, <1>13
<1>17. ReadUInt64(s, 1) = 65536 * (65536 * (65536 * (256 * s[1] + s[2]) + (256 * s[3] + s[4]))
                                     + (256 * s[5] + s[6])) + (256 * s[7] + s[8])
  BY DEF ReadUInt64, ReadUInt16
<1>18. ReadUInt64(s, 1) = 65536 * (65536 * (65536 * c + k) + l) + m
  BY <1>5, <1>14, <1>15, <1>16, <1>17
<1>19. ReadUInt64(s, 1) = n
  BY <1>2, <1>3, <1>4, <1>18
<1> QED
  BY <1>1, <1>13, <1>19, <1>11

(* A header, byte by byte.                                                 *)
LEMMA HeaderForm ==
  ASSUME NEW fin \in BOOLEAN, NEW op \in Opcode, NEW masked \in BOOLEAN, NEW n \in Nat,
         NEW H, H = Header(fin, op, masked, n)
  PROVE  /\ H \in Seq(Byte) /\ Len(H) = 2 + Ext(n)
         /\ H[1].fin = fin /\ H[1].op = op /\ H[2].masked = masked
         /\ H[2].len = IF Ext(n) = 0 THEN n ELSE IF Ext(n) = 2 THEN Short ELSE Short + 1
         /\ Ext(n) = 2 => ReadUInt16(H, 3) = n
         /\ Ext(n) = 8 => ReadUInt64(H, 3) = n
<1> DEFINE second(l) == <<[fin |-> fin, op |-> op], [masked |-> masked, len |-> l]>>
<1>1. ASSUME NEW l \in Nat
      PROVE  /\ second(l) \in Seq(Byte) /\ Len(second(l)) = 2
             /\ second(l)[1].fin = fin /\ second(l)[1].op = op
             /\ second(l)[2].masked = masked /\ second(l)[2].len = l
  BY DEF Byte
<1>2. /\ Header(fin, op, masked, n)
           = IF n < Short THEN second(n)
             ELSE IF n < Medium THEN second(Short) \o UInt16(n)
             ELSE second(Short + 1) \o UInt64(n)
      /\ Short \in Nat /\ Medium \in Nat
  BY WebSocketAssumption DEF Header
<1> HIDE DEF second
<1>3. CASE n < Short
  BY <1>1, <1>2, <1>3 DEF Ext
<1>4. CASE ~(n < Short) /\ n < Medium
  <2> DEFINE p == second(Short)
             q == UInt16(n)
  <2>1. /\ p \in Seq(Byte) /\ Len(p) = 2 /\ q \in Seq(Byte) /\ Len(q) = 2
        /\ 256 * q[1] + q[2] = n
        /\ p[1].fin = fin /\ p[1].op = op /\ p[2].masked = masked /\ p[2].len = Short
    BY <1>1, <1>2, UInt16Read
  <2>2. Header(fin, op, masked, n) = p \o q
    BY <1>2, <1>4
  <2> HIDE DEF p, q
  <2> DEFINE c == p \o q
  <2>3. /\ c \in Seq(Byte) /\ Len(c) = Len(p) + Len(q)
        /\ \A i \in 1..(Len(p) + Len(q)) : c[i] = IF i <= Len(p) THEN p[i] ELSE q[i - Len(p)]
    BY <2>1, Joined
  <2> HIDE DEF c
  <2>4. /\ c[1] = p[1] /\ c[2] = p[2]
        /\ c[3] = q[1] /\ c[4] = q[2]
    BY <2>1, <2>3
  <2>5. ReadUInt16(c, 3) = n
    BY <2>1, <2>4 DEF ReadUInt16
  <2>6. Ext(n) = 2
    BY <1>4 DEF Ext
  <2> QED
    BY <2>1, <2>2, <2>3, <2>5, <2>6, <2>4 DEF c
<1>5. CASE ~(n < Short) /\ ~(n < Medium)
  <2> DEFINE p == second(Short + 1)
             q == UInt64(n)
  <2>1. /\ p \in Seq(Byte) /\ Len(p) = 2 /\ q \in Seq(Byte) /\ Len(q) = 8
        /\ p[1].fin = fin /\ p[1].op = op /\ p[2].masked = masked /\ p[2].len = Short + 1
    BY <1>1, <1>2, UInt64Read
  <2>2. /\ Header(fin, op, masked, n) = p \o q
        /\ ReadUInt64(q, 1) = n
    BY <1>2, <1>5, UInt64Read
  <2> HIDE DEF p, q
  <2> DEFINE c == p \o q
  <2>3. /\ c \in Seq(Byte) /\ Len(c) = Len(p) + Len(q)
        /\ \A i \in 1..(Len(p) + Len(q)) : c[i] = IF i <= Len(p) THEN p[i] ELSE q[i - Len(p)]
    BY <2>1, Joined
  <2> HIDE DEF c
  <2>4. /\ c[1] = p[1] /\ c[2] = p[2]
        /\ c[3] = q[1] /\ c[4] = q[2] /\ c[5] = q[3] /\ c[6] = q[4]
        /\ c[7] = q[5] /\ c[8] = q[6] /\ c[9] = q[7] /\ c[10] = q[8]
    BY <2>1, <2>3
  <2>5. ReadUInt64(c, 3) = ReadUInt64(q, 1)
    BY <2>1, <2>4 DEF ReadUInt64, ReadUInt16
  <2>6. Ext(n) = 8
    BY <1>5 DEF Ext
  <2> QED
    BY <2>1, <2>2, <2>3, <2>5, <2>6, <2>4 DEF c
<1> QED
  BY <1>3, <1>4, <1>5

LEMMA MaskForm ==
  ASSUME NEW mask \in Mask
  PROVE  /\ mask \in Seq(Bits)
         /\ Len(mask) = IF mask = << >> THEN 0 ELSE 4
<1>1. CASE mask = << >>
  BY <1>1
<1>2. CASE mask # << >>
  <2>1. mask \in [1..4 -> Bits]
    BY <1>2 DEF Mask
  <2>2. mask \in Seq(Bits)
    <3>1. mask \in UNION {[1..n -> Bits] : n \in Nat}
      BY <2>1, 4 \in Nat, Zenon
    <3> QED
      BY <3>1, SeqDef, Zenon
  <2>3. Len(mask) = 4
    BY <2>1, <2>2
  <2> QED
    BY <1>2, <2>2, <2>3
<1> QED
  BY <1>1, <1>2

(* Masking with the same mask again gives the payload back.                *)
LEMMA MaskedForm ==
  ASSUME NEW data \in Seq(Bits), NEW mask \in [1..4 -> Bits]
  PROVE  /\ Masked(data, mask) \in Seq(Bits)
         /\ Len(Masked(data, mask)) = Len(data)
         /\ \A i \in 1..Len(data) :
              /\ Masked(data, mask)[i] = (data[i] + mask[((i - 1) % 4) + 1]) % 2
              /\ (Masked(data, mask)[i] + mask[((i - 1) % 4) + 1]) % 2 = data[i]
<1>1. ASSUME NEW i \in 1..Len(data)
      PROVE  data[i] \in Bits /\ mask[((i - 1) % 4) + 1] \in Bits
  <2>1. ((i - 1) % 4) + 1 \in 1..4
    OBVIOUS
  <2> QED
    BY <2>1
<1>2. ASSUME NEW a \in Bits, NEW b \in Bits
      PROVE  (a + b) % 2 \in Bits /\ (((a + b) % 2) + b) % 2 = a
  BY DEF Bits
<1>3. \A i \in 1..Len(data) : (data[i] + mask[((i - 1) % 4) + 1]) % 2 \in Bits
  BY <1>1, <1>2
<1>4. Masked(data, mask) \in Seq(Bits) /\ Len(Masked(data, mask)) = Len(data)
  BY <1>3 DEF Masked
<1>5. ASSUME NEW i \in 1..Len(data)
      PROVE  Masked(data, mask)[i] = (data[i] + mask[((i - 1) % 4) + 1]) % 2
  BY DEF Masked
<1>6. ASSUME NEW i \in 1..Len(data)
      PROVE  (Masked(data, mask)[i] + mask[((i - 1) % 4) + 1]) % 2 = data[i]
  BY <1>1, <1>2, <1>5
<1> QED
  BY <1>4, <1>5, <1>6

LEMMA Unmasked ==
  ASSUME NEW data \in Seq(Bits), NEW mask \in [1..4 -> Bits]
  PROVE  Masked(Masked(data, mask), mask) = data
<1> DEFINE m == Masked(data, mask)
<1>1. m \in Seq(Bits) /\ Len(m) = Len(data)
  BY MaskedForm
<1>2. \A i \in 1..Len(data) : (m[i] + mask[((i - 1) % 4) + 1]) % 2 = data[i]
  BY MaskedForm
<1> HIDE DEF m
<1> DEFINE n == Masked(m, mask)
<1>3. n \in Seq(Bits) /\ Len(n) = Len(data)
  BY <1>1, MaskedForm
<1>4. \A i \in 1..Len(data) : n[i] = (m[i] + mask[((i - 1) % 4) + 1]) % 2
  BY <1>1, MaskedForm
<1> HIDE DEF n
<1>5. n = data
  BY <1>2, <1>3, <1>4, SeqEqual
<1> QED
  BY <1>5 DEF n, m

Payload(f, mask) == IF mask = << >> THEN f.data ELSE Masked(f.data, mask)

(* A frame's bytes, piece by piece.                                        *)
LEMMA WrittenForm ==
  ASSUME NEW f \in Frames, NEW mask \in Mask
  PROVE  LET h == 2 + Ext(Len(f.data))
             H == Header(f.fin, f.op, mask # << >>, Len(f.data))
             P == Payload(f, mask)
         IN  /\ P \in Seq(Bits) /\ Len(P) = Len(f.data)
             /\ Written(f, mask) \in Seq(Byte)
             /\ Len(Written(f, mask)) = h + Len(mask) + Len(f.data)
             /\ \A i \in 1..h : Written(f, mask)[i] = H[i]
             /\ \A i \in 1..Len(mask) : Written(f, mask)[h + i] = mask[i]
             /\ \A i \in 1..Len(f.data) : Written(f, mask)[h + Len(mask) + i] = P[i]
<1> DEFINE n == Len(f.data)
           h == 2 + Ext(n)
           H == Header(f.fin, f.op, mask # << >>, n)
           P == Payload(f, mask)
           c == H \o mask
           W == c \o P
<1>1. /\ f.fin \in BOOLEAN /\ f.op \in Opcode /\ f.data \in Seq(Bits)
      /\ n \in Nat /\ (mask # << >>) \in BOOLEAN
  BY DEF Frames
<1>2. H \in Seq(Byte) /\ Len(H) = h
  <2> DEFINE masked == mask # << >>
  <2>1. masked \in BOOLEAN /\ H = Header(f.fin, f.op, masked, n) /\ h = 2 + Ext(n)
    OBVIOUS
  <2> HIDE DEF masked, n, H, h
  <2> QED
    BY <1>1, <2>1, HeaderForm
<1>3. mask \in Seq(Bits)
  BY MaskForm
<1>4. P \in Seq(Bits) /\ Len(P) = n
  <2>1. CASE mask = << >>
    BY <1>1, <2>1 DEF Payload
  <2>2. CASE mask # << >>
    BY <1>1, <2>2, MaskedForm DEF Payload, Mask
  <2> QED
    BY <2>1, <2>2
<1>5. \A s \in Seq(Bits) : s \in Seq(Byte)
  <2>1. Bits \subseteq Byte
    BY DEF Bits, Byte
  <2> QED
    BY <2>1, SeqMonotonic
<1>6. W = Written(f, mask)
  BY DEF Written, Payload
<1>7. mask \in Seq(Byte) /\ P \in Seq(Byte)
  BY <1>3, <1>4, <1>5
<1> HIDE DEF H, P
<1>8. H \in Seq(Byte)
  BY <1>2
<1>9. c \in Seq(Byte)
  BY <1>7, <1>8, Joined
<1>10. /\ Len(c) = Len(H) + Len(mask)
       /\ \A i \in 1..(Len(H) + Len(mask)) : c[i] = IF i <= Len(H) THEN H[i] ELSE mask[i - Len(H)]
  BY <1>7, <1>8, Joined
<1> HIDE DEF c
<1>11. W \in Seq(Byte)
  BY <1>7, <1>9, Joined
<1>12. /\ Len(W) = Len(c) + Len(P)
       /\ \A i \in 1..(Len(c) + Len(P)) : W[i] = IF i <= Len(c) THEN c[i] ELSE P[i - Len(c)]
  BY <1>7, <1>9, Joined
<1> HIDE DEF W
<1>13. h \in Nat /\ n \in Nat /\ Len(mask) \in Nat
  BY <1>1, <1>3 DEF Ext
<1> HIDE DEF h, n
<1> DEFINE l == Len(mask)
<1>14. l \in Nat
  BY <1>13
<1>15. /\ Len(c) = h + l
       /\ \A i \in 1..(h + l) : c[i] = IF i <= h THEN H[i] ELSE mask[i - h]
  BY <1>2, <1>10
<1>16. /\ Len(W) = h + l + n
       /\ \A i \in 1..(h + l + n) : W[i] = IF i <= h + l THEN c[i] ELSE P[i - (h + l)]
  BY <1>4, <1>12, <1>13, <1>15
<1> HIDE DEF l
<1>17. \A i \in 1..h : W[i] = H[i]
  BY <1>13, <1>14, <1>15, <1>16
<1>18. ASSUME NEW i \in 1..l PROVE W[h + i] = mask[i]
  <2>1. h + i \in 1..(h + l) /\ h + i \in 1..(h + l + n) /\ ~(h + i <= h) /\ (h + i) - h = i
    BY <1>13, <1>14
  <2> QED
    BY <1>13, <1>14, <1>15, <1>16, <2>1
<1>19. ASSUME NEW i \in 1..n PROVE W[h + l + i] = P[i]
  <2>1. h + l + i \in 1..(h + l + n) /\ ~(h + l + i <= h + l) /\ (h + l + i) - (h + l) = i
    BY <1>13, <1>14
  <2> QED
    BY <1>13, <1>14, <1>16, <2>1
<1> QED
  BY <1>4, <1>6, <1>11, <1>16, <1>17, <1>18, <1>19 DEF l, h, n, H, P

(* A part of a sequence is the sequence that agrees with it.               *)
LEMMA SubSeqIs ==
  ASSUME NEW S, NEW T, NEW b \in Seq(S), NEW t \in Seq(T), T \subseteq S,
         NEW from \in Nat, from + Len(t) <= Len(b),
         \A i \in 1..Len(t) : b[from + i] = t[i]
  PROVE  SubSeq(b, from + 1, from + Len(t)) = t
<1> DEFINE n == Len(t)
           c == SubSeq(b, from + 1, from + n)
<1>1. n \in Nat /\ Len(b) \in Nat /\ from + n <= Len(b)
  OBVIOUS
<1>2. t \in Seq(S)
  BY SeqMonotonic
<1>3. c \in Seq(S) /\ Len(c) = n /\ \A i \in 1..n : c[i] = b[from + i]
  <2> HIDE DEF n
  <2>1. \A i \in (from + 1)..(from + n) : b[i] \in S
    <3>1. \A i \in 1..Len(b) : b[i] \in S
      BY ElementOfSeq
    <3> QED
      BY <1>1, <3>1
  <2>2. /\ c \in Seq(S)
        /\ Len(c) = IF from + 1 <= from + n THEN (from + n) - (from + 1) + 1 ELSE 0
        /\ \A i \in 1..((from + n) - (from + 1) + 1) : c[i] = b[from + 1 + i - 1]
    BY <1>1, <2>1, SubSeqProperties
  <2> HIDE DEF c
  <2>3. Len(c) = n
    BY <1>1, <2>2
  <2>4. ASSUME NEW i \in 1..n PROVE c[i] = b[from + i]
    BY <1>1, <2>2
  <2> QED
    BY <2>2, <2>3, <2>4
<1> HIDE DEF c
<1>4. c = t
  BY <1>2, <1>3, SeqEqual
<1> QED
  BY <1>4 DEF c

(* What readFrame refuses.                                                 *)
TooLong(f, max) == Len(f.data) >= Medium /\ Len(f.data) > max

Result(f, rest) == [kind |-> "frame", frame |-> f, rest |-> rest]

(* The reader inverts the writer, whatever follows and wherever the bytes  *)
(* are cut: of the beginning of a written frame it makes nothing; of the   *)
(* whole of it, that frame and the bytes behind it; and it refuses one     *)
(* that is too long as soon as it knows.                                   *)
LEMMA Decode ==
  ASSUME NEW f \in Frames, NEW mask \in Mask, NEW max \in Nat, NEW b \in Seq(Byte),
         NEW W, W = Written(f, mask),
         \A i \in 1..Len(b) : i <= Len(W) => b[i] = W[i]
  PROVE  /\ Len(W) \in Nat
         /\ Len(b) < Len(W) => FirstFrame(b, max) \in {More, Refuse}
         /\ Len(b) >= Len(W) =>
              FirstFrame(b, max) = IF TooLong(f, max) THEN Refuse
                                   ELSE Result(f, SubSeq(b, Len(W) + 1, Len(b)))
<1> DEFINE n    == Len(f.data)
           e    == Ext(n)
           l    == Len(mask)
           masked == mask # << >>
           H    == Header(f.fin, f.op, masked, n)
           P    == Payload(f, mask)
           len7 == b[2].len
           ext  == IF len7 = Short THEN 2 ELSE IF len7 = Short + 1 THEN 8 ELSE 0
           size == IF ext = 0 THEN len7
                   ELSE IF ext = 2 THEN ReadUInt16(b, 3) ELSE ReadUInt64(b, 3)
           at   == 2 + ext + (IF b[2].masked THEN 4 ELSE 0)
           data == SubSeq(b, at + 1, at + size)
           frame == [fin  |-> b[1].fin,
                     op   |-> b[1].op,
                     data |-> IF b[2].masked
                              THEN Masked(data, SubSeq(b, at - 3, at)) ELSE data]
           rest == SubSeq(b, at + size + 1, Len(b))
           r    == FirstFrame(b, max)
<1>1. r = IF Len(b) < 2 \/ Len(b) < 2 + ext THEN More
          ELSE IF ext = 8 /\ size > max THEN Refuse
          ELSE IF Len(b) < at + size THEN More
          ELSE Result(frame, rest)
  BY DEF FirstFrame, Result
<1>2. /\ f.fin \in BOOLEAN /\ f.op \in Opcode /\ f.data \in Seq(Bits) /\ n \in Nat
      /\ masked \in BOOLEAN /\ Len(b) \in Nat
      /\ f = [fin |-> f.fin, op |-> f.op, data |-> f.data]
  BY DEF Frames
<1>3. l = (IF masked THEN 4 ELSE 0) /\ mask \in Seq(Bits)
  BY MaskForm
<1>4. e = (IF n < Short THEN 0 ELSE IF n < Medium THEN 2 ELSE 8)
  BY DEF Ext
<1>5. P \in Seq(Bits) /\ Len(P) = n
  BY WrittenForm
<1>6. Len(W) = 2 + e + l + n
  BY WrittenForm
<1>7. \A i \in 1..(2 + e) : W[i] = H[i]
  BY WrittenForm
<1>8. \A i \in 1..l : W[2 + e + i] = mask[i]
  BY WrittenForm
<1>9. \A i \in 1..n : W[2 + e + l + i] = P[i]
  BY WrittenForm
<1>10. /\ H[1].fin = f.fin /\ H[1].op = f.op /\ H[2].masked = masked
       /\ H[2].len = IF e = 0 THEN n ELSE IF e = 2 THEN Short ELSE Short + 1
       /\ e = 2 => ReadUInt16(H, 3) = n
       /\ e = 8 => ReadUInt64(H, 3) = n
  <2>1. H = Header(f.fin, f.op, masked, n) /\ e = Ext(n)
    OBVIOUS
  <2> HIDE DEF H, n, e, masked
  <2> QED
    BY <1>2, <2>1, HeaderForm
<1>11. /\ TooLong(f, max) <=> n >= Medium /\ n > max
       /\ Short \in Nat /\ Medium \in Nat /\ Short < Medium
  BY WebSocketAssumption DEF TooLong
<1>12. masked => mask \in [1..4 -> Bits] /\ f.data = Masked(P, mask)
  BY <1>2, Unmasked DEF Payload, Mask
<1>13. ~masked => f.data = P
  BY DEF Payload
<1> HIDE DEF n, e, l, H, P, masked, r
<1>14. e \in {0, 2, 8} /\ e \in Nat /\ l \in Nat
  BY <1>2, <1>3, <1>4
<1>15. ASSUME NEW i \in 1..(2 + e), i <= Len(b)
       PROVE  b[i] = H[i]
  <2>1. i \in Nat /\ i \in 1..Len(b) /\ i <= Len(W)
    BY <1>2, <1>6, <1>14, <1>15
  <2> QED
    BY <1>7, <2>1
<1>16. ASSUME Len(b) >= 2
       PROVE  /\ b[1].fin = f.fin /\ b[1].op = f.op /\ b[2].masked = masked
              /\ ext = e
  <2>1. b[1] = H[1] /\ b[2] = H[2]
    <3>1. 1 \in 1..(2 + e) /\ 2 \in 1..(2 + e) /\ 1 <= Len(b) /\ 2 <= Len(b)
      BY <1>2, <1>14, <1>16
    <3> QED
      BY <1>15, <3>1
  <2>2. len7 = IF e = 0 THEN n ELSE IF e = 2 THEN Short ELSE Short + 1
    BY <1>10, <2>1
  <2> HIDE DEF len7
  <2>3. ext = e
    BY <1>2, <1>4, <1>11, <2>2
  <2> QED
    BY <1>10, <2>1, <2>3
<1>17. ASSUME Len(b) >= 2 + e
       PROVE  size = n
  <2>1. \A i \in 1..(2 + e) : b[i] = H[i]
    <3> SUFFICES ASSUME NEW i \in 1..(2 + e) PROVE b[i] = H[i]
      OBVIOUS
    <3>1. i <= Len(b)
      BY <1>2, <1>14, <1>17
    <3> QED
      BY <1>15, <3>1
  <2>2. ext = e /\ b[2] = H[2]
    <3>1. Len(b) >= 2 /\ 2 \in 1..(2 + e)
      BY <1>2, <1>14, <1>17
    <3> QED
      BY <1>16, <2>1, <3>1
  <2> HIDE DEF ext
  <2>3. CASE e = 0
    BY <1>10, <2>2, <2>3
  <2>4. CASE e = 2
    <3>1. b[3] = H[3] /\ b[4] = H[4]
      BY <2>1, <2>4
    <3>2. ReadUInt16(b, 3) = ReadUInt16(H, 3)
      BY <3>1 DEF ReadUInt16
    <3> QED
      BY <1>10, <2>2, <2>4, <3>2
  <2>5. CASE e = 8
    <3>1. /\ b[3] = H[3] /\ b[4] = H[4] /\ b[5] = H[5] /\ b[6] = H[6]
          /\ b[7] = H[7] /\ b[8] = H[8] /\ b[9] = H[9] /\ b[10] = H[10]
      BY <2>1, <2>5
    <3>2. ReadUInt64(b, 3) = ReadUInt64(H, 3)
      BY <3>1 DEF ReadUInt64, ReadUInt16
    <3> QED
      BY <1>10, <2>2, <2>5, <3>2
  <2> QED
    BY <1>14, <2>3, <2>4, <2>5
<1> HIDE DEF ext, size, frame, rest
<1>18. ASSUME Len(b) < Len(W)
       PROVE  r \in {More, Refuse}
  <2>1. CASE Len(b) < 2 + e
    BY <1>1, <1>2, <1>14, <1>16, <2>1
  <2>2. CASE Len(b) >= 2 + e
    <3>1. at + size = Len(W)
      BY <1>2, <1>3, <1>6, <1>14, <1>16, <1>17, <2>2
    <3> HIDE DEF at
    <3> QED
      BY <1>1, <1>18, <3>1
  <2> QED
    BY <1>2, <1>14, <2>1, <2>2
<1>19. ASSUME Len(b) >= Len(W)
       PROVE  r = IF TooLong(f, max) THEN Refuse ELSE Result(f, SubSeq(b, Len(W) + 1, Len(b)))
  <2>1. /\ Len(b) >= 2 + e /\ Len(b) >= 2
        /\ ext = e /\ size = n /\ at = 2 + e + l /\ at + size = Len(W)
    <3>1. Len(b) >= 2 + e /\ Len(b) >= 2
      BY <1>2, <1>6, <1>14, <1>19
    <3>2. ext = e /\ b[2].masked = masked /\ size = n
      BY <1>16, <1>17, <3>1
    <3>3. at = 2 + e + l
      BY <1>3, <3>2
    <3> QED
      BY <1>6, <3>1, <3>2, <3>3
  <2>2. /\ b[1].fin = f.fin /\ b[1].op = f.op /\ b[2].masked = masked
    BY <1>16, <2>1
  <2> HIDE DEF at
  <2>3. TooLong(f, max) <=> ext = 8 /\ size > max
    BY <1>2, <1>4, <1>11, <2>1
  <2>4. r = IF TooLong(f, max) THEN Refuse ELSE Result(frame, rest)
    BY <1>1, <1>2, <1>14, <1>19, <2>1, <2>3
  <2>5. rest = SubSeq(b, Len(W) + 1, Len(b))
    BY <2>1 DEF rest
  <2>6. data = P
    <3>1. at \in Nat /\ at + Len(P) <= Len(b)
      BY <1>2, <1>5, <1>6, <1>14, <1>19, <2>1
    <3>2. ASSUME NEW i \in 1..Len(P) PROVE b[at + i] = P[i]
      <4>1. at + i \in 1..Len(b) /\ at + i <= Len(W) /\ i \in 1..n
        BY <1>2, <1>5, <1>6, <1>14, <1>19, <2>1
      <4> QED
        BY <1>9, <2>1, <4>1
    <3>3. Bits \subseteq Byte
      BY DEF Bits, Byte
    <3>4. SubSeq(b, at + 1, at + Len(P)) = P
      BY <1>5, <3>1, <3>2, <3>3, SubSeqIs
    <3> QED
      BY <1>5, <2>1, <3>4
  <2> HIDE DEF data
  <2>7. masked => SubSeq(b, at - 3, at) = mask
    <3> SUFFICES ASSUME masked PROVE SubSeq(b, at - 3, at) = mask
      OBVIOUS
    <3>1. l = 4 /\ Len(mask) = l /\ 2 + e \in Nat /\ (2 + e) + Len(mask) <= Len(b)
      BY <1>2, <1>3, <1>6, <1>14, <1>19 DEF l
    <3>2. ASSUME NEW i \in 1..Len(mask) PROVE b[(2 + e) + i] = mask[i]
      <4>1. i \in 1..l
        BY <3>1
      <4>2. Len(W) = 2 + e + l + n /\ Len(W) <= Len(b) /\ Len(b) \in Nat
        BY <1>2, <1>6, <1>14, <1>19
      <4>3. i \in Nat /\ 1 <= i /\ i <= l
        BY <1>14, <4>1
      <4>4. (2 + e) + i \in 1..Len(b) /\ (2 + e) + i <= Len(W)
        BY <1>2, <1>14, <4>2, <4>3
      <4> QED
        BY <1>8, <4>1, <4>4
    <3>3. Bits \subseteq Byte
      BY DEF Bits, Byte
    <3>4. SubSeq(b, (2 + e) + 1, (2 + e) + Len(mask)) = mask
      BY <1>3, <3>1, <3>2, <3>3, SubSeqIs
    <3>5. at = 2 + e + 4 /\ e \in Nat
      BY <1>14, <2>1, <3>1
    <3>6. (2 + e) + 1 = at - 3 /\ (2 + e) + Len(mask) = at
      BY <3>1, <3>5
    <3> QED
      BY <3>4, <3>6
  <2>8. frame = [fin |-> f.fin, op |-> f.op, data |-> f.data]
    BY <1>12, <1>13, <2>2, <2>6, <2>7 DEF frame
  <2> QED
    BY <1>2, <2>4, <2>5, <2>8
<1>20. Len(W) \in Nat
  BY <1>2, <1>6, <1>14
<1> QED
  BY <1>18, <1>19, <1>20 DEF r

-----------------------------------------------------------------------------
(* The text t is in bytes, after the first `from' of them.                 *)
At(bytes, from, t) ==
  /\ from + Len(t) <= Len(bytes)
  /\ \A j \in 1..Len(t) : bytes[from + j] = t[j]

(* It stays where it is when bytes follow; the last bytes are at the end;  *)
(* and it can be taken apart and joined.                                   *)
LEMMA AtLonger ==
  ASSUME NEW b \in Seq(Byte), NEW x \in Seq(Byte), NEW from \in Nat, NEW t \in Seq(Byte),
         At(b, from, t)
  PROVE  At(b \o x, from, t)
<1> DEFINE c == b \o x
           n == Len(t)
           l == Len(b)
<1>1. n \in Nat /\ l \in Nat /\ Len(x) \in Nat
  OBVIOUS
<1>2. Len(c) = l + Len(x) /\ \A i \in 1..(l + Len(x)) : c[i] = IF i <= l THEN b[i] ELSE x[i - l]
  BY Joined
<1>3. from + n <= l /\ \A j \in 1..n : b[from + j] = t[j]
  BY DEF At
<1> HIDE DEF c, n, l
<1>4. ASSUME NEW j \in 1..n PROVE c[from + j] = t[j]
  <2>1. from + j \in 1..(l + Len(x)) /\ from + j <= l
    BY <1>1, <1>3
  <2> QED
    BY <1>2, <1>3, <2>1
<1>5. from + n <= Len(c)
  BY <1>1, <1>2, <1>3
<1> QED
  BY <1>4, <1>5 DEF At, c, n

LEMMA AtEnd ==
  ASSUME NEW b \in Seq(Byte), NEW t \in Seq(Byte)
  PROVE  At(b \o t, Len(b), t)
<1> DEFINE c == b \o t
           n == Len(t)
           l == Len(b)
<1>1. n \in Nat /\ l \in Nat
  OBVIOUS
<1>2. Len(c) = l + n /\ \A i \in 1..(l + n) : c[i] = IF i <= l THEN b[i] ELSE t[i - l]
  BY Joined
<1> HIDE DEF c, n, l
<1>3. ASSUME NEW j \in 1..n PROVE c[l + j] = t[j]
  <2>1. l + j \in 1..(l + n) /\ ~(l + j <= l) /\ (l + j) - l = j
    BY <1>1
  <2> QED
    BY <1>2, <2>1
<1>4. l + n <= Len(c)
  BY <1>1, <1>2
<1> QED
  BY <1>3, <1>4 DEF At, c, n, l

LEMMA AtJoin ==
  ASSUME NEW b \in Seq(Byte), NEW from \in Nat, NEW p \in Seq(Byte), NEW q \in Seq(Byte),
         At(b, from, p), At(b, from + Len(p), q)
  PROVE  At(b, from, p \o q)
<1> DEFINE c == p \o q
           n == Len(p)
           l == Len(q)
<1>1. n \in Nat /\ l \in Nat /\ Len(b) \in Nat
  OBVIOUS
<1>2. Len(c) = n + l /\ \A i \in 1..(n + l) : c[i] = IF i <= n THEN p[i] ELSE q[i - n]
  BY Joined
<1>3. \A j \in 1..n : b[from + j] = p[j]
  BY DEF At
<1>4. from + n + l <= Len(b) /\ \A j \in 1..l : b[from + n + j] = q[j]
  BY DEF At
<1> HIDE DEF c, n, l
<1>5. ASSUME NEW j \in 1..(n + l) PROVE b[from + j] = c[j]
  <2>1. CASE j <= n
    <3>1. j \in 1..n
      BY <1>1, <2>1
    <3> QED
      BY <1>2, <1>3, <2>1, <3>1
  <2>2. CASE ~(j <= n)
    <3>1. j - n \in 1..l /\ from + n + (j - n) = from + j
      BY <1>1, <2>2
    <3> QED
      BY <1>2, <1>4, <2>2, <3>1
  <2> QED
    BY <2>1, <2>2
<1>6. from + Len(c) <= Len(b)
  BY <1>1, <1>2, <1>4
<1> QED
  BY <1>2, <1>5, <1>6 DEF At, c

LEMMA Pieces ==
  ASSUME NEW t \in Seq(Byte), NEW n \in 0..Len(t)
  PROVE  /\ SubSeq(t, 1, n) \in Seq(Byte) /\ Len(SubSeq(t, 1, n)) = n
         /\ \A j \in 1..n : SubSeq(t, 1, n)[j] = t[j]
         /\ SubSeq(t, n + 1, Len(t)) \in Seq(Byte)
         /\ Len(SubSeq(t, n + 1, Len(t))) = Len(t) - n
         /\ \A j \in 1..(Len(t) - n) : SubSeq(t, n + 1, Len(t))[j] = t[n + j]
<1> DEFINE l == Len(t)
           p == SubSeq(t, 1, n)
           q == SubSeq(t, n + 1, l)
<1>1. l \in Nat /\ n \in Nat /\ n <= l /\ \A i \in 1..l : t[i] \in Byte
  BY ElementOfSeq
<1>2. p \in Seq(Byte) /\ Len(p) = (IF 1 <= n THEN n - 1 + 1 ELSE 0) /\ \A j \in 1..(n - 1 + 1) : p[j] = t[1 + j - 1]
  <2> HIDE DEF l
  <2> QED
    BY <1>1, SubSeqProperties
<1>3. /\ q \in Seq(Byte)
      /\ Len(q) = (IF n + 1 <= l THEN l - (n + 1) + 1 ELSE 0)
      /\ \A j \in 1..(l - (n + 1) + 1) : q[j] = t[n + 1 + j - 1]
  <2> HIDE DEF l
  <2> QED
    BY <1>1, SubSeqProperties
<1> HIDE DEF p, q, l
<1>4. Len(p) = n /\ \A j \in 1..n : p[j] = t[j]
  BY <1>1, <1>2
<1>5. Len(q) = l - n /\ \A j \in 1..(l - n) : q[j] = t[n + j]
  BY <1>1, <1>3
<1> QED
  BY <1>2, <1>3, <1>4, <1>5 DEF p, q, l

LEMMA AtSplit ==
  ASSUME NEW b \in Seq(Byte), NEW from \in Nat, NEW t \in Seq(Byte), NEW n \in 0..Len(t),
         At(b, from, t)
  PROVE  /\ At(b, from, SubSeq(t, 1, n))
         /\ At(b, from + n, SubSeq(t, n + 1, Len(t)))
<1> DEFINE l == Len(t)
           p == SubSeq(t, 1, n)
           q == SubSeq(t, n + 1, l)
<1>1. l \in Nat /\ n \in Nat /\ n <= l /\ Len(b) \in Nat
  OBVIOUS
<1>2. Len(p) = n /\ \A j \in 1..n : p[j] = t[j]
  BY Pieces
<1>3. Len(q) = l - n /\ \A j \in 1..(l - n) : q[j] = t[n + j]
  BY Pieces
<1>4. from + l <= Len(b) /\ \A j \in 1..l : b[from + j] = t[j]
  BY DEF At
<1> HIDE DEF p, q, l
<1>5. At(b, from, p)
  <2>1. from + Len(p) <= Len(b)
    BY <1>1, <1>2, <1>4
  <2>2. ASSUME NEW j \in 1..n PROVE b[from + j] = p[j]
    <3>1. j \in 1..l
      BY <1>1
    <3> QED
      BY <1>2, <1>4, <3>1
  <2> QED
    BY <1>2, <2>1, <2>2 DEF At
<1>6. ASSUME NEW j \in 1..(l - n) PROVE b[from + n + j] = q[j]
  <2>1. n + j \in 1..l /\ from + n + j = from + (n + j)
    BY <1>1
  <2> QED
    BY <1>3, <1>4, <2>1
<1>7. from + n + Len(q) <= Len(b)
  BY <1>1, <1>3, <1>4
<1>8. At(b, from + n, q)
  BY <1>3, <1>6, <1>7 DEF At
<1> QED
  BY <1>5, <1>8 DEF p, q, l

-----------------------------------------------------------------------------
(* What the proof remembers of each frame the client has sent: where it    *)
(* ends among all bytes sent, and, after it, the message that is           *)
(* incomplete and how many are complete.                                   *)
Entries == [frame : Frames, mask : Mask, end : Nat,
            partial : {<< >>} \cup Messages, count : Nat]

Origin == [end |-> 0, partial |-> << >>, count |-> 0]

(* What is known after the first k frames.                                 *)
Upto(log, k) == IF k = 0 THEN Origin ELSE log[k]

Text(e) == Written(e.frame, e.mask)

(* A frame's payload behind the fragments before it.                       *)
Assembled(p, f) ==
  IF p = << >> THEN [op |-> f.op, data |-> f.data]
               ELSE [op |-> p.op, data |-> p.data \o f.data]

(* The frame of e after what is known at u: a control frame changes        *)
(* nothing, a fragment is added, a final one completes the next message.   *)
Follows(u, e, msgs) ==
  \/ /\ e.frame.op \in Control
     /\ e.partial = u.partial /\ e.count = u.count
  \/ /\ e.frame.op \notin Control
     /\ u.partial = << >> <=> e.frame.op # "continuation"
     /\ ~e.frame.fin
     /\ e.partial = Assembled(u.partial, e.frame) /\ e.count = u.count
  \/ /\ e.frame.op \notin Control
     /\ u.partial = << >> <=> e.frame.op # "continuation"
     /\ e.frame.fin
     /\ e.partial = << >> /\ e.count = u.count + 1
     /\ msgs[e.count] = Assembled(u.partial, e.frame)

(* The i-th frame is where it should be in the bytes, and its entry        *)
(* follows from the one before.                                            *)
Placed(log, all, msgs, i) ==
  /\ At(all, Upto(log, i - 1).end, Text(log[i]))
  /\ log[i].end = Upto(log, i - 1).end + Len(Text(log[i]))
  /\ Follows(Upto(log, i - 1), log[i], msgs)
  /\ log[i].count <= Len(msgs)

Chain(log, all, msgs) ==
  /\ log \in Seq(Entries) /\ all \in Seq(Byte) /\ msgs \in Seq(Messages)
  /\ \A i \in 1..Len(log) : Placed(log, all, msgs, i)

LEMMA EntryType ==
  ASSUME NEW e \in Entries
  PROVE  /\ e.frame \in Frames /\ e.mask \in Mask /\ e.end \in Nat
         /\ e.partial \in {<< >>} \cup Messages /\ e.count \in Nat
         /\ Text(e) \in Seq(Byte) /\ Len(Text(e)) \in Nat
<1>1. e.frame \in Frames /\ e.mask \in Mask
  BY DEF Entries
<1>2. Text(e) \in Seq(Byte)
  BY <1>1, WrittenForm DEF Text
<1>3. e.end \in Nat /\ e.partial \in {<< >>} \cup Messages /\ e.count \in Nat
  BY DEF Entries
<1> QED
  BY <1>1, <1>2, <1>3

LEMMA UptoType ==
  ASSUME NEW log \in Seq(Entries), NEW k \in 0..Len(log)
  PROVE  /\ Upto(log, k).end \in Nat /\ Upto(log, k).count \in Nat
         /\ Upto(log, k).partial \in {<< >>} \cup Messages
<1>1. CASE k = 0
  BY <1>1 DEF Upto, Origin
<1>2. CASE k # 0
  <2>1. k \in 1..Len(log)
    BY <1>2
  <2>2. log[k] \in Entries
    BY <2>1, ElementOfSeq
  <2> QED
    BY <1>2, <2>2, EntryType DEF Upto
<1> QED
  BY <1>1, <1>2

(* The chain holds however many bytes and messages come after it, and a    *)
(* frame is added at its end.                                              *)
LEMMA ChainLonger ==
  ASSUME NEW log, NEW all, NEW msgs, Chain(log, all, msgs), NEW x \in Seq(Byte),
         NEW more \in Seq(Messages), Len(msgs) <= Len(more),
         \A j \in 1..Len(msgs) : more[j] = msgs[j]
  PROVE  Chain(log, all \o x, more)
<1>1. log \in Seq(Entries) /\ all \in Seq(Byte) /\ msgs \in Seq(Messages)
  BY DEF Chain
<1>2. all \o x \in Seq(Byte)
  BY <1>1, Joined
<1>3. Len(msgs) \in Nat /\ Len(more) \in Nat
  BY <1>1
<1>4. ASSUME NEW i \in 1..Len(log)
      PROVE  Placed(log, all \o x, more, i)
  <2> DEFINE u == Upto(log, i - 1)
             e == log[i]
  <2>1. /\ At(all, u.end, Text(e)) /\ e.end = u.end + Len(Text(e))
        /\ Follows(u, e, msgs) /\ e.count <= Len(msgs)
    BY DEF Chain, Placed
  <2>2. i - 1 \in 0..Len(log)
    BY <1>1
  <2>3. u.end \in Nat /\ u.count \in Nat
    BY <1>1, <2>2, UptoType
  <2>4. e \in Entries
    BY <1>1, ElementOfSeq
  <2> HIDE DEF u, e
  <2>5. Text(e) \in Seq(Byte) /\ e.count \in Nat
    BY <2>4, EntryType
  <2>6. At(all \o x, u.end, Text(e))
    BY <1>1, <2>1, <2>3, <2>5, AtLonger
  <2>7. e.count = u.count + 1 => more[e.count] = msgs[e.count]
    BY <1>3, <2>1, <2>3, <2>5
  <2>8. Follows(u, e, more)
    BY <2>1, <2>7, Zenon DEF Follows
  <2>9. e.count <= Len(more)
    BY <1>3, <2>1, <2>5
  <2> QED
    BY <2>1, <2>6, <2>8, <2>9 DEF Placed, u, e
<1> QED
  BY <1>1, <1>2, <1>4 DEF Chain

LEMMA ChainAppend ==
  ASSUME NEW log, NEW all, NEW msgs, Chain(log, all, msgs),
         NEW e \in Entries,
         At(all, Upto(log, Len(log)).end, Text(e)),
         e.end = Upto(log, Len(log)).end + Len(Text(e)),
         Follows(Upto(log, Len(log)), e, msgs),
         e.count <= Len(msgs)
  PROVE  /\ Chain(Append(log, e), all, msgs)
         /\ Len(Append(log, e)) = Len(log) + 1
         /\ \A k \in 0..Len(log) : Upto(Append(log, e), k) = Upto(log, k)
         /\ Upto(Append(log, e), Len(log) + 1) = e
<1> DEFINE more == Append(log, e)
           n == Len(log)
<1>1. log \in Seq(Entries) /\ all \in Seq(Byte) /\ msgs \in Seq(Messages) /\ n \in Nat
  BY DEF Chain
<1>2. /\ more \in Seq(Entries) /\ Len(more) = n + 1 /\ more[n + 1] = e
      /\ \A i \in 1..n : more[i] = log[i]
  BY <1>1, AppendProperties
<1> HIDE DEF more
<1>3. ASSUME NEW k \in 0..n PROVE Upto(more, k) = Upto(log, k)
  <2>1. CASE k = 0
    BY <2>1 DEF Upto
  <2>2. CASE k # 0
    <3>1. k \in 1..n
      BY <1>1, <2>2
    <3> QED
      BY <1>2, <2>2, <3>1 DEF Upto
  <2> QED
    BY <2>1, <2>2
<1>4. Upto(more, n + 1) = e
  <2>1. n + 1 # 0
    BY <1>1
  <2> QED
    BY <1>2, <2>1 DEF Upto
<1>5. ASSUME NEW i \in 1..(n + 1) PROVE Placed(more, all, msgs, i)
  <2>1. i - 1 \in 0..n
    BY <1>1
  <2>2. Upto(more, i - 1) = Upto(log, i - 1)
    BY <1>3, <2>1
  <2>3. CASE i = n + 1
    <3>1. more[i] = e /\ i - 1 = n
      BY <1>1, <1>2, <2>3
    <3>2. Upto(more, i - 1) = Upto(log, n)
      BY <2>2, <3>1
    <3> QED
      BY <3>1, <3>2 DEF Placed
  <2>4. CASE i # n + 1
    <3>1. i \in 1..n
      BY <1>1, <2>4
    <3>2. more[i] = log[i]
      BY <1>2, <3>1
    <3>3. Placed(log, all, msgs, i)
      BY <3>1 DEF Chain
    <3> QED
      BY <2>2, <3>2, <3>3 DEF Placed
  <2> QED
    BY <2>3, <2>4
<1>6. Chain(more, all, msgs)
  BY <1>1, <1>2, <1>5 DEF Chain
<1> QED
  BY <1>2, <1>3, <1>4, <1>6 DEF more

-----------------------------------------------------------------------------
(* The server's frames, each where `said' has it, and together all of what *)
(* has been written. A close frame is the last, and the connection is      *)
(* closed.                                                                 *)
SaidEntries == [frame : Frames, end : Nat]

Start(s, i) == IF i = 1 THEN 0 ELSE s[i - 1].end

Plain(f) == Written(f, << >>)

Framed(bytes, s, shut) ==
  /\ bytes \in Seq(Byte) /\ s \in Seq(SaidEntries)
  /\ \A i \in 1..Len(s) :
       /\ At(bytes, Start(s, i), Plain(s[i].frame))
       /\ s[i].end = Start(s, i) + Len(Plain(s[i].frame))
       /\ s[i].frame.op = "close" => i = Len(s) /\ shut
  /\ Len(bytes) = Start(s, Len(s) + 1)

LEMMA PlainType ==
  ASSUME NEW f \in Frames
  PROVE  /\ Plain(f) \in Seq(Byte) /\ Len(Plain(f)) \in Nat
         /\ Len(f.data) \in Nat /\ Len(f.data) <= Len(Plain(f))
<1>1. << >> \in Mask /\ f.data \in Seq(Bits)
  BY DEF Mask, Frames
<1>2. /\ Plain(f) \in Seq(Byte)
      /\ Len(Plain(f)) = 2 + Ext(Len(f.data)) + Len(<< >>) + Len(f.data)
  BY <1>1, WrittenForm DEF Plain
<1>3. Ext(Len(f.data)) \in Nat /\ Len(f.data) \in Nat
  BY <1>1 DEF Ext
<1>4. Len(<< >>) = 0
  OBVIOUS
<1> QED
  BY <1>2, <1>3, <1>4

LEMMA StartType ==
  ASSUME NEW s \in Seq(SaidEntries), NEW i \in 1..(Len(s) + 1)
  PROVE  Start(s, i) \in Nat
<1>1. CASE i = 1
  BY <1>1 DEF Start
<1>2. CASE i # 1
  <2>1. i - 1 \in 1..Len(s)
    BY <1>2
  <2>2. s[i - 1] \in SaidEntries
    BY <2>1, ElementOfSeq
  <2> QED
    BY <1>2, <2>2 DEF Start, SaidEntries
<1> QED
  BY <1>1, <1>2

(* Closing the connection, or writing one more frame, keeps that.          *)
LEMMA FramedShut ==
  ASSUME NEW bytes, NEW s, NEW shut, Framed(bytes, s, shut)
  PROVE  Framed(bytes, s, TRUE)
BY Zenon DEF Framed

LEMMA FramedMore ==
  ASSUME NEW bytes, NEW s, Framed(bytes, s, FALSE), NEW f \in Frames,
         NEW shut \in BOOLEAN, f.op = "close" => shut, NEW e \in SaidEntries,
         e.frame = f, e.end = Len(bytes) + Len(Plain(f))
  PROVE  Framed(bytes \o Plain(f), Append(s, e), shut)
<1> DEFINE t == bytes \o Plain(f)
           more == Append(s, e)
           n == Len(s)
<1>1. /\ bytes \in Seq(Byte) /\ s \in Seq(SaidEntries) /\ n \in Nat
      /\ Len(bytes) \in Nat /\ Len(bytes) = Start(s, n + 1)
  BY DEF Framed
<1>2. Plain(f) \in Seq(Byte) /\ Len(Plain(f)) \in Nat
  BY PlainType
<1>3. t \in Seq(Byte)
  BY <1>1, <1>2, Joined
<1>4. Len(t) = Len(bytes) + Len(Plain(f))
  BY <1>1, <1>2, Joined
<1>5. At(t, Len(bytes), Plain(f))
  BY <1>1, <1>2, AtEnd
<1>6. /\ more \in Seq(SaidEntries) /\ Len(more) = n + 1 /\ more[n + 1] = e
      /\ \A i \in 1..n : more[i] = s[i]
  BY <1>1, AppendProperties
<1>7. \A i \in 1..n : /\ At(bytes, Start(s, i), Plain(s[i].frame))
                      /\ s[i].end = Start(s, i) + Len(Plain(s[i].frame))
                      /\ s[i].frame.op # "close"
  BY Zenon DEF Framed
<1> HIDE DEF more, t
<1>8. ASSUME NEW i \in 1..(n + 1) PROVE Start(more, i) = Start(s, i)
  <2>1. CASE i = 1
    BY <2>1 DEF Start
  <2>2. CASE i # 1
    <3>1. i - 1 \in 1..n
      BY <1>1, <2>2
    <3> QED
      BY <1>6, <2>2, <3>1 DEF Start
  <2> QED
    BY <2>1, <2>2
<1>9. ASSUME NEW i \in 1..n
      PROVE  /\ At(t, Start(more, i), Plain(more[i].frame))
             /\ more[i].end = Start(more, i) + Len(Plain(more[i].frame))
             /\ more[i].frame.op # "close"
  <2>1. i \in 1..(n + 1) /\ more[i] = s[i]
    BY <1>1, <1>6
  <2>2. s[i] \in SaidEntries
    BY <1>1, ElementOfSeq
  <2>3. s[i].frame \in Frames
    BY <2>2 DEF SaidEntries
  <2>4. Start(s, i) \in Nat /\ Plain(s[i].frame) \in Seq(Byte)
    BY <1>1, <2>1, <2>3, StartType, PlainType
  <2>5. At(t, Start(s, i), Plain(s[i].frame))
    BY <1>1, <1>2, <1>7, <2>4, AtLonger DEF t
  <2> QED
    BY <1>7, <1>8, <2>1, <2>5
<1>10. /\ At(t, Start(more, n + 1), Plain(more[n + 1].frame))
       /\ more[n + 1].end = Start(more, n + 1) + Len(Plain(more[n + 1].frame))
       /\ more[n + 1].frame.op = "close" => shut
  <2>1. n + 1 \in 1..(n + 1)
    BY <1>1
  <2>2. Start(more, n + 1) = Len(bytes)
    BY <1>1, <1>8, <2>1
  <2> QED
    BY <1>5, <1>6, <2>2
<1>11. Len(t) = Start(more, Len(more) + 1)
  <2>1. Len(more) + 1 # 1 /\ (Len(more) + 1) - 1 = n + 1
    BY <1>1, <1>6
  <2> QED
    BY <1>4, <1>6, <2>1 DEF Start
<1>12. ASSUME NEW i \in 1..Len(more)
       PROVE  /\ At(t, Start(more, i), Plain(more[i].frame))
              /\ more[i].end = Start(more, i) + Len(Plain(more[i].frame))
              /\ more[i].frame.op = "close" => i = Len(more) /\ shut
  <2>1. i \in 1..n \/ (i = n + 1 /\ i = Len(more))
    BY <1>1, <1>6
  <2> QED
    BY <1>9, <1>10, <2>1
<1> QED
  BY <1>3, <1>6, <1>11, <1>12, Zenon DEF Framed, more, t

(* Read from where a frame starts, it is the frame that was meant.         *)
LEMMA Reread ==
  ASSUME NEW bytes, NEW s, NEW shut, Framed(bytes, s, shut), NEW i \in 1..Len(s)
  PROVE  FirstFrame(SubSeq(bytes, Start(s, i) + 1, Len(bytes)), Len(bytes))
           = Result(s[i].frame, SubSeq(bytes, s[i].end + 1, Len(bytes)))
<1> DEFINE n == Len(bytes)
           from == Start(s, i)
           f == s[i].frame
           W == Plain(f)
           l == Len(W)
           b == SubSeq(bytes, from + 1, n)
           rest == SubSeq(b, l + 1, Len(b))
           end == SubSeq(bytes, s[i].end + 1, n)
<1>1. bytes \in Seq(Byte) /\ s \in Seq(SaidEntries) /\ n \in Nat
  BY DEF Framed
<1>2. At(bytes, from, W) /\ s[i].end = from + l
  BY DEF Framed
<1>3. s[i] \in SaidEntries
  BY <1>1, ElementOfSeq
<1>4. f \in Frames
  BY <1>3 DEF SaidEntries
<1>5. W \in Seq(Byte) /\ l \in Nat /\ Len(f.data) \in Nat /\ Len(f.data) <= l
  BY <1>4, PlainType
<1>6. from \in Nat
  <2>1. i \in 1..(Len(s) + 1)
    BY <1>1
  <2> QED
    BY <1>1, <2>1, StartType
<1>7. from + l <= n /\ \A j \in 1..l : bytes[from + j] = W[j]
  BY <1>2 DEF At
<1> HIDE DEF n, from, W, l
<1>8. from \in 0..n /\ from + l \in 0..n
  BY <1>1, <1>5, <1>6, <1>7
<1>9. b \in Seq(Byte) /\ Len(b) = n - from /\ \A j \in 1..(n - from) : b[j] = bytes[from + j]
  BY <1>1, <1>8, Pieces DEF n
<1>10. /\ end \in Seq(Byte) /\ Len(end) = n - (from + l)
       /\ \A j \in 1..(n - (from + l)) : end[j] = bytes[from + l + j]
  BY <1>1, <1>2, <1>8, Pieces DEF n
<1> HIDE DEF b, end, f
<1>11. l \in 0..Len(b) /\ Len(b) - l = n - (from + l)
  BY <1>1, <1>5, <1>6, <1>7, <1>9
<1>12. /\ rest \in Seq(Byte) /\ Len(rest) = n - (from + l)
       /\ \A j \in 1..(n - (from + l)) : rest[j] = b[l + j]
  BY <1>9, <1>11, Pieces
<1> HIDE DEF rest
<1>13. ASSUME NEW j \in 1..Len(rest) PROVE rest[j] = end[j]
  <2>1. j \in 1..(n - (from + l)) /\ l + j \in 1..(n - from) /\ from + (l + j) = from + l + j
    BY <1>1, <1>5, <1>6, <1>7, <1>12
  <2> QED
    BY <1>9, <1>10, <1>12, <2>1
<1>14. rest = end
  BY <1>10, <1>12, <1>13, SeqEqual
<1>15. ASSUME NEW j \in 1..Len(b), j <= l PROVE b[j] = W[j]
  <2>1. j \in 1..l /\ j \in 1..(n - from)
    BY <1>5, <1>9, <1>15
  <2> QED
    BY <1>7, <1>9, <2>1
<1>16. ~TooLong(f, n)
  BY <1>1, <1>5, <1>6, <1>7 DEF TooLong
<1>17. W = Written(f, << >>) /\ << >> \in Mask /\ l = Len(W)
  BY DEF W, Plain, Mask, l
<1>18. FirstFrame(b, n) = Result(f, rest)
  <2>1. Len(W) <= Len(b)
    BY <1>9, <1>11, <1>17
  <2>2. \A j \in 1..Len(b) : j <= Len(W) => b[j] = W[j]
    BY <1>15, <1>17
  <2>3. FirstFrame(b, n) = IF TooLong(f, n) THEN Refuse ELSE Result(f, SubSeq(b, Len(W) + 1, Len(b)))
    BY <1>1, <1>4, <1>9, <1>11, <1>17, <2>1, <2>2, Decode DEF f
  <2> QED
    BY <1>16, <1>17, <2>3 DEF rest
<1> QED
  BY <1>14, <1>18 DEF b, f, end, n, from

-----------------------------------------------------------------------------
(* The client: its log accounts for all bytes it has sent, and for its     *)
(* messages.                                                               *)
Sending(log, all) ==
  /\ Chain(log, all, sent)
  /\ Upto(log, Len(log)).end = Len(all)
  /\ Upto(log, Len(log)).partial = partial
  /\ Upto(log, Len(log)).count = Len(sent)

(* The server has read the first k frames of the log. The bytes after them *)
(* are in the buffer and, behind those, on the wire: all of them, unless a *)
(* reset has lost the rest.                                                *)
InFlight(log, all, k) ==
  /\ k \in 0..Len(log)
  /\ At(all, Upto(log, k).end, buffer)
  /\ At(all, Upto(log, k).end + Len(buffer), wire)
  /\ \/ closed /\ leaving
     \/ Len(all) = Upto(log, k).end + Len(buffer) + Len(wire)

(* The messages those frames complete have been emitted, and the fragments *)
(* kept are those of the one they leave incomplete.                        *)
Heard(u) ==
  /\ Len(got) = u.count
  /\ \A i \in 1..Len(got) : got[i] = sent[i]
  /\ u.partial # << >> => fragments = u.partial.data /\ fragmentOpcode = u.partial.op

Tracked(log, all, k) ==
  Sending(log, all) /\ InFlight(log, all, k) /\ Heard(Upto(log, k))

(* The invariant. NothingIsLeft and the channel's order do not follow from *)
(* the variables alone, for the frames read are in none of them: it says   *)
(* that there is a log of all that was sent that explains what the server  *)
(* has.                                                                    *)
Inv ==
  /\ TypeOK
  /\ wire \in Seq(Byte) /\ buffer \in Seq(Byte)
  /\ Framed(out, said, closed)
  /\ ~reading /\ ~closed => ReadFrame(buffer) = More
  /\ \E log, all, k : Tracked(log, all, k)

LEMMA ResultKinds ==
  /\ More.kind = "more" /\ Refuse.kind = "refuse" /\ More # Refuse
  /\ \A f, rest : /\ Result(f, rest).kind = "frame"
                  /\ Result(f, rest).frame = f /\ Result(f, rest).rest = rest
BY DEF More, Refuse, Result

(* What readFrame finds in the buffer is the next frame of the log, or     *)
(* nothing yet, or something to refuse; when no bytes are under way and    *)
(* frames are unread, it finds something.                                  *)
LEMMA Received ==
  ASSUME buffer \in Seq(Byte), wire \in Seq(Byte), NEW log, NEW all, NEW k,
         Sending(log, all), InFlight(log, all, k)
  PROVE  LET r == ReadFrame(buffer)
             e == log[k + 1]
             l == Len(Text(e))
         IN  /\ \/ r \in {More, Refuse}
                \/ /\ k < Len(log) /\ l \in 0..Len(buffer)
                   /\ r = Result(e.frame, SubSeq(buffer, l + 1, Len(buffer)))
             /\ wire = << >> /\ ~(closed /\ leaving) /\ k < Len(log) => r # More
<1> DEFINE r == ReadFrame(buffer)
           e == log[k + 1]
           W == Text(e)
           l == Len(W)
           u == Upto(log, k)
           n == Len(buffer)
           m == Len(wire)
<1>1. /\ log \in Seq(Entries) /\ all \in Seq(Byte) /\ k \in 0..Len(log)
      /\ n \in Nat /\ m \in Nat /\ Len(log) \in Nat /\ Len(all) \in Nat
      /\ Upto(log, Len(log)).end = Len(all) /\ MaxPayload \in Nat
  BY WebSocketAssumption DEF Sending, Chain, InFlight
<1>2. /\ At(all, u.end, buffer) /\ At(all, u.end + n, wire)
      /\ (closed /\ leaving) \/ Len(all) = u.end + n + m
  BY DEF InFlight
<1>3. u.end \in Nat
  BY <1>1, UptoType
<1>4. u.end + n <= Len(all) /\ \A j \in 1..n : all[u.end + j] = buffer[j]
  BY <1>2 DEF At
<1>5. CASE k = Len(log)
  <2>1. n = 0
    BY <1>1, <1>3, <1>4, <1>5
  <2>2. r = More
    BY <2>1 DEF ReadFrame, FirstFrame
  <2> QED
    BY <1>1, <1>5, <2>2
<1>6. CASE k # Len(log)
  <2>1. k + 1 \in 1..Len(log) /\ k < Len(log) /\ (k + 1) - 1 = k
    BY <1>1, <1>6
  <2>2. Placed(log, all, sent, k + 1)
    BY <2>1 DEF Sending, Chain
  <2>3. At(all, u.end, W)
    BY <2>1, <2>2 DEF Placed
  <2>4. e \in Entries
    BY <1>1, <2>1, ElementOfSeq
  <2> HIDE DEF e
  <2>5. e.frame \in Frames /\ e.mask \in Mask /\ W = Written(e.frame, e.mask) /\ l \in Nat
    BY <2>4, EntryType DEF Text
  <2>6. u.end + l <= Len(all) /\ \A j \in 1..l : all[u.end + j] = W[j]
    BY <2>3 DEF At
  <2> HIDE DEF W, l, n, m, u
  <2>7. ASSUME NEW j \in 1..n, j <= l PROVE buffer[j] = W[j]
    <3>1. j \in 1..l
      BY <1>1, <2>5, <2>7
    <3> QED
      BY <1>4, <2>6, <3>1
  <2>8. \A j \in 1..Len(buffer) : j <= Len(W) => buffer[j] = W[j]
    BY <2>7 DEF l, n
  <2>9. /\ Len(buffer) < Len(W) => r \in {More, Refuse}
        /\ Len(buffer) >= Len(W) =>
              r = IF TooLong(e.frame, MaxPayload) THEN Refuse
                  ELSE Result(e.frame, SubSeq(buffer, Len(W) + 1, Len(buffer)))
    <3>1. r = FirstFrame(buffer, MaxPayload)
      BY DEF ReadFrame
    <3> DEFINE f == e.frame
               mask == e.mask
    <3>2. f \in Frames /\ mask \in Mask /\ W = Written(f, mask)
      BY <2>5
    <3> HIDE DEF r, f, mask
    <3>3. MaxPayload \in Nat
      BY <1>1
    <3>4. /\ Len(buffer) < Len(W) => FirstFrame(buffer, MaxPayload) \in {More, Refuse}
          /\ Len(buffer) >= Len(W) =>
                FirstFrame(buffer, MaxPayload)
                  = IF TooLong(f, MaxPayload) THEN Refuse
                    ELSE Result(f, SubSeq(buffer, Len(W) + 1, Len(buffer)))
      BY <2>8, <3>2, <3>3, Decode
    <3> QED
      BY <3>1, <3>4 DEF f
  <2>10. \/ r \in {More, Refuse}
         \/ l \in 0..n /\ r = Result(e.frame, SubSeq(buffer, l + 1, n))
    <3>1. n < l \/ (n >= l /\ l \in 0..n)
      BY <1>1, <2>5
    <3> QED
      BY <2>9, <3>1 DEF l, n
  <2>11. ASSUME wire = << >>, ~(closed /\ leaving) PROVE r # More
    <3>1. m = 0
      BY <2>11 DEF m
    <3>2. n >= l
      BY <1>1, <1>2, <1>3, <2>5, <2>6, <2>11, <3>1
    <3>3. r = Refuse \/ r.kind = "frame"
      BY <2>9, <3>2, ResultKinds DEF l, n
    <3> QED
      BY <3>3, ResultKinds
  <2> QED
    BY <2>1, <2>10, <2>11 DEF l, n, W, e
<1> QED
  BY <1>5, <1>6

(* The bytes of sendFrame, and of the client, are those of Written.        *)
LEMMA PlainBytes ==
  ASSUME NEW op \in Opcode, NEW data \in Seq(Bits), NEW b \in Seq(Byte),
         NEW f, f = [fin |-> TRUE, op |-> op, data |-> data]
  PROVE  /\ f \in Frames
         /\ b \o ServerHeader(op, Len(data)) \o data = b \o Plain(f)
<1> DEFINE n == Len(data)
           H == ServerHeader(op, n)
           no == (<< >> # << >>)
<1>1. f \in Frames /\ f.fin = TRUE /\ f.op = op /\ f.data = data /\ n \in Nat
  BY DEF Frames
<1>2. no = FALSE
  OBVIOUS
<1>3. Header(TRUE, op, no, n) = H
  BY <1>2, Zenon DEF ServerHeader
<1>4. Plain(f) = H \o << >> \o data
  BY <1>1, <1>3 DEF Plain, Written
<1> HIDE DEF H
<1>5. H \in Seq(Byte)
  <2> DEFINE yes == TRUE
  <2>1. yes \in BOOLEAN /\ no \in BOOLEAN /\ Header(yes, op, no, n) = H
    BY <1>3
  <2> HIDE DEF yes, no, n
  <2> QED
    BY <1>1, <2>1, HeaderForm
<1>6. data \in Seq(Byte)
  <2>1. Bits \subseteq Byte
    BY DEF Bits, Byte
  <2> QED
    BY <2>1, SeqMonotonic
<1>7. H \o << >> = H
  BY <1>5, ConcatEmptySeq
<1>8. b \o H \o data = b \o (H \o data)
  BY <1>5, <1>6, ConcatAssociative
<1> QED
  BY <1>1, <1>4, <1>7, <1>8 DEF H

(* sendFrame keeps the server's frames in order.                           *)
LEMMA Sends ==
  ASSUME Framed(out, said, closed), closed \in BOOLEAN, closed' \in BOOLEAN, closed => closed',
         NEW op \in Opcode, NEW data \in Seq(Bits), SendFrame(op, data), op = "close" => closed'
  PROVE  Framed(out', said', closed')
<1>1. CASE closed
  <2>1. out' = out /\ said' = said /\ closed' = closed
    BY <1>1 DEF SendFrame
  <2> QED
    BY <2>1
<1>2. CASE ~closed
  <2> DEFINE f == [fin |-> TRUE, op |-> op, data |-> data]
             e == [frame |-> f, end |-> Len(out')]
  <2>1. out \in Seq(Byte)
    BY DEF Framed
  <2>2. /\ out' = out \o ServerHeader(op, Len(data)) \o data
        /\ said' = Append(said, e)
    BY <1>2 DEF SendFrame
  <2>3. f \in Frames /\ f.op = op
    <3>1. f \in Frames
      BY <2>1, PlainBytes
    <3> QED
      BY <3>1
  <2>4. out' = out \o Plain(f)
    BY <2>1, <2>2, PlainBytes
  <2> HIDE DEF f
  <2>5. Plain(f) \in Seq(Byte)
    BY <2>3, PlainType
  <2>6. Len(out') = Len(out) + Len(Plain(f)) /\ Len(out') \in Nat
    BY <2>1, <2>4, <2>5, Joined
  <2>7. e \in SaidEntries /\ e.frame = f /\ e.end = Len(out')
    BY <2>3, <2>6 DEF SaidEntries
  <2> HIDE DEF e
  <2>8. Framed(out, said, FALSE)
    BY <1>2
  <2> QED
    BY <2>2, <2>3, <2>4, <2>6, <2>7, <2>8, FramedMore
<1> QED
  BY <1>1, <1>2

LEMMA Counted ==
  ASSUME NEW log, NEW all, NEW msgs, Chain(log, all, msgs), NEW k \in 0..Len(log)
  PROVE  Upto(log, k).count \in Nat /\ Upto(log, k).count <= Len(msgs)
<1>1. log \in Seq(Entries) /\ msgs \in Seq(Messages)
  BY DEF Chain
<1>2. Upto(log, k).count \in Nat
  BY <1>1, UptoType
<1>3. CASE k = 0
  BY <1>1, <1>3 DEF Upto, Origin
<1>4. CASE k # 0
  <2>1. k \in 1..Len(log)
    BY <1>4
  <2>2. Placed(log, all, msgs, k)
    BY <2>1 DEF Chain
  <2> QED
    BY <1>2, <1>4, <2>2 DEF Placed, Upto
<1> QED
  BY <1>2, <1>3, <1>4

LEMMA Encodes ==
  ASSUME NEW f, NEW mask \in Masks
  PROVE  mask \in Mask /\ Encoded(f, mask) = Written(f, mask)
<1>1. mask \in [1..4 -> Bits]
  BY WebSocketAssumption
<1>2. mask \in Mask
  BY <1>1 DEF Mask
<1>3. mask # << >>
  <2>1. DOMAIN mask = 1..4 /\ DOMAIN << >> = 1..0 /\ 1 \in 1..4 /\ 1 \notin 1..0
    BY <1>1
  <2> QED
    BY <2>1
<1>4. (mask # << >>) = TRUE
  BY <1>3
<1> QED
  BY <1>2, <1>3, <1>4, Zenon DEF Encoded, Written

(* The client's frames: each is one more entry of the log.                 *)
LEMMA Transmits ==
  ASSUME Inv, NEW f \in Frames, Transmit(f),
         sent' \in Seq(Messages), partial' \in {<< >>} \cup Messages,
         Len(sent) <= Len(sent'), \A j \in 1..Len(sent) : sent'[j] = sent[j],
         ASSUME NEW u, NEW e, u.partial = partial, u.count = Len(sent),
                e.frame = f, e.partial = partial', e.count = Len(sent')
         PROVE  Follows(u, e, sent')
  PROVE  Inv'
<1>1. PICK log, all, k : Tracked(log, all, k)
  BY DEF Inv
<1>2. PICK mask \in Masks : wire' = wire \o Encoded(f, mask)
  BY DEF Transmit
<1> DEFINE W == Written(f, mask)
           u == Upto(log, Len(log))
           v == Upto(log, k)
           e == [frame |-> f, mask |-> mask, end |-> Len(all) + Len(W),
                 partial |-> partial', count |-> Len(sent')]
           bytes == all \o W
           more  == Append(log, e)
           n == Len(buffer)
           m == Len(wire)
<1>3. /\ wire \in Seq(Byte) /\ buffer \in Seq(Byte) /\ sent \in Seq(Messages)
      /\ Chain(log, all, sent) /\ log \in Seq(Entries) /\ all \in Seq(Byte)
      /\ u.end = Len(all) /\ u.partial = partial /\ u.count = Len(sent)
      /\ k \in 0..Len(log)
  BY <1>1 DEF Inv, Tracked, Sending, Chain, InFlight
<1>4. mask \in Mask /\ wire' = wire \o W
  BY <1>2, Encodes
<1>5. W \in Seq(Byte)
  BY <1>4, WrittenForm
<1>6. Len(W) \in Nat /\ Len(all) \in Nat /\ n \in Nat /\ m \in Nat /\ Len(log) \in Nat
  BY <1>3, <1>5
<1>7. /\ e \in Entries /\ Text(e) = W /\ e.end = Len(all) + Len(W)
      /\ e.frame = f /\ e.partial = partial' /\ e.count = Len(sent')
  BY <1>4, <1>6 DEF Entries, Text
<1> HIDE DEF W
<1>8. bytes \in Seq(Byte)
  BY <1>3, <1>5, Joined
<1>9. Len(bytes) = Len(all) + Len(W)
  BY <1>3, <1>5, Joined
<1>10. At(bytes, Len(all), W)
  BY <1>3, <1>5, AtEnd
<1>11. Chain(log, bytes, sent')
  BY <1>3, <1>5, ChainLonger
<1>12. Follows(u, e, sent')
  BY <1>3, <1>7
<1> HIDE DEF e, u, bytes
<1>13. /\ Chain(more, bytes, sent')
       /\ Len(more) = Len(log) + 1
       /\ \A i \in 0..Len(log) : Upto(more, i) = Upto(log, i)
       /\ Upto(more, Len(log) + 1) = e
  <2>1. At(bytes, u.end, Text(e)) /\ e.end = u.end + Len(Text(e)) /\ e.count <= Len(sent')
    BY <1>3, <1>7, <1>10
  <2> QED
    BY <1>7, <1>11, <1>12, <2>1, ChainAppend DEF u
<1> HIDE DEF more
<1>14. /\ v.end \in Nat /\ At(all, v.end, buffer) /\ At(all, v.end + n, wire)
       /\ Len(got) = v.count /\ (\A i \in 1..Len(got) : got[i] = sent[i])
       /\ v.partial # << >> => fragments = v.partial.data /\ fragmentOpcode = v.partial.op
  BY <1>1, <1>3, UptoType DEF Tracked, InFlight, Heard
<1>15. Len(all) = v.end + n + m
  BY <1>1 DEF Tracked, InFlight, Transmit
<1>16. Upto(more, k) = v
  BY <1>3, <1>13
<1>17. v.count \in Nat /\ v.count <= Len(sent)
  BY <1>3, Counted
<1> HIDE DEF v
<1>18. At(bytes, v.end, buffer)
  BY <1>3, <1>5, <1>14, AtLonger DEF bytes
<1>19. At(bytes, v.end + n, wire \o W)
  <2>1. v.end + n \in Nat /\ (v.end + n) + Len(wire) = Len(all)
    BY <1>6, <1>14, <1>15
  <2>2. At(bytes, v.end + n, wire)
    BY <1>3, <1>5, <1>14, <2>1, AtLonger DEF bytes
  <2> QED
    BY <1>3, <1>5, <1>8, <1>10, <2>1, <2>2, AtJoin
<1>20. wire' \in Seq(Byte)
  BY <1>3, <1>4, <1>5, Joined
<1>21. Len(wire') = m + Len(W)
  BY <1>3, <1>4, <1>5, Joined
<1>22. UNCHANGED <<buffer, fragments, fragmentOpcode, got, closed, reading, out, said, sends>>
  BY DEF Transmit, inbox
<1> PICK L, A : L = more /\ A = bytes
  OBVIOUS
<1>23. Sending(L, A)'
  <2>1. Chain(L, A, sent') /\ Upto(L, Len(L)) = e /\ Len(A) = Len(all) + Len(W)
    BY <1>9, <1>13
  <2>2. /\ Upto(L, Len(L)).end = Len(A)
        /\ Upto(L, Len(L)).partial = partial'
        /\ Upto(L, Len(L)).count = Len(sent')
    BY <1>7, <2>1
  <2> QED
    BY <2>1, <2>2 DEF Sending
<1>24. InFlight(L, A, k)'
  <2>1. k \in 0..Len(L)
    BY <1>3, <1>6, <1>13
  <2>2. Len(A) = v.end + n + Len(wire')
    BY <1>6, <1>9, <1>14, <1>15, <1>21
  <2>3. Upto(L, k) = v /\ At(A, v.end, buffer) /\ At(A, v.end + n, wire')
    BY <1>4, <1>16, <1>18, <1>19
  <2>4. buffer' = buffer
    BY <1>22
  <2> QED
    BY <2>1, <2>2, <2>3, <2>4 DEF InFlight
<1>25. Heard(Upto(L, k))'
  <2>1. ASSUME NEW i \in 1..Len(got) PROVE got[i] = sent'[i]
    <3>1. Len(got) <= Len(sent) /\ Len(got) \in Nat /\ Len(sent) \in Nat
      BY <1>3, <1>14, <1>17
    <3>2. i \in 1..Len(sent)
      BY <3>1
    <3> QED
      BY <1>14, <3>2
  <2>2. /\ got' = got /\ fragments' = fragments /\ fragmentOpcode' = fragmentOpcode
        /\ Upto(L, k) = v
    BY <1>16, <1>22
  <2> QED
    BY <1>14, <2>1, <2>2 DEF Heard
<1>26. \E l, a, i : Tracked(l, a, i)'
  BY <1>23, <1>24, <1>25 DEF Tracked
<1>27. TypeOK'
  <2>1. leaving' \in BOOLEAN
    BY DEF Transmit
  <2>2. frames' \in 0..MaxFrames
    BY WebSocketAssumption DEF Transmit, Inv, TypeOK
  <2> QED
    BY <1>22, <2>1, <2>2 DEF Inv, TypeOK
<1>28. /\ ~reading' /\ ~closed' => ReadFrame(buffer') = More
       /\ Framed(out', said', closed') /\ buffer' \in Seq(Byte)
  BY <1>22 DEF Inv
<1> QED
  BY <1>20, <1>26, <1>27, <1>28 DEF Inv

LEMMA MessageForm ==
  /\ \A m \in Messages : m # << >> /\ m.op \in Data /\ m.data \in Seq(Bits)
  /\ \A p \in Messages : \A data \in Seq(Bits) :
       [p EXCEPT !.data = @ \o data] = [op |-> p.op, data |-> p.data \o data]
  /\ \A p \in {<< >>} \cup Messages : \A f \in Frames :
       (p = << >> => f.op \in Data) => Assembled(p, f) \in Messages
<1>1. \A m \in Messages : m # << >> /\ m.op \in Data /\ m.data \in Seq(Bits)
  <2> SUFFICES ASSUME NEW m \in Messages
               PROVE  m # << >> /\ m.op \in Data /\ m.data \in Seq(Bits)
    OBVIOUS
  <2>1. m.op \in Data /\ m.data \in Seq(Bits)
    BY DEF Messages
  <2>2. DOMAIN m = {"op", "data"} /\ DOMAIN << >> = 1..0 /\ 1..0 = {}
    BY DEF Messages
  <2> QED
    BY <2>1, <2>2
<1>2. ASSUME NEW p \in Messages, NEW data \in Seq(Bits)
      PROVE  [p EXCEPT !.data = @ \o data] = [op |-> p.op, data |-> p.data \o data]
  <2> DEFINE x == p.data \o data
  <2>1. [p EXCEPT !.data = @ \o data] = [p EXCEPT !.data = x]
    OBVIOUS
  <2>2. p = [op |-> p.op, data |-> p.data]
    BY DEF Messages
  <2> HIDE DEF x
  <2>3. [p EXCEPT !.data = x] = [op |-> p.op, data |-> x]
    BY <2>2
  <2> QED
    BY <2>1, <2>3 DEF x
<1>3. ASSUME NEW p \in {<< >>} \cup Messages, NEW f \in Frames, p = << >> => f.op \in Data
      PROVE  Assembled(p, f) \in Messages
  <2>1. f.data \in Seq(Bits)
    BY DEF Frames
  <2>2. CASE p = << >>
    BY <1>3, <2>1, <2>2 DEF Assembled, Messages
  <2>3. CASE p # << >>
    <3>1. p.op \in Data /\ p.data \in Seq(Bits)
      BY <1>1, <2>3
    <3>2. p.data \o f.data \in Seq(Bits)
      BY <2>1, <3>1, Joined
    <3> QED
      BY <2>3, <3>1, <3>2 DEF Assembled, Messages
  <2> QED
    BY <2>2, <2>3
<1> QED
  BY <1>1, <1>2, <1>3

LEMMA OpcodeKinds ==
  /\ \A op : op \in Data \cup {"continuation"} => op \notin Control
  /\ "continuation" \notin Data
  /\ \A op \in Opcode : op \in Control \/ op \in Data \cup {"continuation"}
BY DEF Control, Data, Opcode

LEMMA FragmentStep ==
  ASSUME Inv, NEW op \in Data \cup {"continuation"}, NEW fin \in BOOLEAN,
         NEW data \in Payloads[op], ClientFragment(op, data, fin)
  PROVE  Inv'
<1> DEFINE f == [fin |-> fin, op |-> op, data |-> data]
           message == IF partial = << >> THEN [op |-> op, data |-> data]
                      ELSE [partial EXCEPT !.data = @ \o data]
<1>1. op \in Opcode /\ data \in Seq(Bits)
  BY WebSocketAssumption DEF Opcode
<1>2. f \in Frames /\ f.fin = fin /\ f.op = op /\ f.data = data
  BY <1>1 DEF Frames
<1>3. /\ partial \in {<< >>} \cup Messages /\ sent \in Seq(Messages)
      /\ partial = << >> <=> op # "continuation"
      /\ Transmit(f)
      /\ IF fin THEN sent' = Append(sent, message) /\ partial' = << >>
                ELSE partial' = message /\ sent' = sent
  BY DEF Inv, TypeOK, ClientFragment
<1>4. message = Assembled(partial, f)
  <2>1. CASE partial = << >>
    BY <1>2, <2>1 DEF Assembled
  <2>2. CASE partial # << >>
    BY <1>1, <1>2, <1>3, <2>2, MessageForm DEF Assembled
  <2> QED
    BY <2>1, <2>2
<1>5. message \in Messages
  BY <1>2, <1>3, <1>4, MessageForm
<1> HIDE DEF f, message
<1>6. f.op \notin Control
  BY <1>2, OpcodeKinds
<1>7. CASE fin
  <2>1. sent' = Append(sent, message) /\ partial' = << >>
    BY <1>3, <1>7
  <2>2. /\ sent' \in Seq(Messages) /\ Len(sent') = Len(sent) + 1 /\ Len(sent) \in Nat
        /\ sent'[Len(sent) + 1] = message
        /\ \A j \in 1..Len(sent) : sent'[j] = sent[j]
    BY <1>3, <1>5, <2>1, AppendProperties
  <2>3. ASSUME NEW u, NEW e, u.partial = partial, u.count = Len(sent),
               e.frame = f, e.partial = partial', e.count = Len(sent')
        PROVE  Follows(u, e, sent')
    <3>1. /\ e.frame.op \notin Control /\ e.frame.fin
          /\ u.partial = << >> <=> e.frame.op # "continuation"
          /\ e.partial = << >> /\ e.count = u.count + 1
          /\ sent'[e.count] = Assembled(u.partial, e.frame)
      BY <1>2, <1>3, <1>4, <1>6, <1>7, <2>1, <2>2, <2>3
    <3> QED
      BY <3>1 DEF Follows
  <2>4. Len(sent) <= Len(sent')
    BY <2>2
  <2> QED
    BY <1>2, <1>3, <2>1, <2>2, <2>3, <2>4, Transmits
<1>8. CASE ~fin
  <2>1. sent' = sent /\ partial' = message
    BY <1>3, <1>8
  <2>2. Len(sent) <= Len(sent')
    BY <1>3, <2>1
  <2>3. ASSUME NEW u, NEW e, u.partial = partial, u.count = Len(sent),
               e.frame = f, e.partial = partial', e.count = Len(sent')
        PROVE  Follows(u, e, sent')
    <3>1. /\ e.frame.op \notin Control /\ ~e.frame.fin
          /\ u.partial = << >> <=> e.frame.op # "continuation"
          /\ e.partial = Assembled(u.partial, e.frame) /\ e.count = u.count
      BY <1>2, <1>3, <1>4, <1>6, <1>8, <2>1, <2>3
    <3> QED
      BY <3>1 DEF Follows
  <2> QED
    BY <1>2, <1>3, <1>5, <2>1, <2>2, <2>3, Transmits
<1> QED
  BY <1>7, <1>8

LEMMA ControlStep ==
  ASSUME Inv, NEW op \in Control, NEW data \in Payloads[op], ClientControl(op, data)
  PROVE  Inv'
<1> DEFINE f == [fin |-> TRUE, op |-> op, data |-> data]
<1>1. op \in Opcode /\ data \in Seq(Bits)
  BY WebSocketAssumption DEF Opcode
<1>2. f \in Frames /\ f.op = op
  BY <1>1 DEF Frames
<1>3. /\ partial \in {<< >>} \cup Messages /\ sent \in Seq(Messages)
      /\ Transmit(f) /\ partial' = partial /\ sent' = sent
  BY DEF Inv, TypeOK, ClientControl
<1> HIDE DEF f
<1>4. ASSUME NEW u, NEW e, u.partial = partial, u.count = Len(sent),
             e.frame = f, e.partial = partial', e.count = Len(sent')
      PROVE  Follows(u, e, sent')
  BY <1>2, <1>3, <1>4 DEF Follows
<1>5. Len(sent) <= Len(sent')
  BY <1>3
<1> QED
  BY <1>2, <1>3, <1>4, <1>5, Transmits

LEMMA SendStep ==
  ASSUME Inv, NEW data \in Replies, Send(data)
  PROVE  Inv'
<1>1. data \in Seq(Bits) /\ "text" \in Opcode
  BY WebSocketAssumption DEF Opcode, Data
<1>2. UNCHANGED <<partial, leaving, sent, frames, wire, buffer, fragments, fragmentOpcode, got, closed, reading>>
  BY DEF Send, client, inbox
<1>3. Framed(out', said', closed')
  BY <1>1, <1>2, Sends DEF Inv, TypeOK, Send
<1>4. PICK log, all, k : Tracked(log, all, k)
  BY DEF Inv
<1>5. Tracked(log, all, k)'
  BY <1>2, <1>4 DEF Tracked, Sending, InFlight, Heard
<1>6. TypeOK'
  <2>1. said' \in Seq([frame : Frames, end : Nat])
    BY <1>3 DEF Framed, SaidEntries
  <2>2. sends' \in 0..MaxSends
    BY WebSocketAssumption DEF Send, Inv, TypeOK
  <2> QED
    BY <1>2, <2>1, <2>2 DEF Inv, TypeOK
<1> QED
  BY <1>2, <1>3, <1>5, <1>6 DEF Inv

(* Bytes move from the wire to the buffer.                                 *)
LEMMA ArriveStep ==
  ASSUME Inv, Arrive
  PROVE  Inv'
<1>1. PICK n \in 1..Len(wire) : Chunk(n)
  BY DEF Arrive
<1>2. PICK log, all, k : Tracked(log, all, k)
  BY DEF Inv
<1> DEFINE u == Upto(log, k)
           p == SubSeq(wire, 1, n)
           q == SubSeq(wire, n + 1, Len(wire))
           b == Len(buffer)
<1>3. /\ ~reading /\ buffer' = buffer \o p /\ wire' = q /\ reading' = TRUE
      /\ UNCHANGED <<partial, leaving, sent, frames, fragments, fragmentOpcode, got, closed, out, said, sends>>
  BY <1>1 DEF Chunk, client
<1>4. /\ wire \in Seq(Byte) /\ buffer \in Seq(Byte) /\ n \in 0..Len(wire)
      /\ log \in Seq(Entries) /\ all \in Seq(Byte) /\ k \in 0..Len(log)
      /\ Len(wire) \in Nat /\ n \in Nat /\ b \in Nat
  BY <1>2 DEF Inv, Tracked, Sending, Chain, InFlight
<1>5. u.end \in Nat
  BY <1>4, UptoType
<1>6. At(all, u.end, buffer) /\ At(all, u.end + b, wire)
  BY <1>2 DEF Tracked, InFlight
<1>7. /\ p \in Seq(Byte) /\ Len(p) = n /\ q \in Seq(Byte) /\ Len(q) = Len(wire) - n
  BY <1>4, Pieces
<1>8. At(all, u.end + b, p) /\ At(all, (u.end + b) + n, q)
  <2>1. u.end + b \in Nat
    BY <1>4, <1>5
  <2> QED
    BY <1>4, <1>6, <2>1, AtSplit
<1> HIDE DEF p, q, u
<1>9. At(all, u.end, buffer \o p)
  BY <1>4, <1>5, <1>6, <1>7, <1>8, AtJoin
<1>10. buffer \o p \in Seq(Byte)
  BY <1>4, <1>7, Joined
<1>11. Len(buffer \o p) = b + n
  BY <1>4, <1>7, Joined
<1>12. InFlight(log, all, k)'
  <2>1. u.end + Len(buffer') = (u.end + b) + n
    BY <1>3, <1>4, <1>5, <1>11
  <2>2. At(all, u.end + Len(buffer'), wire')
    BY <1>3, <1>8, <2>1
  <2>3. \/ closed' /\ leaving'
        \/ Len(all) = u.end + Len(buffer') + Len(wire')
    <3>1. u.end + Len(buffer') + Len(wire') = u.end + b + Len(wire)
      BY <1>3, <1>4, <1>5, <1>7, <1>11
    <3> QED
      BY <1>2, <1>3, <3>1 DEF Tracked, InFlight, u
  <2>4. At(all, u.end, buffer') /\ k \in 0..Len(log)
    BY <1>3, <1>4, <1>9
  <2> QED
    BY <2>2, <2>3, <2>4 DEF InFlight, u
<1>13. Tracked(log, all, k)'
  BY <1>2, <1>3, <1>12 DEF Tracked, Sending, Heard
<1>14. TypeOK'
  BY <1>3 DEF Inv, TypeOK
<1> QED
  BY <1>3, <1>7, <1>10, <1>13, <1>14 DEF Inv

(* The handlers of the frame read.                                         *)
LEMMA Closes ==
  ASSUME Inv, Close
  PROVE  closed' = TRUE /\ Framed(out', said', closed')
<1>1. "close" \in Opcode /\ <<1>> \in Seq(Bits)
  BY DEF Opcode, Control, Bits
<1>2. closed' = TRUE /\ closed \in BOOLEAN /\ Framed(out, said, closed)
  BY DEF Close, Inv, TypeOK
<1>3. SendFrame("close", <<1>>)
  BY DEF Close
<1> QED
  BY <1>1, <1>2, <1>3, Sends

LEMMA ControlHandled ==
  ASSUME Inv, NEW f \in Frames, HandleControl(f)
  PROVE  /\ f.op \in Control /\ UNCHANGED <<fragments, fragmentOpcode, got>>
         /\ closed' \in BOOLEAN
         /\ closed => closed'
         /\ Framed(out', said', closed')
<1>1. /\ f.op \in Control /\ UNCHANGED <<fragments, fragmentOpcode, got>>
      /\ closed \in BOOLEAN /\ Framed(out, said, closed)
  BY DEF HandleControl, Inv, TypeOK
<1>2. CASE f.op = "ping"
  <2>1. SendFrame("pong", f.data) /\ closed' = closed
    BY <1>2 DEF HandleControl
  <2>2. "pong" \in Opcode /\ f.data \in Seq(Bits) /\ "pong" # "close"
    BY DEF Opcode, Control, Frames
  <2>3. Framed(out', said', closed')
    BY <1>1, <2>1, <2>2, Sends
  <2> QED
    BY <1>1, <2>1, <2>3
<1>3. CASE f.op = "pong"
  BY <1>1, <1>3 DEF HandleControl
<1>4. CASE f.op \notin {"ping", "pong"}
  <2>1. Close
    BY <1>4 DEF HandleControl
  <2> QED
    BY <1>1, <2>1, Closes
<1> QED
  BY <1>2, <1>3, <1>4

LEMMA DataHandled ==
  ASSUME Inv, NEW f \in Frames, HandleData(f), NEW p \in {<< >>} \cup Messages,
         p = << >> <=> f.op # "continuation",
         p # << >> => fragments = p.data /\ fragmentOpcode = p.op
  PROVE  LET m == Assembled(p, f)
         IN  /\ f.op \notin Control /\ m \in Messages
             /\ UNCHANGED <<closed, out, said>>
             /\ fragmentOpcode' \in Data
             /\ f.fin => got' = Append(got, m) /\ fragments' = << >>
             /\ ~f.fin => got' = got /\ fragments' = m.data /\ fragmentOpcode' = m.op
<1> DEFINE m == Assembled(p, f)
           first  == f.op \in Data
           pieces == IF first THEN f.data ELSE fragments \o f.data
           op     == IF first THEN f.op ELSE fragmentOpcode
<1>1. /\ f.op \in Data \cup {"continuation"} /\ fragmentOpcode' = op
      /\ UNCHANGED <<closed, out, said>>
      /\ f.fin => fragments' = << >> /\ Emit(pieces, op)
      /\ ~f.fin => fragments' = pieces /\ got' = got
  BY DEF HandleData
<1>2. first <=> p = << >>
  BY <1>1, OpcodeKinds
<1>3. m \in Messages
  BY <1>2, MessageForm
<1>4. m = [op |-> op, data |-> pieces]
  BY <1>2, Zenon DEF Assembled
<1> HIDE DEF m, pieces, op
<1>5. m.op = op /\ m.data = pieces /\ op \in Data
  BY <1>3, <1>4, MessageForm
<1>6. [op |-> IF op = "text" THEN "text" ELSE "binary", data |-> pieces] = m
  <2>1. (IF op = "text" THEN "text" ELSE "binary") = op
    BY <1>5 DEF Data
  <2> QED
    BY <1>4, <2>1
<1>7. f.fin => got' = Append(got, m)
  BY <1>1, <1>6 DEF Emit
<1>8. f.op \notin Control
  BY <1>1, OpcodeKinds
<1> QED
  BY <1>1, <1>3, <1>5, <1>7, <1>8 DEF m

(* Handling the next frame of the log emits the message it completes, and  *)
(* no other.                                                               *)
LEMMA Handled ==
  ASSUME Inv, NEW log, NEW all, NEW k, Tracked(log, all, k), k < Len(log),
         NEW e, e = log[k + 1], HandleControl(e.frame) \/ HandleData(e.frame), sent' = sent
  PROVE  /\ Heard(e)'
         /\ \/ got' = got
            \/ /\ Len(got) < Len(sent) /\ got' = Append(got, sent[Len(got) + 1])
               /\ closed' = closed
         /\ fragments' \in Seq(Bits) /\ fragmentOpcode' \in {"none"} \cup Data
         /\ got' \in Seq(Messages)
         /\ closed' \in BOOLEAN
         /\ closed => closed'
         /\ Framed(out', said', closed')
<1> DEFINE u == Upto(log, k)
           f == e.frame
           m == Assembled(u.partial, f)
<1>1. /\ log \in Seq(Entries) /\ k \in 0..Len(log) /\ Len(log) \in Nat
      /\ sent \in Seq(Messages) /\ got \in Seq(Messages)
      /\ fragments \in Seq(Bits) /\ fragmentOpcode \in {"none"} \cup Data
      /\ Len(sent) \in Nat /\ Len(got) \in Nat
      /\ closed \in BOOLEAN /\ Framed(out, said, closed)
  <2>1. log \in Seq(Entries) /\ k \in 0..Len(log)
    BY DEF Tracked, Sending, Chain, InFlight
  <2>2. /\ sent \in Seq(Messages) /\ got \in Seq(Messages)
        /\ fragments \in Seq(Bits) /\ fragmentOpcode \in {"none"} \cup Data
        /\ closed \in BOOLEAN /\ Framed(out, said, closed)
    BY DEF Inv, TypeOK
  <2>3. Len(sent) \in Nat /\ Len(got) \in Nat /\ Len(log) \in Nat
    BY <2>1, <2>2
  <2> QED
    BY <2>1, <2>2, <2>3
<1>2. k + 1 \in 1..Len(log) /\ (k + 1) - 1 = k
  BY <1>1
<1>3. Placed(log, all, sent, k + 1)
  BY <1>2 DEF Tracked, Sending, Chain
<1>4. Follows(u, e, sent) /\ e.count <= Len(sent)
  BY <1>2, <1>3 DEF Placed
<1>5. e \in Entries
  BY <1>1, <1>2, ElementOfSeq
<1>6. f \in Frames /\ e.count \in Nat
  BY <1>5, EntryType
<1>7. u.partial \in {<< >>} \cup Messages /\ u.count \in Nat
  BY <1>1, UptoType
<1>8. /\ Len(got) = u.count
      /\ \A i \in 1..Len(got) : got[i] = sent[i]
      /\ u.partial # << >> => fragments = u.partial.data /\ fragmentOpcode = u.partial.op
  BY DEF Tracked, Heard
<1> HIDE DEF u, f
<1>9. CASE HandleControl(f)
  <2>1. /\ f.op \in Control /\ UNCHANGED <<fragments, fragmentOpcode, got>>
        /\ closed' \in BOOLEAN
        /\ closed => closed'
        /\ Framed(out', said', closed')
    BY <1>6, <1>9, ControlHandled
  <2>2. e.partial = u.partial /\ e.count = u.count
    BY <1>4, <2>1 DEF Follows, f
  <2>3. Heard(e)'
    BY <1>8, <2>1, <2>2 DEF Heard
  <2> QED
    BY <1>1, <2>1, <2>3
<1>10. CASE HandleData(f)
  <2>1. f.op \notin Control
    <3>1. f.op \in Data \cup {"continuation"}
      BY <1>10 DEF HandleData
    <3> QED
      BY <3>1, OpcodeKinds
  <2>2. /\ u.partial = << >> <=> f.op # "continuation"
        /\ \/ ~f.fin /\ e.partial = m /\ e.count = u.count
           \/ f.fin /\ e.partial = << >> /\ e.count = u.count + 1 /\ sent[e.count] = m
    BY <1>4, <2>1 DEF Follows, f
  <2>3. /\ m \in Messages
        /\ UNCHANGED <<closed, out, said>>
        /\ fragmentOpcode' \in Data
        /\ f.fin => got' = Append(got, m) /\ fragments' = << >>
        /\ ~f.fin => got' = got /\ fragments' = m.data /\ fragmentOpcode' = m.op
    BY <1>6, <1>7, <1>8, <1>10, <2>2, DataHandled
  <2> HIDE DEF m
  <2>4. /\ Framed(out', said', closed') /\ closed' \in BOOLEAN
        /\ closed => closed'
    BY <1>1, <2>3
  <2>5. CASE ~f.fin
    <3>1. e.partial = m /\ e.count = u.count
      BY <2>2, <2>5
    <3>2. m.data \in Seq(Bits)
      BY <2>3, MessageForm
    <3>3. Heard(e)'
      BY <1>8, <2>3, <2>5, <3>1 DEF Heard
    <3> QED
      BY <1>1, <2>3, <2>4, <2>5, <3>2, <3>3
  <2>6. CASE f.fin
    <3>1. e.partial = << >> /\ e.count = Len(got) + 1 /\ sent[Len(got) + 1] = m
      BY <1>8, <2>2, <2>6
    <3>2. got' = Append(got, m) /\ fragments' = << >>
      BY <2>3, <2>6
    <3>3. /\ got' \in Seq(Messages) /\ Len(got') = Len(got) + 1 /\ got'[Len(got) + 1] = m
          /\ \A i \in 1..Len(got) : got'[i] = got[i]
      BY <1>1, <2>3, <3>2, AppendProperties
    <3>4. Len(got) < Len(sent)
      BY <1>1, <1>4, <3>1
    <3>5. ASSUME NEW i \in 1..Len(got') PROVE got'[i] = sent'[i]
      <4>1. i \in 1..Len(got) \/ i = Len(got) + 1
        BY <1>1, <3>3
      <4> QED
        BY <1>8, <3>1, <3>3, <4>1
    <3>6. Heard(e)'
      BY <3>1, <3>3, <3>5 DEF Heard
    <3>7. << >> \in Seq(Bits)
      OBVIOUS
    <3>8. got' = Append(got, sent[Len(got) + 1])
      BY <3>1, <3>2
    <3>9. fragments' \in Seq(Bits) /\ fragmentOpcode' \in {"none"} \cup Data
      BY <2>3, <3>2, <3>7
    <3>10. \/ got' = got
           \/ /\ Len(got) < Len(sent) /\ got' = Append(got, sent[Len(got) + 1])
              /\ closed' = closed
      BY <2>3, <3>4, <3>8
    <3>11. got' \in Seq(Messages)
      BY <3>3
    <3> HIDE <3>3, <3>8
    <3> QED
      BY <2>4, <3>6, <3>9, <3>10, <3>11
  <2> QED
    BY <2>5, <2>6
<1> QED
  BY <1>9, <1>10 DEF f

(* A turn of onData's loop, which also says how the messages grow: this is *)
(* a step of the channel.                                                  *)
LEMMA IterateStep ==
  ASSUME Inv, Iterate
  PROVE  /\ Inv'
         /\ sent' = sent
         /\ closed => closed'
         /\ \/ got' = got
            \/ /\ Len(got) < Len(sent) /\ got' = Append(got, sent[Len(got) + 1])
               /\ closed' = closed
<1> DEFINE r == ReadFrame(buffer)
<1>1. PICK log, all, k : Tracked(log, all, k)
  BY DEF Inv
<1>2. /\ reading /\ UNCHANGED <<partial, leaving, sent, frames, wire, sends>>
      /\ \/ /\ r.kind = "more"
            /\ reading' = FALSE
            /\ UNCHANGED <<buffer, fragments, fragmentOpcode, got, closed, out, said>>
         \/ /\ r.kind = "refuse"
            /\ reading' = FALSE
            /\ Close
            /\ UNCHANGED <<buffer, fragments, fragmentOpcode, got>>
         \/ /\ r.kind = "frame"
            /\ buffer' = r.rest
            /\ HandleControl(r.frame) \/ HandleData(r.frame)
            /\ reading' = ~closed'
  BY DEF Iterate, client, inbox
<1> DEFINE e == log[k + 1]
           W == Text(e)
           l == Len(W)
           u == Upto(log, k)
           rest == SubSeq(buffer, l + 1, Len(buffer))
<1>3. \/ r = More \/ r = Refuse
      \/ /\ k < Len(log) /\ l \in 0..Len(buffer)
         /\ r = Result(e.frame, rest)
  BY <1>1, Received DEF Inv, Tracked
<1> HIDE DEF r
<1>4. CASE r = More
  <2>1. UNCHANGED <<partial, leaving, sent, frames, wire, sends, buffer, fragments, fragmentOpcode, got, closed, out, said>>
    BY <1>2, <1>4, ResultKinds
  <2>2. Tracked(log, all, k)'
    BY <1>1, <2>1 DEF Tracked, Sending, InFlight, Heard
  <2>3. reading' = FALSE
    BY <1>2, <1>4, ResultKinds
  <2>4. TypeOK'
    BY <2>1, <2>3 DEF Inv, TypeOK
  <2>5. ReadFrame(buffer') = More
    BY <1>4, <2>1 DEF r
  <2> QED
    BY <2>1, <2>2, <2>4, <2>5 DEF Inv
<1>5. CASE r = Refuse
  <2>1. UNCHANGED <<partial, leaving, sent, frames, wire, sends, buffer, fragments, fragmentOpcode, got>>
    BY <1>2, <1>5, ResultKinds
  <2>2. Close /\ reading' = FALSE
    BY <1>2, <1>5, ResultKinds
  <2>3. closed' = TRUE /\ Framed(out', said', closed')
    BY <2>2, Closes
  <2>4. Tracked(log, all, k)'
    BY <1>1, <2>1, <2>3 DEF Tracked, Sending, InFlight, Heard
  <2>5. TypeOK'
    BY <2>1, <2>2, <2>3 DEF Inv, TypeOK, Framed, SaidEntries
  <2> QED
    BY <2>1, <2>3, <2>4, <2>5 DEF Inv
<1>6. CASE k < Len(log) /\ l \in 0..Len(buffer) /\ r = Result(e.frame, rest)
  <2>1. /\ buffer' = rest /\ reading' = ~closed'
        /\ HandleControl(e.frame) \/ HandleData(e.frame)
    <3> HIDE DEF e, rest
    <3>1. r.kind = "frame" /\ r.frame = e.frame /\ r.rest = rest
      BY <1>6, ResultKinds
    <3>2. r.kind # "more" /\ r.kind # "refuse"
      BY <3>1
    <3> QED
      BY <1>2, <3>1, <3>2, Zenon
  <2>2. UNCHANGED <<partial, leaving, sent, frames, wire, sends>>
    BY <1>2
  <2>3. /\ log \in Seq(Entries) /\ all \in Seq(Byte) /\ k \in 0..Len(log)
        /\ Len(log) \in Nat /\ buffer \in Seq(Byte) /\ wire \in Seq(Byte)
        /\ Len(buffer) \in Nat /\ Len(wire) \in Nat
    BY <1>1 DEF Inv, Tracked, Sending, Chain, InFlight
  <2>4. k + 1 \in 1..Len(log) /\ (k + 1) - 1 = k /\ k + 1 # 0
    BY <1>6, <2>3
  <2>5. Placed(log, all, sent, k + 1)
    BY <1>1, <2>4 DEF Tracked, Sending, Chain
  <2>6. e.end = u.end + l
    BY <2>4, <2>5 DEF Placed
  <2>7. u.end \in Nat
    BY <2>3, UptoType
  <2>8. Upto(log, k + 1) = e
    BY <2>4 DEF Upto
  <2>9. /\ At(all, u.end, buffer) /\ At(all, u.end + Len(buffer), wire)
        /\ (closed /\ leaving) \/ Len(all) = u.end + Len(buffer) + Len(wire)
    BY <1>1 DEF Tracked, InFlight
  <2> HIDE DEF l, u
  <2>10. rest \in Seq(Byte) /\ Len(rest) = Len(buffer) - l
    BY <1>6, <2>3, Pieces
  <2>11. At(all, u.end + l, rest)
    BY <1>6, <2>3, <2>7, <2>9, AtSplit
  <2> HIDE DEF rest, e
  <2>12. /\ Heard(e)'
         /\ \/ got' = got
            \/ /\ Len(got) < Len(sent) /\ got' = Append(got, sent[Len(got) + 1])
               /\ closed' = closed
         /\ fragments' \in Seq(Bits) /\ fragmentOpcode' \in {"none"} \cup Data
         /\ got' \in Seq(Messages)
         /\ closed' \in BOOLEAN
         /\ closed => closed'
         /\ Framed(out', said', closed')
    BY <1>1, <1>6, <2>1, <2>2, Handled DEF e
  <2>13. InFlight(log, all, k + 1)'
    <3>1. /\ e.end + Len(rest) = u.end + Len(buffer)
          /\ e.end + Len(rest) + Len(wire) = u.end + Len(buffer) + Len(wire)
      BY <1>6, <2>3, <2>6, <2>7, <2>10
    <3>2. At(all, e.end, buffer') /\ At(all, e.end + Len(buffer'), wire')
      BY <2>1, <2>2, <2>6, <2>9, <2>11, <3>1
    <3>3. \/ closed' /\ leaving'
          \/ Len(all) = e.end + Len(buffer') + Len(wire')
      BY <2>1, <2>2, <2>9, <2>12, <3>1
    <3>4. k + 1 \in 0..Len(log)
      BY <2>4
    <3> QED
      BY <2>8, <3>2, <3>3, <3>4 DEF InFlight
  <2>14. Sending(log, all)'
    BY <1>1, <2>2 DEF Tracked, Sending
  <2>15. Heard(Upto(log, k + 1))'
    BY <2>8, <2>12 DEF Heard
  <2>16. \E a, b, c : Tracked(a, b, c)'
    BY <2>13, <2>14, <2>15 DEF Tracked
  <2>17. said' \in Seq([frame : Frames, end : Nat])
    BY <2>12 DEF Framed, SaidEntries
  <2>18. reading' \in BOOLEAN
    BY <2>1
  <2>19. TypeOK'
    BY <2>2, <2>12, <2>17, <2>18 DEF Inv, TypeOK
  <2>20. ~reading' /\ ~closed' => ReadFrame(buffer') = More
    BY <2>1
  <2>21. buffer' \in Seq(Byte) /\ wire' \in Seq(Byte)
    BY <2>1, <2>2, <2>3, <2>10
  <2>22. Inv'
    BY <2>12, <2>16, <2>19, <2>20, <2>21 DEF Inv
  <2> QED
    BY <2>2, <2>12, <2>22
<1> QED
  BY <1>3, <1>4, <1>5, <1>6

LEMMA StopStep ==
  ASSUME Inv, Stop
  PROVE  Inv'
<1>1. /\ Close
      /\ UNCHANGED <<partial, leaving, sent, frames, wire, buffer, fragments, fragmentOpcode, got, reading, sends>>
  BY DEF Stop, client, inbox
<1>2. closed' = TRUE /\ Framed(out', said', closed')
  BY <1>1, Closes
<1>3. PICK log, all, k : Tracked(log, all, k)
  BY DEF Inv
<1>4. Tracked(log, all, k)'
  BY <1>1, <1>2, <1>3 DEF Tracked, Sending, InFlight, Heard
<1>5. TypeOK'
  BY <1>1, <1>2 DEF Inv, TypeOK, Framed, SaidEntries
<1> QED
  BY <1>1, <1>2, <1>4, <1>5 DEF Inv

LEMMA ResetStep ==
  ASSUME Inv, Reset
  PROVE  Inv'
<1>1. /\ closed' = TRUE /\ wire' = << >> /\ leaving' = TRUE
      /\ UNCHANGED <<partial, sent, frames, buffer, fragments, fragmentOpcode, got, reading, out, said, sends>>
  BY DEF Reset, inbox
<1>2. PICK log, all, k : Tracked(log, all, k)
  BY DEF Inv
<1>3. Framed(out', said', closed')
  BY <1>1, FramedShut DEF Inv
<1>4. InFlight(log, all, k)'
  <2> DEFINE at == Upto(log, k).end + Len(buffer)
  <2>1. /\ k \in 0..Len(log) /\ At(all, Upto(log, k).end, buffer) /\ At(all, at, wire)
        /\ log \in Seq(Entries) /\ all \in Seq(Byte) /\ wire \in Seq(Byte) /\ buffer \in Seq(Byte)
    BY <1>2 DEF Inv, Tracked, Sending, Chain, InFlight
  <2>2. at \in Nat /\ Len(wire) \in Nat /\ Len(all) \in Nat
    BY <2>1, UptoType
  <2>3. at <= Len(all)
    <3> HIDE DEF at
    <3> QED
      BY <2>1, <2>2 DEF At
  <2>4. Len(<< >>) = 0 /\ at + 0 <= Len(all)
    BY <2>2, <2>3
  <2>5. At(all, at, << >>)
    <3> HIDE DEF at
    <3> QED
      BY <2>2, <2>4 DEF At
  <2> QED
    BY <1>1, <2>1, <2>5 DEF InFlight
<1>5. Tracked(log, all, k)'
  BY <1>1, <1>2, <1>4 DEF Tracked, Sending, Heard
<1>6. TypeOK'
  BY <1>1 DEF Inv, TypeOK
<1> QED
  BY <1>1, <1>3, <1>5, <1>6 DEF Inv

(* The invariant holds at the start, and every step keeps it.              *)
LEMMA InitInv == Init => Inv
<1> SUFFICES ASSUME Init PROVE Inv
  OBVIOUS
<1>1. Len(<< >>) = 0 /\ \A S : << >> \in Seq(S)
  OBVIOUS
<1>2. TypeOK
  <2>1. /\ 0 \in 0..MaxFrames /\ 0 \in 0..MaxSends
    BY WebSocketAssumption
  <2>2. /\ fragments \in Seq(Bits) /\ sent \in Seq(Messages) /\ got \in Seq(Messages)
        /\ said \in Seq([frame : Frames, end : Nat])
    BY <1>1 DEF Init
  <2>3. /\ partial \in {<< >>} \cup Messages /\ fragmentOpcode \in {"none"} \cup Data
        /\ leaving \in BOOLEAN /\ closed \in BOOLEAN /\ reading \in BOOLEAN
        /\ frames \in 0..MaxFrames /\ sends \in 0..MaxSends
    BY <2>1 DEF Init
  <2> QED
    BY <2>2, <2>3 DEF TypeOK
<1>3. Framed(out, said, closed)
  BY <1>1 DEF Init, Framed, Start
<1>4. ReadFrame(buffer) = More
  BY <1>1 DEF Init, ReadFrame, FirstFrame
<1>5. wire \in Seq(Byte) /\ buffer \in Seq(Byte)
  BY <1>1 DEF Init
<1>6. PICK l, a : l = << >> /\ a = << >>
  OBVIOUS
<1>7. Upto(l, 0).end = 0 /\ Upto(l, 0).count = 0 /\ Upto(l, 0).partial = << >>
  BY DEF Upto, Origin
<1>8. Sending(l, a)
  <2>1. Chain(l, a, sent)
    BY <1>1, <1>6 DEF Init, Chain
  <2> QED
    BY <1>1, <1>6, <1>7, <2>1 DEF Init, Sending
<1>9. InFlight(l, a, 0)
  BY <1>1, <1>6, <1>7 DEF Init, InFlight, At
<1>10. Heard(Upto(l, 0))
  BY <1>1, <1>7 DEF Init, Heard
<1> QED
  BY <1>2, <1>3, <1>4, <1>5, <1>8, <1>9, <1>10 DEF Inv, Tracked

LEMMA NextInv == Inv /\ [Next]_vars => Inv'
<1> SUFFICES ASSUME Inv, [Next]_vars PROVE Inv'
  OBVIOUS
<1>1. ASSUME NEW op \in Data \cup {"continuation"}, NEW fin \in BOOLEAN,
             NEW data \in Payloads[op], ClientFragment(op, data, fin)
      PROVE  Inv'
  BY <1>1, FragmentStep
<1>2. ASSUME NEW op \in Control, NEW data \in Payloads[op], ClientControl(op, data)
      PROVE  Inv'
  BY <1>2, ControlStep
<1>3. ASSUME NEW data \in Replies, Send(data) PROVE Inv'
  BY <1>3, SendStep
<1>4. CASE Arrive
  BY <1>4, ArriveStep
<1>5. CASE Iterate
  BY <1>5, IterateStep
<1>6. CASE Stop
  BY <1>6, StopStep
<1>7. CASE Reset
  BY <1>7, ResetStep
<1>8. CASE UNCHANGED vars
  <2>1. UNCHANGED <<partial, leaving, sent, frames, wire, buffer, fragments, fragmentOpcode, got, closed, reading, out, said, sends>>
    BY <1>8 DEF vars, client, inbox
  <2>2. PICK log, all, k : Tracked(log, all, k)
    BY DEF Inv
  <2>3. Tracked(log, all, k)'
    BY <2>1, <2>2 DEF Tracked, Sending, InFlight, Heard
  <2>4. TypeOK'
    BY <2>1 DEF Inv, TypeOK
  <2> QED
    BY <2>1, <2>3, <2>4 DEF Inv
<1> QED
  BY <1>1, <1>2, <1>3, <1>4, <1>5, <1>6, <1>7, <1>8 DEF Next

(* The bytes a client has sent, those in the buffer and the messages       *)
(* emitted agree at every moment of onData and of the handlers it calls.   *)
THEOREM Invariance == Spec => []Inv
<1> QED
  BY InitInv, NextInv, PTL DEF Spec

(* No event of ws.mjs leaves its state in a shape its code does not know.  *)
THEOREM TypeSound == Spec => []TypeOK
<1>1. Inv => TypeOK
  BY DEF Inv
<1> QED
  BY <1>1, Invariance, PTL

(* When no bytes are under way and onData is idle, all frames are read.    *)
LEMMA NothingIsLeftFrom == Inv => NothingIsLeft
<1> SUFFICES ASSUME Inv, ~reading, ~closed, wire = << >>
             PROVE  got = sent
  BY DEF NothingIsLeft
<1>1. PICK log, all, k : Tracked(log, all, k)
  BY DEF Inv
<1>2. /\ k \in 0..Len(log) /\ Len(log) \in Nat /\ sent \in Seq(Messages) /\ got \in Seq(Messages)
      /\ ReadFrame(buffer) = More
  BY <1>1 DEF Inv, TypeOK, Tracked, Sending, Chain, InFlight
<1>3. k = Len(log)
  <2>1. ~(k < Len(log))
    BY <1>1, <1>2, Received DEF Inv, Tracked
  <2> QED
    BY <1>2, <2>1
<1>4. /\ Len(got) = Len(sent)
      /\ \A i \in 1..Len(got) : got[i] = sent[i]
  BY <1>1, <1>3 DEF Tracked, Sending, Heard
<1> QED
  BY <1>2, <1>4, SeqEqual

(* onData leaves no complete frame in the buffer: once all bytes of an     *)
(* open connection have come, every message of the client has been         *)
(* emitted, wherever the bytes were cut and for lengths of every form.     *)
THEOREM EverythingIsEmitted == Spec => []NothingIsLeft
BY NothingIsLeftFrom, Invariance, PTL

(* The server's frames read back from the places where they start.         *)
LEMMA AnswersFrom == Inv => AnswersAreFramed
<1> SUFFICES ASSUME Inv PROVE AnswersAreFramed
  OBVIOUS
<1>1. Framed(out, said, closed)
  BY DEF Inv
<1>2. Len(out) = Start(said, Len(said) + 1)
  BY <1>1 DEF Framed
<1>3. ASSUME NEW i \in 1..Len(said)
      PROVE  /\ FirstFrame(SubSeq(out, Start(said, i) + 1, Len(out)), Len(out))
                  = [kind |-> "frame", frame |-> said[i].frame,
                     rest |-> SubSeq(out, said[i].end + 1, Len(out))]
             /\ said[i].frame.op = "close" => i = Len(said)
  <2>1. said[i].frame.op = "close" => i = Len(said)
    BY <1>1 DEF Framed
  <2> QED
    BY <1>1, <2>1, Reread DEF Result
<1> QED
  BY <1>2, <1>3 DEF AnswersAreFramed, Start

(* What sendFrame writes is read by readFrame as the very frames that were *)
(* to be sent, one after another, up to the last byte, and a close frame   *)
(* is the last of them.                                                    *)
THEOREM AnswersReadBack == Spec => []AnswersAreFramed
BY AnswersFrom, Invariance, PTL

(* A message completed by the client is one put into the channel.          *)
LEMMA PutStep ==
  ASSUME Inv, sent' \in Seq(Messages), got' = got, closed' = closed,
         NEW m \in Messages, sent' = Append(sent, m)
  PROVE  Channel!Put
<1>1. sent \in Seq(Messages)
  BY DEF Inv, TypeOK
<1>2. /\ Len(sent') = Len(sent) + 1 /\ sent'[Len(sent) + 1] = m /\ Len(sent) \in Nat
      /\ \A i \in 1..Len(sent) : sent'[i] = sent[i]
  BY <1>1, AppendProperties
<1>3. SubSeq(sent', 1, Len(sent)) = sent
  <2>1. 0 \in Nat /\ 0 + Len(sent) <= Len(sent') /\ \A i \in 1..Len(sent) : sent'[0 + i] = sent[i]
    BY <1>2
  <2>2. SubSeq(sent', 0 + 1, 0 + Len(sent)) = sent
    BY <1>1, <2>1, SubSeqIs
  <2> QED
    BY <1>2, <2>2
<1> QED
  BY <1>2, <1>3 DEF Channel!Put

(* Every step of the connection is one of the channel, or none of its      *)
(* business.                                                               *)
LEMMA ChannelStep == Inv /\ [Next]_vars => [Channel!Next]_(Channel!channel)
<1> SUFFICES ASSUME Inv, [Next]_vars
             PROVE  Channel!Next \/ UNCHANGED <<sent, got, ~closed>>
  BY DEF Channel!channel
<1>1. closed \in BOOLEAN /\ partial \in {<< >>} \cup Messages
  BY DEF Inv, TypeOK
<1>2. ASSUME NEW op \in Data \cup {"continuation"}, NEW fin \in BOOLEAN,
             NEW data \in Payloads[op], ClientFragment(op, data, fin)
      PROVE  Channel!Next \/ UNCHANGED <<sent, got, ~closed>>
  <2> DEFINE m == IF partial = << >> THEN [op |-> op, data |-> data]
                  ELSE [partial EXCEPT !.data = @ \o data]
  <2>1. /\ got' = got /\ closed' = closed
        /\ partial = << >> <=> op # "continuation"
        /\ IF fin THEN sent' = Append(sent, m) ELSE sent' = sent
    BY <1>2 DEF ClientFragment, Transmit, inbox
  <2>2. CASE fin
    <3>1. data \in Seq(Bits)
      BY WebSocketAssumption DEF Opcode
    <3>2. m \in Messages
      <4>1. CASE partial = << >>
        BY <2>1, <3>1, <4>1 DEF Messages
      <4>2. CASE partial # << >>
        <5>1. /\ partial \in Messages /\ partial.op \in Data /\ partial.data \in Seq(Bits)
          BY <1>1, <4>2, MessageForm
        <5>2. m = [op |-> partial.op, data |-> partial.data \o data]
          BY <3>1, <4>2, <5>1, MessageForm
        <5>3. partial.data \o data \in Seq(Bits)
          BY <3>1, <5>1, Joined
        <5> QED
          BY <5>1, <5>2, <5>3 DEF Messages
      <4> QED
        BY <4>1, <4>2
    <3>3. sent \in Seq(Messages) /\ sent' = Append(sent, m)
      BY <2>1, <2>2 DEF Inv, TypeOK
    <3> HIDE DEF m
    <3>4. sent' \in Seq(Messages)
      BY <3>2, <3>3, AppendProperties
    <3>5. Channel!Put
      BY <2>1, <3>2, <3>3, <3>4, PutStep
    <3> QED
      BY <3>5 DEF Channel!Next
  <2>3. CASE ~fin
    BY <2>1, <2>3
  <2> QED
    BY <2>2, <2>3
<1>3. ASSUME NEW op \in Control, NEW data \in Payloads[op], ClientControl(op, data)
      PROVE  UNCHANGED <<sent, got, ~closed>>
  BY <1>3 DEF ClientControl, Transmit, inbox
<1>4. ASSUME NEW data \in Replies, Send(data) PROVE UNCHANGED <<sent, got, ~closed>>
  BY <1>4 DEF Send, client, inbox
<1>5. CASE Arrive
  BY <1>5 DEF Arrive, Chunk, client
<1>6. ASSUME closed' \in BOOLEAN, closed => closed', sent' = sent, got' = got
      PROVE  Channel!Next \/ UNCHANGED <<sent, got, ~closed>>
  <2>1. CASE closed' = closed
    BY <1>6, <2>1
  <2>2. CASE closed' # closed
    <3>1. closed' = TRUE /\ closed = FALSE
      BY <1>1, <1>6, <2>2
    <3> QED
      BY <1>6, <3>1 DEF Channel!Next, Channel!Cut
  <2> QED
    BY <2>1, <2>2
<1>7. CASE Iterate
  <2>1. /\ sent' = sent /\ closed' \in BOOLEAN
        /\ \/ got' = got
           \/ /\ Len(got) < Len(sent) /\ got' = Append(got, sent[Len(got) + 1])
              /\ closed' = closed
    BY <1>7, IterateStep DEF Inv, TypeOK
  <2>2. closed => closed'
    BY <1>7, IterateStep
  <2>3. CASE got' = got
    BY <1>6, <2>1, <2>2, <2>3
  <2>4. CASE got' # got
    BY <2>1, <2>4 DEF Channel!Next, Channel!Take
  <2> QED
    BY <2>3, <2>4
<1>8. CASE Stop \/ Reset
  BY <1>6, <1>8 DEF Stop, Reset, Close, client, inbox
<1>9. CASE UNCHANGED vars
  BY <1>9 DEF vars, client, inbox
<1> QED
  BY <1>2, <1>3, <1>4, <1>5, <1>7, <1>8, <1>9 DEF Next

(* handleFrame's events are the client's messages, whole, once and in      *)
(* order: the connection implements MessageChannel.                        *)
THEOREM Implements == Spec => ImplementsChannel
<1>1. Init => Channel!Init
  BY DEF Init, Channel!Init
<1> QED
  BY <1>1, ChannelStep, Invariance, PTL DEF Spec, ImplementsChannel, Channel!Spec

=============================================================================
