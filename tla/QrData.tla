------------------------------- MODULE QrData -------------------------------
(* The codewords of a QR code, qrcode.js: the bit buffer with its mode,    *)
(* length and padding, the arithmetic of GF(256), and the blocks of data   *)
(* and error correction.  A polynomial is the sequence of its coefficients *)
(* from the highest power down.                                            *)
EXTENDS Integers, SequencesExt, Bitwise

QRErrorCorrectLevel == [L |-> 1, M |-> 0, Q |-> 3, H |-> 2]

(* For every type and level, groups of three: how many blocks, their       *)
(* codewords, and those of them that are data.                             *)
RS_BLOCK_TABLE == <<
    [L |-> <<1, 26, 19>>, M |-> <<1, 26, 16>>, Q |-> <<1, 26, 13>>, H |-> <<1, 26, 9>>],
    [L |-> <<1, 44, 34>>, M |-> <<1, 44, 28>>, Q |-> <<1, 44, 22>>, H |-> <<1, 44, 16>>],
    [L |-> <<1, 70, 55>>, M |-> <<1, 70, 44>>, Q |-> <<2, 35, 17>>, H |-> <<2, 35, 13>>],
    [L |-> <<1, 100, 80>>, M |-> <<2, 50, 32>>, Q |-> <<2, 50, 24>>, H |-> <<4, 25, 9>>],
    [L |-> <<1, 134, 108>>, M |-> <<2, 67, 43>>,
     Q |-> <<2, 33, 15, 2, 34, 16>>, H |-> <<2, 33, 11, 2, 34, 12>>],
    [L |-> <<2, 86, 68>>, M |-> <<4, 43, 27>>, Q |-> <<4, 43, 19>>, H |-> <<4, 43, 15>>],
    [L |-> <<2, 98, 78>>, M |-> <<4, 49, 31>>,
     Q |-> <<2, 32, 14, 4, 33, 15>>, H |-> <<4, 39, 13, 1, 40, 14>>],
    [L |-> <<2, 121, 97>>, M |-> <<2, 60, 38, 2, 61, 39>>,
     Q |-> <<4, 40, 18, 2, 41, 19>>, H |-> <<4, 40, 14, 2, 41, 15>>],
    [L |-> <<2, 146, 116>>, M |-> <<3, 58, 36, 2, 59, 37>>,
     Q |-> <<4, 36, 16, 4, 37, 17>>, H |-> <<4, 36, 12, 4, 37, 13>>],
    [L |-> <<2, 86, 68, 2, 87, 69>>, M |-> <<4, 69, 43, 1, 70, 44>>,
     Q |-> <<6, 43, 19, 2, 44, 20>>, H |-> <<6, 43, 15, 2, 44, 16>>] >>

RSBlocks(type, level) ==
    LET row == RS_BLOCK_TABLE[type][level]
        Group(i) == [j \in 1 .. row[3 * i - 2] |->
                        [total |-> row[3 * i - 1], data |-> row[3 * i]]]
    IN FlattenSeq([i \in 1 .. Len(row) \div 3 |-> Group(i)])

(* The data codewords of the first n blocks.                               *)
DataCount(blocks, n) ==
    LET sum[i \in 0 .. n] == IF i = 0 THEN 0 ELSE sum[i - 1] + blocks[i].data
    IN sum[n]

------------------------------------------------------------------------------
(* QRMath: powers and logarithms of the generator.                         *)
RECURSIVE XorAll(_)
XorAll(s) == IF s = <<>> THEN 0 ELSE Head(s) ^^ XorAll(Tail(s))

(* n more entries, in two halves.                                          *)
RECURSIVE Extend(_, _)
Extend(t, n) ==
    LET i == Len(t)
    IN IF n = 1 THEN Append(t, XorAll(<<t[i - 3], t[i - 4], t[i - 5], t[i - 7]>>))
       ELSE Extend(Extend(t, n \div 2), n - n \div 2)

EXP_TABLE == Extend([i \in 1 .. 8 |-> 2 ^ (i - 1)], 248)
LOG_TABLE == [v \in 1 .. 255 |-> CHOOSE i \in 0 .. 254 : EXP_TABLE[i + 1] = v]

Gexp(n) == EXP_TABLE[(n % 255) + 1]
Glog(v) == LOG_TABLE[v]

(* qrPolynomial drops the leading zeros and then shifts.                   *)
Polynomial(num, shift) ==
    LET first == SelectInSeq(num, LAMBDA c : c # 0)
    IN (IF first = 0 THEN <<>> ELSE SubSeq(num, first, Len(num))) \o [i \in 1 .. shift |-> 0]

Multiply(a, b) ==
    LET Term(k) == SelectSeq([i \in 1 .. Len(a) |-> <<i, k + 1 - i>>],
                             LAMBDA ij : ij[2] \in 1 .. Len(b))
        Product(ij) == Gexp(Glog(a[ij[1]]) + Glog(b[ij[2]]))
    IN Polynomial([k \in 1 .. Len(a) + Len(b) - 1 |->
                      XorAll([t \in 1 .. Len(Term(k)) |-> Product(Term(k)[t])])], 0)

RECURSIVE Mod(_, _)
Mod(p, e) ==
    IF Len(p) < Len(e) THEN p
    ELSE LET ratio == Glog(p[1]) - Glog(e[1])
             num == [i \in 1 .. Len(p) |->
                        IF i =< Len(e) THEN p[i] ^^ Gexp(Glog(e[i]) + ratio) ELSE p[i]]
         IN Mod(Polynomial(num, 0), e)

RECURSIVE ErrorCorrectPolynomial(_)
ErrorCorrectPolynomial(n) ==
    IF n = 0 THEN <<1>>
    ELSE Multiply(ErrorCorrectPolynomial(n - 1), <<1, Gexp(n - 1)>>)

------------------------------------------------------------------------------
(* qrBitBuffer.put: the highest bit first.                                 *)
BitsOf(num, n) == [i \in 1 .. n |-> (num \div 2 ^ (n - i)) % 2]

NumberOf(bits) ==
    LET value[i \in 0 .. Len(bits)] == IF i = 0 THEN 0 ELSE 2 * value[i - 1] + bits[i]
    IN value[Len(bits)]

(* The bits of bytes, and the bytes of bits whose number is a multiple of  *)
(* eight.                                                                  *)
BitsOfBytes(bytes) ==
    [k \in 1 .. 8 * Len(bytes) |->
        (bytes[(k - 1) \div 8 + 1] \div 2 ^ (7 - ((k - 1) % 8))) % 2]
BytesOfBits(bits) ==
    [i \in 1 .. Len(bits) \div 8 |-> NumberOf(SubSeq(bits, 8 * i - 7, 8 * i))]

(* qrcode.stringToBytes keeps the low byte of every character.             *)
StringToBytes(text) == [i \in DOMAIN text |-> text[i] % 256]

(* The length of a text in bytes, MODE_8BIT_BYTE, takes 8 bits up to type  *)
(* 9 and 16 from there.                                                    *)
MODE_8BIT_BYTE == 4
LengthInBits(type) == IF type < 10 THEN 8 ELSE 16

Buffered(type, bytes) ==
    BitsOf(MODE_8BIT_BYTE, 4) \o BitsOf(Len(bytes), LengthInBits(type)) \o BitsOfBytes(bytes)

(* createData: a text that does not fit throws; otherwise the end code, if *)
(* there is room for it, zeros up to a byte, and the two pads in turn.     *)
PAD0 == 236
PAD1 == 17
Capacity(type, level) ==
    8 * DataCount(RSBlocks(type, level), Len(RSBlocks(type, level)))

Fits(type, level, bytes) == Len(Buffered(type, bytes)) =< Capacity(type, level)

Padded(type, level, bytes) ==
    LET bits == Buffered(type, bytes)
        capacity == Capacity(type, level)
        end == IF Len(bits) + 4 =< capacity THEN bits \o [i \in 1 .. 4 |-> 0] ELSE bits
        whole == end \o [i \in 1 .. (-Len(end)) % 8 |-> 0]
    IN whole \o BitsOfBytes([i \in 1 .. (capacity - Len(whole)) \div 8 |->
                               IF i % 2 = 1 THEN PAD0 ELSE PAD1])

(* createBytes: the remainder of each block of data, with zeros in front,  *)
(* is its error correction; the blocks are interleaved.                    *)
ErrorCorrection(dcdata, n) ==
    LET rest == Mod(Polynomial(dcdata, n), ErrorCorrectPolynomial(n))
    IN [i \in 1 .. n - Len(rest) |-> 0] \o rest

BlockAfterBlock(rows) == FlattenSeq(rows)

Interleaved(rows) ==
    LET longest == CHOOSE n \in {Len(rows[r]) : r \in DOMAIN rows} :
                       \A r \in DOMAIN rows : Len(rows[r]) =< n
        Column(i) == LET has == SelectSeq(rows, LAMBDA row : i =< Len(row))
                     IN [k \in DOMAIN has |-> has[k][i]]
    IN FlattenSeq([i \in 1 .. longest |-> Column(i)])

CreateBytes(buffer, blocks) ==
    LET dcdata == [r \in DOMAIN blocks |->
                      SubSeq(buffer, DataCount(blocks, r - 1) + 1, DataCount(blocks, r))]
        ecdata == [r \in DOMAIN blocks |->
                      ErrorCorrection(dcdata[r], blocks[r].total - blocks[r].data)]
    IN Interleaved(dcdata) \o Interleaved(ecdata)

CreateData(type, level, bytes) ==
    CreateBytes(BytesOfBits(Padded(type, level, bytes)), RSBlocks(type, level))
=============================================================================
