------------------------------ MODULE QrReader ------------------------------
(* What a phone reads from the image of a QR code: the GIF is unpacked and *)
(* its pixels sampled; the type information is checked, the mask taken     *)
(* off, the codewords are read along the columns, checked block by block,  *)
(* and the text taken from the data.                                       *)
EXTENDS QrCode

(* Free places by the geometry of the symbol: not in a corner with a       *)
(* finder, on a timing line, in an alignment pattern or in the type number.*)
FreePlaces(type) ==
    LET n == ModuleCount(type)
        Corner(p) == \/ p[1] < 9 /\ (p[2] < 9 \/ p[2] >= n - 8)
                     \/ p[2] < 9 /\ p[1] >= n - 8
        pos == PATTERN_POSITION_TABLE[type]
        centres == {q \in pos \X pos :
                       ~(q[1] < 9 /\ (q[2] < 9 \/ q[2] > n - 9)) /\ ~(q[2] < 9 /\ q[1] > n - 9)}
        Aligned(p) == \E q \in centres : p[1] - q[1] \in -2 .. 2 /\ p[2] - q[2] \in -2 .. 2
        Number(p) == type >= 7 /\ \/ p[1] < 6 /\ p[2] \in n - 11 .. n - 9
                                  \/ p[2] < 6 /\ p[1] \in n - 11 .. n - 9
    IN {p \in (0 .. n - 1) \X (0 .. n - 1) :
           ~Corner(p) /\ 6 \notin {p[1], p[2]} /\ ~Aligned(p) /\ ~Number(p)}

(* The free places as they are read: by strips of two columns from the     *)
(* right, leaving out the timing column, up and down in turn.              *)
PlaceOf ==
    [type \in {c[1] : c \in Codes} |->
        LET n == ModuleCount(type)
            free == FreePlaces(type)
            rights == [k \in 1 .. (n - 1) \div 2 |->
                          IF n + 1 - 2 * k > 7 THEN n + 1 - 2 * k ELSE n - 2 * k]
            Strip(k) == LET Row(t) == IF k % 2 = 1 THEN n - t ELSE t - 1
                        IN FlattenSeq([t \in 1 .. n |-> <<<<Row(t), rights[k]>>,
                                                         <<Row(t), rights[k] - 1>>>>])
        IN SelectSeq(FlattenSeq([k \in DOMAIN rights |-> Strip(k)]), LAMBDA p : p \in free)]

Information(m, Place(_, _)) ==
    LET n == Cardinality(DOMAIN m)
        bit == [i \in 0 .. 14 |-> m[Place(n, i)[1]][Place(n, i)[2]]]
        value[i \in 0 .. 15] == IF i = 0 THEN 0 ELSE value[i - 1] + bit[i - 1] * 2 ^ (i - 1)
    IN value[15] ^^ G15_MASK

Codewords(m, type, mask) ==
    LET place == PlaceOf[type]
        Bit(p) == (m[p[1]][p[2]] + (IF MaskFunction(mask, p[1], p[2]) THEN 1 ELSE 0)) % 2
    IN BytesOfBits([k \in DOMAIN place |-> Bit(place[k])])

(* The codewords of block r, data and then error correction.               *)
Block(words, blocks, r) ==
    LET Before(i) ==
            LET sum[k \in 0 .. Len(blocks)] ==
                    IF k = 0 THEN 0
                    ELSE sum[k - 1] + (IF blocks[k].data < i THEN blocks[k].data ELSE i)
            IN sum[Len(blocks)]
        DataAt(i) == Before(i - 1) + Cardinality({q \in 1 .. r : blocks[q].data >= i})
        CheckAt(i) == DataCount(blocks, Len(blocks)) + (i - 1) * Len(blocks) + r
    IN [i \in 1 .. blocks[r].total |->
           words[IF i =< blocks[r].data THEN DataAt(i) ELSE CheckAt(i - blocks[r].data)]]

(* Multiplication by the generator, modulo x^8 + x^4 + x^3 + x^2 + 1.      *)
Twice(x) == IF x < 128 THEN 2 * x ELSE (2 * x) ^^ 285

RECURSIVE Times(_, _)
Times(x, y) == IF y = 0 THEN 0 ELSE (IF y % 2 = 1 THEN x ELSE 0) ^^ Times(Twice(x), y \div 2)

RECURSIVE Power(_)
Power(e) == IF e = 0 THEN 1 ELSE Twice(Power(e - 1))

Syndrome(block, e) ==
    LET x == Power(e)
        value[i \in 0 .. Len(block)] == IF i = 0 THEN 0 ELSE Times(value[i - 1], x) ^^ block[i]
    IN value[Len(block)]

(* The bytes of the first segment, which must be one of bytes.             *)
Segment(bits, type) ==
    LET l == LengthInBits(type)
        size == NumberOf(SubSeq(bits, 5, 4 + l))
    IN BytesOfBits(SubSeq(bits, 5 + l, 4 + l + 8 * size))

Read(m) ==
    LET type == (Cardinality(DOMAIN m) - 17) \div 4
        info == Information(m, Vertical) \div 1024
        blocks == RSBlocks(type, CHOOSE l \in DOMAIN QRErrorCorrectLevel :
                                     QRErrorCorrectLevel[l] = info \div 8)
        words == Codewords(m, type, info % 8)
        payload == FlattenSeq([r \in DOMAIN blocks |->
                    SubSeq(Block(words, blocks, r), 1, blocks[r].data)])
    IN [blocks |-> [r \in DOMAIN blocks |-> Block(words, blocks, r)],
        checks |-> [r \in DOMAIN blocks |-> blocks[r].total - blocks[r].data],
        mode |-> payload[1] \div 16,
        bytes |-> Segment(BitsOfBytes(payload), type)]

------------------------------------------------------------------------------
(* What has been unpacked: the place of the next code, its width, the      *)
(* strings of the codes, the last string and the pixels.  A code adds the  *)
(* string before it with its own first pixel to the table; one that is not *)
(* yet in the table is the string before it with that string's first pixel.*)
Unpacking ==
    [at |-> 1, width |-> 3, table |-> [k \in 1 .. 6 |-> <<k - 1>>], last |-> <<>>,
     pixels |-> <<>>, done |-> FALSE]

Code(bits, at, width) ==
    LET value[i \in 0 .. width] == IF i = 0 THEN 0 ELSE value[i - 1] + bits[at + i - 1] * 2 ^ (i - 1)
    IN value[width]

UnpackCode(bits, z) ==
    LET c == Code(bits, z.at, z.width)
        entry == IF c < Len(z.table) THEN z.table[c + 1] ELSE Append(z.last, Head(z.last))
        full == z.last = <<>> \/ Len(z.table) > TableLimit
        table == IF full THEN z.table ELSE Append(z.table, Append(z.last, Head(entry)))
        wider == Len(table) = 2 ^ z.width /\ Len(table) =< TableLimit
    IN IF c = EndCode THEN [z EXCEPT !.done = TRUE]
       ELSE IF c = ClearCode THEN [Unpacking EXCEPT !.at = z.at + z.width, !.pixels = z.pixels]
       ELSE [at |-> z.at + z.width, width |-> IF wider THEN z.width + 1 ELSE z.width,
             table |-> table, last |-> entry, pixels |-> z.pixels \o entry, done |-> FALSE]

(* At most n codes, in two halves.                                         *)
RECURSIVE Unpack(_, _, _)
Unpack(bits, z, n) ==
    IF z.done THEN z
    ELSE IF n = 1 THEN UnpackCode(bits, z)
    ELSE Unpack(bits, Unpack(bits, z, n \div 2), n - n \div 2)

BitsLowFirst(bytes) ==
    [k \in 1 .. 8 * Len(bytes) |-> (bytes[(k - 1) \div 8 + 1] \div 2 ^ ((k - 1) % 8)) % 2]

RECURSIVE Joined(_)
Joined(bytes) ==
    IF bytes[1] = 0 THEN <<>>
    ELSE SubSeq(bytes, 2, bytes[1] + 1) \o Joined(SubSeq(bytes, bytes[1] + 2, Len(bytes)))

(* The width and the pixels of an image in base 64.                        *)
Picture(chars) ==
    LET bytes == Read64(chars)
        raster64 == Joined(SubSeq(bytes, 31, Len(bytes)))
    IN [width |-> bytes[7] + 256 * bytes[8],
        pixels |-> Unpack(BitsLowFirst(raster64), Unpacking, 3 * Len(raster64)).pixels]

------------------------------------------------------------------------------
TypeOK ==
    /\ stage \in {"testing", "overflow", "made", "tagged"}
    /\ tried \in 0 .. 8 /\ pattern \in 0 .. 7
    /\ data # <<>> => /\ \A i \in DOMAIN data : data[i] \in 0 .. 255
                      /\ Len(PlaceOf[code[1]]) - 8 * Len(data) \in 0 .. 7
    /\ stage = "made" => raster.size =< TableLimit /\ raster.size =< 2 ^ raster.bitLength
    /\ modules # <<>> =>
          \A i, j \in 0 .. ModuleCount(code[1]) - 1 : modules[i][j] \in {0, 1}

(* generateQR: the code that is made scans.  Both copies of its type       *)
(* information agree and are a codeword of their code, every block is one  *)
(* of its Reed-Solomon code, so that errors can be corrected, and the data *)
(* are the bytes of the text.  Only a text that needs more bits than the   *)
(* code has is refused.                                                    *)
CodeScans ==
    /\ stage = "made" /\ drawn = 0 =>
          LET got == Read(modules)
              info == Information(modules, Vertical) ^^ G15_MASK
          IN /\ Information(modules, Horizontal) ^^ G15_MASK = info
             /\ Reduce(info ^^ G15_MASK, G15) = 0
             /\ \A r \in DOMAIN got.blocks, e \in 0 .. 30 :
                    e < got.checks[r] => Syndrome(got.blocks[r], e) = 0
             /\ got.mode = MODE_8BIT_BYTE
             /\ got.bytes = StringToBytes(text)
    /\ stage = "overflow" =>
          12 + 8 * Len(text) > 8 * DataCount(RSBlocks(code[1], code[2]), Len(RSBlocks(code[1], code[2])))

(* createImgTag: the image is the code.  The middle of every module is     *)
(* sampled from the unpacked pixels, and the margin is white.              *)
ImageShowsCode ==
    stage = "tagged" =>
        LET picture == Picture(tag)
            Pixel(x, y) == picture.pixels[y * picture.width + x + 1]
            Middle(i) == Margin + CellSize * i + CellSize \div 2
            margins == {x \in 0 .. Size - 1 : x < Margin \/ x >= Size - Margin}
        IN /\ picture.width = Size /\ Len(picture.pixels) = Size * Size
           /\ \A i, j \in DOMAIN modules : Pixel(Middle(j), Middle(i)) = 1 - modules[i][j]
           /\ \A x \in margins, y \in 0 .. Size - 1 : Pixel(x, y) = 1 /\ Pixel(y, x) = 1
=============================================================================
