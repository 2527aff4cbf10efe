------------------------------- MODULE QrCode -------------------------------
(* The QR code of a payment request, qrcode.js as generateQR of pos.js uses *)
(* it: every mask is tried on a code without its type information, the one *)
(* with the least lost points is kept, and the modules become an image.    *)
EXTENDS QrData, QrImage, FiniteSets

CONSTANTS
    Codes,      \* type and level of error correction; <<4, "M">> on the page
    Texts,      \* the texts, as sequences of character codes
    CellSize, Margin    \* of the image; 7 and 5 on the page

VARIABLES
    code, text,         \* what is asked for
    stage,              \* "testing", "overflow", "made", "tagged"
    data,               \* _dataCache, the codewords
    tried,              \* the mask patterns tested
    minLostPoint, pattern,
    modules,            \* rows of modules, 1 when dark
    raster,             \* the compressor of the image's pixels
    drawn,              \* the rows of pixels compressed
    tag                 \* the characters of the image in base 64

vars == <<code, text, stage, data, tried, minLostPoint, pattern, modules, raster, drawn, tag>>

ModuleCount(type) == type * 4 + 17
Within(n, from, to) == {i \in from .. to : 0 =< i /\ i < n}

------------------------------------------------------------------------------
(* The function patterns: functions from some of the places to 0 and 1.    *)
Finder(n, row, col) ==
    LET Dark(r, c) == \/ r \in 0 .. 6 /\ c \in {0, 6}
                      \/ c \in 0 .. 6 /\ r \in {0, 6}
                      \/ r \in 2 .. 4 /\ c \in 2 .. 4
    IN [p \in Within(n, row - 1, row + 7) \X Within(n, col - 1, col + 7) |->
           IF Dark(p[1] - row, p[2] - col) THEN 1 ELSE 0]

Finders(n) == Finder(n, 0, 0) @@ Finder(n, n - 7, 0) @@ Finder(n, 0, n - 7)

PATTERN_POSITION_TABLE ==
    << {}, {6, 18}, {6, 22}, {6, 26}, {6, 30}, {6, 34}, {6, 22, 38}, {6, 24, 42},
       {6, 26, 46}, {6, 28, 50} >>

(* A pattern whose centre is taken is left out.                            *)
Adjusts(type, taken) ==
    LET pos == PATTERN_POSITION_TABLE[type]
        centres == (pos \X pos) \ DOMAIN taken
        Around(p) == (p[1] - 2 .. p[1] + 2) \X (p[2] - 2 .. p[2] + 2)
        Dark(r, c) == r \in {-2, 2} \/ c \in {-2, 2} \/ (r = 0 /\ c = 0)
    IN [p \in UNION {Around(q) : q \in centres} |->
           LET q == CHOOSE q \in centres : p \in Around(q)
           IN IF Dark(p[1] - q[1], p[2] - q[2]) THEN 1 ELSE 0]

Timing(n) ==
    [p \in ((8 .. n - 9) \X {6}) \cup ({6} \X (8 .. n - 9)) |->
        IF (p[1] + p[2]) % 2 = 0 THEN 1 ELSE 0]

(* The codes of Bose, Chaudhuri and Hocquenghem: the remainder of the data *)
(* is appended to it.                                                      *)
RECURSIVE BCHDigit(_)
BCHDigit(d) == IF d = 0 THEN 0 ELSE 1 + BCHDigit(d \div 2)

RECURSIVE Reduce(_, _)
Reduce(d, g) ==
    IF BCHDigit(d) < BCHDigit(g) THEN d
    ELSE Reduce(d ^^ (g * 2 ^ (BCHDigit(d) - BCHDigit(g))), g)

G15 == 1335         \* 10100110111 in binary
G18 == 7973         \* 1111100100101
G15_MASK == 21522   \* 101010000010010

BCHTypeInfo(d) == (d * 2 ^ 10 + Reduce(d * 2 ^ 10, G15)) ^^ G15_MASK
BCHTypeNumber(d) == d * 2 ^ 12 + Reduce(d * 2 ^ 12, G18)

(* Bit i of bits, which a test leaves out.                                 *)
Written(test, bits, i) == IF test THEN 0 ELSE (bits \div 2 ^ i) % 2

(* The places of bit i of the type information, by column 8 and by row 8.  *)
Vertical(n, i) == <<IF i < 6 THEN i ELSE IF i < 8 THEN i + 1 ELSE n - 15 + i, 8>>
Horizontal(n, i) == <<8, IF i < 8 THEN n - i - 1 ELSE IF i < 9 THEN 15 - i ELSE 14 - i>>

TypeInfo(n, test, bits) ==
    (<<n - 8, 8>> :> IF test THEN 0 ELSE 1)
    @@ [p \in {Horizontal(n, i) : i \in 0 .. 14} |->
           Written(test, bits, CHOOSE i \in 0 .. 14 : p = Horizontal(n, i))]
    @@ [p \in {Vertical(n, i) : i \in 0 .. 14} |->
           Written(test, bits, CHOOSE i \in 0 .. 14 : p = Vertical(n, i))]

TypeNumber(n, test, bits) ==
    LET corner == (0 .. 5) \X (n - 11 .. n - 9)
        Bit(r, c) == Written(test, bits, 3 * r + c - (n - 11))
    IN [p \in corner |-> Bit(p[1], p[2])]
       @@ [p \in {<<q[2], q[1]>> : q \in corner} |-> Bit(p[2], p[1])]

(* makeImpl up to mapData.                                                 *)
Patterns(type, level, test, mask) ==
    LET n == ModuleCount(type)
        finders == Finders(n)
        info == BCHTypeInfo(8 * QRErrorCorrectLevel[level] + mask)
        number == IF type < 7 THEN <<>> ELSE TypeNumber(n, test, BCHTypeNumber(type))
    IN number @@ TypeInfo(n, test, info) @@ finders @@ Adjusts(type, finders) @@ Timing(n)

------------------------------------------------------------------------------
(* mapData goes up and down by pairs of columns from the right, past       *)
(* column 6, and fills the places that are free.                           *)
Path(n) ==
    LET Column(k) == IF n - 1 - 2 * k =< 6 THEN n - 2 - 2 * k ELSE n - 1 - 2 * k
        Row(k, i) == IF k % 2 = 0 THEN n - 1 - i ELSE i
    IN [t \in 1 .. n * (n - 1) |->
           LET k == (t - 1) \div (2 * n)
               i == (t - 1) % (2 * n)
           IN <<Row(k, i \div 2), Column(k) - (i % 2)>>]

(* The place of every module of the types in use among the free ones along *)
(* that path, and 0 when it is not free.                                   *)
Order ==
    [type \in {c[1] : c \in Codes} |->
        LET n == ModuleCount(type)
            fixed == DOMAIN Patterns(type, "L", TRUE, 0)
            free == SelectSeq(Path(n), LAMBDA p : p \notin fixed)
        IN [i \in 0 .. n - 1 |-> [j \in 0 .. n - 1 |->
               SelectInSeq(free, LAMBDA p : p = <<i, j>>)]]]

MaskFunction(mask, i, j) ==
    CASE mask = 0 -> (i + j) % 2 = 0
      [] mask = 1 -> i % 2 = 0
      [] mask = 2 -> j % 3 = 0
      [] mask = 3 -> (i + j) % 3 = 0
      [] mask = 4 -> (i \div 2 + j \div 3) % 2 = 0
      [] mask = 5 -> ((i * j) % 2) + ((i * j) % 3) = 0
      [] mask = 6 -> (((i * j) % 2) + ((i * j) % 3)) % 2 = 0
      [] mask = 7 -> (((i * j) % 3) + ((i + j) % 2)) % 2 = 0

(* Bits that are left over are light before the mask.                      *)
DataBit(d, k) ==
    IF (k - 1) \div 8 < Len(d) THEN (d[(k - 1) \div 8 + 1] \div 2 ^ (7 - ((k - 1) % 8))) % 2
    ELSE 0

MakeImpl(c, d, test, mask) ==
    LET type == c[1]
        n == ModuleCount(type)
        fixed == Patterns(type, c[2], test, mask)
        place == Order[type]
        Free(i, j) == (DataBit(d, place[i][j]) + (IF MaskFunction(mask, i, j) THEN 1 ELSE 0)) % 2
    IN [i \in 0 .. n - 1 |-> [j \in 0 .. n - 1 |->
           IF place[i][j] = 0 THEN fixed[<<i, j>>] ELSE Free(i, j)]]

------------------------------------------------------------------------------
(* getLostPoint, times the square of the number of modules to a side,      *)
(* which the share of dark modules is divided by.                          *)
LostPoint(m) ==
    LET n == Cardinality(DOMAIN m)
        square == (0 .. n - 1) \X (0 .. n - 1)
        same == [p \in square |->
                   Cardinality({q \in Within(n, p[1] - 1, p[1] + 1)
                                        \X Within(n, p[2] - 1, p[2] + 1) :
                                   q # p /\ m[q[1]][q[2]] = m[p[1]][p[2]]})]
        Crowded(k) == Cardinality({p \in square : same[p] = k})
        blocks == {p \in (0 .. n - 2) \X (0 .. n - 2) :
                      m[p[1]][p[2]] + m[p[1] + 1][p[2]] + m[p[1]][p[2] + 1]
                         + m[p[1] + 1][p[2] + 1] \in {0, 4}}
        finder == <<1, 0, 1, 1, 1, 0, 1>>
        rows == {p \in (0 .. n - 1) \X (0 .. n - 7) :
                    \A k \in 1 .. 7 : m[p[1]][p[2] + k - 1] = finder[k]}
        columns == {p \in (0 .. n - 7) \X (0 .. n - 1) :
                       \A k \in 1 .. 7 : m[p[1] + k - 1][p[2]] = finder[k]}
        dark == Cardinality({p \in square : m[p[1]][p[2]] = 1})
        off == 100 * dark - 50 * n * n
    IN n * n * (4 * Crowded(6) + 5 * Crowded(7) + 6 * Crowded(8) + 3 * Cardinality(blocks)
                  + 40 * (Cardinality(rows) + Cardinality(columns)))
         + 2 * (IF off < 0 THEN -off ELSE off)

------------------------------------------------------------------------------
Init ==
    /\ code \in Codes /\ text \in Texts
    /\ stage = "testing"
    /\ data = <<>>
    /\ tried = 0 /\ minLostPoint = 0 /\ pattern = 0
    /\ modules = <<>>
    /\ raster = Start /\ drawn = 0 /\ tag = <<>>

(* The first test makes the codewords, or throws.                          *)
Overflow ==
    /\ stage = "testing" /\ tried = 0
    /\ ~Fits(code[1], code[2], StringToBytes(text))
    /\ stage' = "overflow"
    /\ UNCHANGED <<code, text, data, tried, minLostPoint, pattern, modules, raster, drawn, tag>>

(* One turn of getBestMaskPattern's loop.                                  *)
TestMask ==
    /\ stage = "testing" /\ tried < 8
    /\ Fits(code[1], code[2], StringToBytes(text))
    /\ data' = IF tried > 0 THEN data ELSE CreateData(code[1], code[2], StringToBytes(text))
    /\ modules' = MakeImpl(code, data', TRUE, tried)
    /\ LET lostPoint == LostPoint(modules')
           better == tried = 0 \/ minLostPoint > lostPoint
       IN /\ minLostPoint' = IF better THEN lostPoint ELSE minLostPoint
          /\ pattern' = IF better THEN tried ELSE pattern
    /\ tried' = tried + 1
    /\ UNCHANGED <<code, text, stage, raster, drawn, tag>>

Make ==
    /\ stage = "testing" /\ tried = 8
    /\ modules' = MakeImpl(code, data, FALSE, pattern)
    /\ stage' = "made"
    /\ UNCHANGED <<code, text, data, tried, minLostPoint, pattern, raster, drawn, tag>>

(* createImgTag: the side of the image, and row y of its pixels, 0 when    *)
(* dark.                                                                   *)
Size == ModuleCount(code[1]) * CellSize + 2 * Margin

PixelRowTransposed(y) ==
    LET Inside(x) == Margin =< x /\ x < Size - Margin
        Cell(x) == (x - Margin) \div CellSize
    IN [x \in 1 .. Size |->
           IF Inside(x - 1) /\ Inside(y) THEN 1 - modules[Cell(x - 1)][Cell(y)] ELSE 1]

PixelRow(y) ==
    LET Inside(x) == Margin =< x /\ x < Size - Margin
        Cell(x) == (x - Margin) \div CellSize
    IN [x \in 1 .. Size |->
           IF Inside(x - 1) /\ Inside(y) THEN 1 - modules[Cell(y)][Cell(x - 1)] ELSE 1]

DrawRow ==
    /\ stage = "made" /\ drawn < Size
    /\ raster' = AddPixels(raster, PixelRow(drawn))
    /\ drawn' = drawn + 1
    /\ UNCHANGED <<code, text, stage, data, tried, minLostPoint, pattern, modules, tag>>

WriteTag ==
    /\ stage = "made" /\ drawn = Size
    /\ tag' = Base64(Gif(Size, Size, Raster(raster)))
    /\ stage' = "tagged"
    /\ UNCHANGED <<code, text, data, tried, minLostPoint, pattern, modules, raster, drawn>>

Next == Overflow \/ TestMask \/ Make \/ DrawRow \/ WriteTag
Spec == Init /\ [][Next]_vars
=============================================================================
