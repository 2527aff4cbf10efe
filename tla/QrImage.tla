------------------------------ MODULE QrImage -------------------------------
(* The image of a QR code, qrcode.js: pixels of two colours compressed     *)
(* after Lempel, Ziv and Welch, in the blocks of a GIF, in base 64.        *)
EXTENDS Integers, SequencesExt, TLC

CONSTANTS TableLimit    \* where the table of codes stops growing, 4095

(* lzwTable and the stream of bits: the codes of the strings seen, the     *)
(* string read and not written, the bits of a code, and the bits written,  *)
(* the lowest of each code first.                                          *)
ClearCode == 4
EndCode == 5

LowFirst(num, n) == [i \in 1 .. n |-> (num \div 2 ^ (i - 1)) % 2]

Start ==
    [table |-> [s \in {<<k>> : k \in 0 .. 5} |-> s[1]], size |-> 6, s |-> <<>>,
     bitLength |-> 3, bits |-> LowFirst(ClearCode, 3)]

Known(z, s) == s \in DOMAIN z.table

(* The table takes a string once more bits are used where they are needed. *)
Grow(z, s) ==
    [z EXCEPT !.table = (s :> z.size) @@ @, !.size = @ + 1,
              !.bitLength = IF z.size = 2 ^ @ THEN @ + 1 ELSE @]

AddPixelPastLimit(z, c) ==
    LET sc == Append(z.s, c)
        written == [z EXCEPT !.bits = @ \o LowFirst(z.table[z.s], z.bitLength)]
        grown == IF z.size =< TableLimit THEN Grow(written, sc) ELSE written
    IN IF Known(z, sc) THEN [z EXCEPT !.s = sc] ELSE [grown EXCEPT !.s = <<c>>]

(* A pixel lengthens the string while the table has it.                    *)
AddPixel(z, c) ==
    LET sc == Append(z.s, c)
        written == [z EXCEPT !.bits = @ \o LowFirst(z.table[z.s], z.bitLength)]
        grown == IF z.size < TableLimit THEN Grow(written, sc) ELSE written
    IN IF Known(z, sc) THEN [z EXCEPT !.s = sc] ELSE [grown EXCEPT !.s = <<c>>]

(* Pixels in two halves; prefixes of a string the table has are in it too. *)
RECURSIVE AddPixels(_, _)
AddPixels(z, pixels) ==
    LET half == Len(pixels) \div 2
    IN IF Known(z, z.s \o pixels) THEN [z EXCEPT !.s = @ \o pixels]
       ELSE IF Len(pixels) = 1 THEN AddPixel(z, pixels[1])
       ELSE AddPixels(AddPixels(z, SubSeq(pixels, 1, half)), SubSeq(pixels, half + 1, Len(pixels)))

(* The bytes of bits, the lowest first, the last one filled with zeros.    *)
Packed(bits) ==
    LET Bit(k) == IF k =< Len(bits) THEN bits[k] ELSE 0
    IN [i \in 1 .. (Len(bits) + 7) \div 8 |->
           Bit(8 * i - 7) + 2 * Bit(8 * i - 6) + 4 * Bit(8 * i - 5) + 8 * Bit(8 * i - 4)
             + 16 * Bit(8 * i - 3) + 32 * Bit(8 * i - 2) + 64 * Bit(8 * i - 1) + 128 * Bit(8 * i)]

Raster(z) ==
    Packed(z.bits \o LowFirst(z.table[z.s], z.bitLength) \o LowFirst(EndCode, z.bitLength))

------------------------------------------------------------------------------
(* gifImage.write: header, screen, colours and image descriptor, and the   *)
(* raster in blocks of at most 255 bytes.                                  *)
Short(i) == <<i % 256, i \div 256>>

Header(width, height) ==
    <<71, 73, 70, 56, 55, 97>> \o Short(width) \o Short(height) \o <<128, 0, 0>>
      \o <<0, 0, 0, 255, 255, 255>>
      \o <<44, 0, 0, 0, 0>> \o Short(width) \o Short(height) \o <<0, 2>>

RECURSIVE Blocks(_)
Blocks(bytes) ==
    IF Len(bytes) > 255 THEN <<255>> \o SubSeq(bytes, 1, 255) \o Blocks(SubSeq(bytes, 256, Len(bytes)))
    ELSE <<Len(bytes)>> \o bytes

Gif(width, height, bytes) == Header(width, height) \o Blocks(bytes) \o <<0, 59>>

(* base64EncodeOutputStream: six bits to a character, the last filled with *)
(* zeros, and "=" up to a multiple of four characters.                     *)
Encode(n) ==
    IF n < 26 THEN 65 + n ELSE IF n < 52 THEN 97 + n - 26 ELSE IF n < 62 THEN 48 + n - 52
    ELSE IF n = 62 THEN 43 ELSE 47

Equals == 61

Base64(bytes) ==
    LET Byte(i) == IF i =< Len(bytes) THEN bytes[i] ELSE 0
        Triple(k) == 65536 * Byte(3 * k + 1) + 256 * Byte(3 * k + 2) + Byte(3 * k + 3)
        chars == (8 * Len(bytes) + 5) \div 6
    IN [k \in 1 .. chars |-> Encode((Triple((k - 1) \div 4) \div 64 ^ (3 - ((k - 1) % 4))) % 64)]
       \o [k \in 1 .. (3 - (Len(bytes) % 3)) % 3 |-> Equals]

(* base64DecodeInputStream reads up to the first "=" and drops what does   *)
(* not fill a byte.                                                        *)
Decode(c) ==
    IF c \in 65 .. 90 THEN c - 65 ELSE IF c \in 97 .. 122 THEN c - 97 + 26
    ELSE IF c \in 48 .. 57 THEN c - 48 + 52 ELSE IF c = 43 THEN 62 ELSE 63

Read64(chars) ==
    LET read == SelectSeq(chars, LAMBDA c : c # Equals)
        Value(k) == IF k =< Len(read) THEN Decode(read[k]) ELSE 0
        Quad(q) == 64 * (64 * (64 * Value(4 * q + 1) + Value(4 * q + 2)) + Value(4 * q + 3))
                     + Value(4 * q + 4)
    IN [i \in 1 .. (6 * Len(read)) \div 8 |->
           (Quad((i - 1) \div 3) \div 256 ^ (2 - ((i - 1) % 3))) % 256]
=============================================================================
