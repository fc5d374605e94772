------------------------------- MODULE Pixels -------------------------------
(***************************************************************************)
(* The framebuffer's pixels (hal/fbuf.c): how a colour is packed for the   *)
(* pixel type of the driver and read back, and which bytes a run of pixels *)
(* and a fill of lines write. A colour is its three bytes, a pixel the     *)
(* bytes it has in memory, lowest address first; a buffer is HEIGHT lines  *)
(* of WIDTH pixels, each line with a gap after it.                         *)
(***************************************************************************)
EXTENDS Integers, Sequences, SequencesExt

CONSTANTS WIDTH, HEIGHT, Drawing
VARIABLES drawing, shown
pixelVars == <<drawing, shown>>

Rgb(c) == c
Bgr(c) == <<c[3], c[2], c[1]>>
Ordered(f, c) == IF f.order = "RGB" THEN Rgb(c) ELSE Bgr(c)
TopBits(byte, n) == byte \div 2^(8 - n)
Greens(f) == IF f.bits = 15 THEN 5 ELSE 6
fbuf_bytes_per_pixel(f) == CASE f.bits \in {15, 16} -> 2 [] f.bits = 24 -> 3 [] f.bits = 32 -> 4

Swapped(f, bytes) == IF f.re THEN Reverse(bytes) ELSE bytes
Bytes16(w) == <<w % 256, w \div 256>>
Word16(f, ch) == TopBits(ch[1], 5) * 2^(5 + Greens(f)) + TopBits(ch[2], Greens(f)) * 2^5 + TopBits(ch[3], 5)
HighNibble(byte) == byte - (byte % 16)
\* The mask of one byte-swapped type covers half of a byte.
Bytes32(f, c) ==
  CASE f.order = "RGB" /\ ~f.re -> <<c[3], c[2], c[1], 0>>
    [] f.order = "RGB" /\ f.re -> <<0, HighNibble(c[1]), c[2], c[3]>>
    [] f.order = "BGR" /\ ~f.re -> <<c[1], c[2], c[3], 0>>
    [] f.order = "BGR" /\ f.re -> <<0, c[3], c[2], c[1]>>
Bytes24(f, c) == IF f.order = "BGR" THEN <<c[1], c[2], c[3]>> ELSE <<c[3], c[2], c[1]>>
fbuf_process_color(f, c) ==
  CASE f.bits \in {15, 16} -> Swapped(f, Bytes16(Word16(f, Ordered(f, c))))
    [] f.bits = 24 -> Bytes24(f, c) [] f.bits = 32 -> Bytes32(f, c)

Unpacked16(f, w) ==
  LET high == 2^(5 + Greens(f)) IN
  <<((w \div high) % 32) * 8, ((w % high) \div 32) * 2^(8 - Greens(f)), (w % 32) * 8>>
fbuf_getpixel_stub(f, b) ==
  CASE f.bits \in {15, 16} -> LET s == Swapped(f, b) IN Ordered(f, Unpacked16(f, s[1] + 256 * s[2]))
    [] f.bits = 24 -> IF f.order = "RGB" THEN b ELSE Bgr(b)
    [] f.bits = 32 -> LET s == Swapped(f, b) IN IF f.order = "RGB" THEN <<s[3], s[2], s[1]>> ELSE <<s[1], s[2], s[3]>>

\* The bytes from offset at on, n units of the size of a pixel.
Span(at, bpp, n) == at..at + n * bpp - 1
Pitch(d) == WIDTH * fbuf_bytes_per_pixel(d.f) + d.gap
Offset(d, x, y) == y * Pitch(d) + x * fbuf_bytes_per_pixel(d.f)
\* One pixel of the loop, which ends at the last line.
Step(d, s) ==
  IF s.y = HEIGHT THEN s
  ELSE LET next == [at |-> s.at + fbuf_bytes_per_pixel(d.f), x |-> s.x + 1, y |-> s.y,
                    out |-> s.out \union Span(s.at, fbuf_bytes_per_pixel(d.f), 1)] IN
       IF next.x < WIDTH THEN next
       ELSE [next EXCEPT !.x = 0, !.y = @ + 1, !.at = IF s.y + 1 = HEIGHT THEN @ ELSE @ + d.gap]
Loop(d) ==
  FoldLeft(LAMBDA s, i : Step(d, s), [at |-> Offset(d, d.x, d.y), x |-> d.x, y |-> d.y, out |-> {}], [i \in 1..d.n |-> i]).out
fbuf_putpixel_stub(d) ==
  IF d.gap = 0 /\ d.f.bits # 24 THEN Span(Offset(d, d.x, d.y), fbuf_bytes_per_pixel(d.f), d.n) ELSE Loop(d)
Words(d, y, lines) == Span(Offset(d, 0, y), fbuf_bytes_per_pixel(d.f), (Pitch(d) * lines) \div fbuf_bytes_per_pixel(d.f))
fbuf_fill_stub(d) ==
  IF d.f.bits = 24 THEN fbuf_putpixel_stub([d EXCEPT !.x = 0, !.n = WIDTH * d.n])
  ELSE IF Pitch(d) % fbuf_bytes_per_pixel(d.f) = 0 THEN Words(d, d.y, d.n)
  ELSE UNION {Words(d, y, 1) : y \in d.y..d.y + d.n - 1}

PixelsStart(drawings) == drawing \in drawings /\ shown = [done |-> FALSE]
PixelsInit == PixelsStart(Drawing)
PutPixels ==
  /\ ~shown.done
  /\ LET bytes == fbuf_process_color(drawing.f, drawing.c) IN
     shown' = [done |-> TRUE, bytes |-> bytes, color |-> fbuf_getpixel_stub(drawing.f, bytes),
               at |-> IF drawing.fill THEN fbuf_fill_stub(drawing) ELSE fbuf_putpixel_stub(drawing)]
  /\ UNCHANGED drawing
PixelsNext == PutPixels

-----------------------------------------------------------------------------
(* A pixel holds the bits fbuf.h lays out for its type, and reading it     *)
(* gives the colour back as far as they go (fbuf_process_color(),          *)
(* fbuf_getpixel_stub()). The types whose two directions differ are left   *)
(* out: those of 24 bits, and one of the byte-swapped ones of 32.          *)
AstrayType(f) == f.bits = 24 \/ (f.bits = 32 /\ f.order = "RGB" /\ f.re)
Bits(byte, n) == [i \in 1..n |-> (byte \div 2^(8 - i)) % 2]
Value(bits) == FoldLeft(LAMBDA acc, b : 2 * acc + b, 0, bits)
Layout(f, ch) == Bits(ch[1], 5) \o Bits(ch[2], Greens(f)) \o Bits(ch[3], 5)
Documented(f, c) ==
  IF f.bits = 32 THEN Swapped(f, Reverse(<<0>> \o Ordered(f, c)))
  ELSE LET w == Value(Layout(f, Ordered(f, c))) IN Swapped(f, <<w % 256, w \div 256>>)
Lost(f, i) == IF f.bits = 32 THEN 1 ELSE IF i = 2 THEN 2^(8 - Greens(f)) ELSE 8
Coarse(f, c) == [i \in 1..3 |-> c[i] - (c[i] % Lost(f, i))]

(* A run writes the pixels from left to right, then top to bottom, and a   *)
(* fill every pixel of its lines, with nothing before, after or between    *)
(* them but the gaps that a fill may take along.                           *)
PixelAt(d, i) == Span(Offset(d, i % WIDTH, i \div WIDTH), fbuf_bytes_per_pixel(d.f), 1)
First(d) == IF d.fill THEN d.y * WIDTH ELSE d.y * WIDTH + d.x
Amount(d) == IF d.fill THEN d.n * WIDTH ELSE d.n
Wanted(d) == UNION {PixelAt(d, i) : i \in First(d)..First(d) + Amount(d) - 1}
Gaps(d) == UNION {Offset(d, WIDTH, y)..Offset(d, 0, y + 1) - 1 : y \in 0..HEIGHT - 1}
PixelExact ==
  shown.done =>
    /\ Wanted(drawing) \subseteq shown.at
    /\ shown.at \subseteq Wanted(drawing) \union (IF drawing.fill THEN Gaps(drawing) ELSE {})
    /\ ~AstrayType(drawing.f) =>
         shown.bytes = Documented(drawing.f, drawing.c) /\ shown.color = Coarse(drawing.f, drawing.c)
=============================================================================
