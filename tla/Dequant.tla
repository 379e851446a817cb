------------------------------ MODULE Dequant ------------------------------
(***************************************************************************)
(* How matmul turns a 32-bit register of packed weights into 16-bit floats: *)
(* dequant.h for half and bfloat16, and the 8-bit scales of MXFP4, which    *)
(* are converted over the register they came in.                            *)
(*                                                                         *)
(* A register is its two 16-bit lanes, the low one first; a shift carries   *)
(* bits across them.  A float is <<n, e>>, n * 2^e: the arithmetic of the   *)
(* GPU is external, and exact where the result has a pattern of its own.    *)
(***************************************************************************)
EXTENDS Integers, Sequences, Bitwise

CONSTANTS
    Formats,    \* the weight types and the exponent width of the floats they become
    WordChoices,\* WordChoices[bits]: the registers of weights, as sequences of codes
    ScaleWords  \* the bytes of two registers of scales

\* Codes that are numbers; and scales between the two ends, of which the code says
\* that they do not occur: 2^-127 would become 0, and 2^126 times 6 an infinity.
ASSUME DequantAssumption ==
    /\ \A f \in Formats : \A c \in WordChoices[f.bits] : \A i \in 1 .. 8 :
         c[i] \in 0 .. 2^f.bits - 1 /\ (f.exp = 4 => c[i] % 128 # 127)
    /\ \A b \in ScaleWords : \A i \in 1 .. 8 : b[i] \in 1 .. 252

VARIABLES
    job,      \* [format, codes, bytes]: the types, and the codes in the registers
    fragment, \* frag_b0 and frag_b1: two pairs of floats each, or Unset
    scales    \* frag_s after the conversion: eight floats, or Unset

dequantVars == <<job, fragment, scales>>

Unset == <<>>

-----------------------------------------------------------------------------
(* Registers and floats.                                                     *)

Both(op(_), w) == <<op(w[1]), op(w[2])>>
Masked(w, mask) == LET and(x) == x & mask IN Both(and, w)

ShiftLeft(w, n) ==
    <<(w[1] * 2^n) % 65536, ((w[2] * 2^n) % 65536) + ((w[1] * 2^n) \div 65536)>>
ShiftRight(w, n) ==
    <<(w[1] \div 2^n) + ((w[2] % 2^n) * 2^(16 - n)), w[2] \div 2^n>>

\* Of an int: the sign fills the top.
ShiftRightInt(w, n) ==
    <<ShiftRight(w, n)[1], ShiftRight(w, n)[2] + IF w[2] < 32768 THEN 0 ELSE 65536 - 2^(16 - n)>>

\* The register that holds codes, the first in its lowest bits.
Packed(codes, bits) ==
    LET lane(first) == LET part[i \in 0 .. 16 \div bits] ==
                               IF i = 0 THEN 0
                               ELSE part[i - 1] + codes[first + i] * 2^(bits * (i - 1))
                       IN  part[16 \div bits]
    IN  <<lane(0), lane(16 \div bits)>>

\* n * 2^e with n odd, or zero.
Float(n, e) ==
    IF n = 0 THEN <<0, 0>>
    ELSE LET k == CHOOSE k \in 0 .. 30 : n % 2^k = 0 /\ n % 2^(k + 1) # 0
         IN  <<n \div 2^k, e + k>>

\* A pattern of `width` bits, one of them the sign and exp of them the exponent.
Decoded(x, width, exp) ==
    LET man  == width - 1 - exp
        bias == 2^(exp - 1) - 1
        m    == x % 2^man
        e    == (x \div 2^man) % 2^exp
        n    == IF e = 0 THEN m ELSE 2^man + m
    IN  Float(IF x \div 2^(width - 1) = 1 THEN -n ELSE n,
              (IF e = 0 THEN 1 ELSE e) - bias - man)

Value16(x, exp) == Decoded(x, 16, exp)

\* Does a float have a 16-bit pattern, with exp bits of exponent?
Representable(v, exp) ==
    LET man  == 15 - exp
        bias == 2^(exp - 1) - 1
        size == IF v[1] < 0 THEN -v[1] ELSE v[1]
    IN  v[1] # 0 =>
          \E d \in 0 .. man :
             /\ 2^d <= size /\ size < 2^(d + 1)
             /\ v[2] >= 1 - bias - man
             /\ v[2] + d <= bias

Times(a, b) == Float(a[1] * b[1], a[2] + b[2])
Plus(a, b) ==
    LET e == IF a[2] < b[2] THEN a[2] ELSE b[2]
    IN  Float(a[1] * 2^(a[2] - e) + b[1] * 2^(b[2] - e), e)
Minus(a, b) == Plus(a, <<-b[1], b[2]>>)

-----------------------------------------------------------------------------
(* dequant<scalar_t2, w_type_id, false>: the bits, then the arithmetic.  Each *)
(* gives <<frag_b[0], frag_b[1]>>, pairs of floats.                          *)

\* Fault: the second half is taken before the register is shifted.
SecondPartStays(q, bits) == q

\* q <<= 4 or 8: the codes of frag_b[0].
SecondPart(q, bits) == ShiftLeft(q, bits)

\* Signs stay where they are, exponent and mantissa move below them; then the bias
\* of the wider exponent is multiplied in.
DequantFloat(q, f) ==
    LET mask  == IF f.bits = 4 THEN 28672 ELSE 32512        \* 0x7000, 0x7F00
        out(w) == LET low == ShiftRightInt(Masked(w, mask), f.to - f.exp)
                      sign == Masked(w, 32768)
                  IN  <<sign[1] + low[1], sign[2] + low[2]>>
        biased(x) == Times(Value16(x, f.to), <<1, 2^(f.to - 1) - 2^(f.exp - 1)>>)
    IN  <<Both(biased, out(SecondPart(q, f.bits))), Both(biased, out(q))>>

\* 4-bit integers become 1024 + v (half) or 128 + v (bfloat16) by a bit operation.  In
\* half the upper nibble stays in place, 16 times as large, for a multiply-add.
DequantInt4(q, f) ==
    LET half == f.to = 5
        ex   == IF half THEN 25600 ELSE 17152               \* 0x6400, 0x4300
        sub  == Value16(ex + f.zero, f.to)
        add  == Value16(IF f.zero = 0 THEN 54272 ELSE 54400, f.to) \* 0xd400, 0xd480
        lo(x)   == Minus(Value16(x | ex, f.to), sub)
        hi(x)   == Plus(Times(Value16(x | ex, f.to), Value16(11264, f.to)), add) \* 0x2c00
    IN  IF half THEN <<Both(lo, Masked(q, 15)), Both(hi, Masked(q, 240))>>
        ELSE <<Both(lo, Masked(q, 15)), Both(lo, Masked(ShiftRightInt(q, 4), 15))>>

\* 8-bit integers are moved by byte permutations, into a half of 1024 + v, or into a
\* float of 2^23 + v whose upper half is the bfloat16.
DequantInt8(q, f) ==
    LET byte == <<q[1] % 256, q[1] \div 256, q[2] % 256, q[2] \div 256>>
        half(v) == Minus(Value16(25600 + v, 5), Value16(25600 + f.zero, 5))
        wide(v) == Minus(Float(8388608 + v, 0), Float(8388608 + f.zero, 0))
        val(v)  == IF f.to = 5 THEN half(v) ELSE wide(v)
    IN  <<<<val(byte[1]), val(byte[3])>>, <<val(byte[2]), val(byte[4])>>>>

DequantData(q, f) ==
    IF f.exp > 0 THEN DequantFloat(q, f)
    ELSE IF f.bits = 4 THEN DequantInt4(q, f) ELSE DequantInt8(q, f)

\* Fault: MXFP4's registers are taken apart like those of integers.
QuantPartsLikeIntegers(codes, f) ==
    LET q == Packed(codes, f.bits) IN <<q, ShiftRightInt(q, 8)>>

\* b_quant_0 and b_quant_1: the two parts of a register of eight weights, or two
\* registers of four.
QuantParts(codes, f) ==
    LET q == Packed(codes, f.bits)
    IN  IF f.bits = 8 THEN <<q, Packed(SubSeq(codes, 5, 8), 8)>>
        ELSE IF f.exp > 0 THEN <<ShiftLeft(q, 8), q>>
        ELSE <<q, ShiftRightInt(q, 8)>>

-----------------------------------------------------------------------------
(* dequant_fp8_scales<nv_bfloat162, kFE8M0fnu>.                              *)

\* Fault: the shift fills the top with the register's sign.
DequantScalesSigned(q) ==
    <<Masked(ShiftLeft(q, 7), 32640), ShiftRightInt(Masked(q, 65280), 1)>>

\* A byte of exponent at the exponent's place; the constant is unsigned, and so is
\* the shift.
DequantScales(q) ==
    LET out1 == ShiftRight(Masked(q, 65280), 1)             \* 0xFF00
        out2 == Masked(ShiftLeft(q, 7), 32640)              \* 0x7F80
    IN  <<out2, out1>>

\* Fault: the second register is read after the first was converted over it.
ScaleRegistersLate(r) ==
    LET first == DequantScales(r[1])
        second == DequantScales(first[2])
    IN  <<first[1], first[2], second[1], second[2]>>

\* frag_s[k2] before and after: both registers are read, then the four are written.
ScaleRegisters(r) ==
    LET first == DequantScales(r[1])
        second == DequantScales(r[2])
    IN  <<first[1], first[2], second[1], second[2]>>

\* s_quant: the bytes of a register, the first in its lowest bits.
ScaleQuant(bytes, i) == Packed(SubSeq(bytes, 4 * i + 1, 4 * i + 4), 8)

-----------------------------------------------------------------------------

DequantInit ==
    /\ \E f \in Formats : \E c \in WordChoices[f.bits], b \in ScaleWords :
         job = [format |-> f, codes |-> c, bytes |-> b]
    /\ fragment = Unset
    /\ scales = Unset

\* The scales of a sub-tile, then ...
ConvertScales ==
    /\ scales = Unset
    /\ LET value(x) == Value16(x, 8)
           r == ScaleRegisters(<<ScaleQuant(job.bytes, 0), ScaleQuant(job.bytes, 1)>>)
       IN  scales' = [i \in 1 .. 4 |-> Both(value, r[i])]
    /\ UNCHANGED <<job, fragment>>

\* ... a register of its weights.
ConvertWeights ==
    /\ scales # Unset /\ fragment = Unset
    /\ LET q == QuantParts(job.codes, job.format) IN
       fragment' = <<DequantData(q[1], job.format), DequantData(q[2], job.format)>>
    /\ UNCHANGED <<job, scales>>

\* The next sub-tile brings other codes; these again stand for them.
NextSubTile ==
    /\ fragment # Unset
    /\ fragment' = Unset /\ scales' = Unset
    /\ UNCHANGED job

DequantNext == ConvertScales \/ ConvertWeights \/ NextSubTile

-----------------------------------------------------------------------------
(* Properties.                                                               *)

\* The value of a code: an integer less its zero point, or a float of its own format.
CodeValue(c, f) ==
    IF f.exp > 0 THEN Decoded(c, f.bits, f.exp) ELSE Float(c - f.zero, 0)

\* Every weight type comes out of a register in the one order the tensor core's
\* fragments expect, though floats are taken apart from the top and integers from the
\* bottom; every value is its code's, exactly, and a 16-bit float can hold it.  The
\* scales are the powers of two of all eight bytes, and a product of a weight and a
\* scale is not rounded.
WeightsAreExact ==
    LET f == job.format
        \* Four codes apart in one register, or two apart in each of two.
        place == IF f.bits = 4 THEN <<1, 5, 2, 6, 3, 7, 4, 8>> ELSE <<1, 3, 2, 4, 5, 7, 6, 8>>
        flat == [i \in 1 .. 8 |->
                   fragment[(i + 3) \div 4][(((i - 1) % 4) \div 2) + 1][((i - 1) % 2) + 1]]
        order == <<1, 3, 2, 4, 5, 7, 6, 8>>
    IN  /\ scales # Unset =>
             \A i \in 1 .. 8 :
                scales[(i + 1) \div 2][((i - 1) % 2) + 1] = <<1, job.bytes[order[i]] - 127>>
        /\ fragment # Unset =>
             \A i \in 1 .. 8 :
                /\ flat[i] = CodeValue(job.codes[place[i]], f)
                /\ Representable(flat[i], f.to)
                /\ f.exp = 2 /\ f.to = 8 =>
                     \A p \in 1 .. 4 : \A l \in 1 .. 2 :
                        Representable(Times(flat[i], scales[p][l]), 8)
=============================================================================
