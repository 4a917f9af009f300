---------------------------- MODULE SpiWireProofs ----------------------------
(***************************************************************************)
(* SpiWire, for every set of responses and requests, every way in which    *)
(* the FIFO can run dry and, where noise matters, any three inverted bits. *)
(*                                                                         *)
(* Bytes are taken apart into octets of bits, on which Xor is addition and *)
(* eight turns of the CRC's bit loop are one linear map, CrcBits.  So the  *)
(* CRCs of what was sent and of what is read differ by what the inverted   *)
(* bits alone leave in the register.  Three facts make that difference     *)
(* visible after one, two or three of them: the map takes nothing but 0 to *)
(* 0; it keeps the parity; and a bit inverted in an earlier byte never     *)
(* leaves a single bit, which one in this byte would cancel (PowerTable).  *)
(*                                                                         *)
(* The invariant, WireInv, says after every byte what has been read: what  *)
(* was fed and then ones, when no bit was inverted; that difference, when  *)
(* some were; and in the other direction the request with its bytes turned *)
(* around.                                                                 *)
(***************************************************************************)
EXTENDS SpiWire, FiniteSetTheorems, SequenceTheorems, WellFoundedInduction, TLAPS

\* The bits of a byte, bit 7 first.
Octets == [1 .. 8 -> Bit]

\* The bits of a byte are an octet.
LEMMA BitsType ==
  ASSUME NEW byte \in Byte
  PROVE  Bits(byte) \in Octets
<1>1. \A k \in 1 .. 8 : BitWeight[k] \in Nat \ {0}
  BY DEF BitWeight
<1>2. \A w \in Nat \ {0} : (byte \div w) % 2 \in Bit
  BY DEF Byte, Bit
<1> QED
  BY <1>1, <1>2 DEF Bits, Octets

\* The bits of a byte, written out.
LEMMA BitsValue ==
  ASSUME NEW byte \in Byte
  PROVE  /\ Bits(byte)[1] = (byte \div 128) % 2
         /\ Bits(byte)[2] = (byte \div 64) % 2
         /\ Bits(byte)[3] = (byte \div 32) % 2
         /\ Bits(byte)[4] = (byte \div 16) % 2
         /\ Bits(byte)[5] = (byte \div 8) % 2
         /\ Bits(byte)[6] = (byte \div 4) % 2
         /\ Bits(byte)[7] = (byte \div 2) % 2
         /\ Bits(byte)[8] = byte % 2
<1>1. byte \div 1 = byte
  BY DEF Byte
<1> QED
  BY <1>1 DEF Bits, BitWeight

\* An octet is the bits of a byte.
LEMMA ByteOfType ==
  ASSUME NEW bits \in Octets
  PROVE  ByteOf(bits) \in Byte
<1>1. \A k \in 1 .. 8 : bits[k] \in {0, 1}
  BY DEF Octets, Bit
<1> QED
  BY <1>1 DEF ByteOf, Byte

\* A byte is what its bits add up to.
LEMMA ByteOfBits ==
  ASSUME NEW byte \in Byte
  PROVE  ByteOf(Bits(byte)) = byte
<1>1. /\ byte \in 0 .. 255
      /\ (byte \div 128) % 2 = byte \div 128
      /\ byte \div 64 = 2 * (byte \div 128) + ((byte \div 64) % 2)
      /\ byte \div 32 = 2 * (byte \div 64) + ((byte \div 32) % 2)
      /\ byte \div 16 = 2 * (byte \div 32) + ((byte \div 16) % 2)
      /\ byte \div 8 = 2 * (byte \div 16) + ((byte \div 8) % 2)
      /\ byte \div 4 = 2 * (byte \div 8) + ((byte \div 4) % 2)
      /\ byte \div 2 = 2 * (byte \div 4) + ((byte \div 2) % 2)
      /\ byte = 2 * (byte \div 2) + (byte % 2)
  BY DEF Byte
<1> DEFINE q1 == byte \div 128   q2 == byte \div 64   q3 == byte \div 32
           q4 == byte \div 16   q5 == byte \div 8   q6 == byte \div 4   q7 == byte \div 2
           b == Bits(byte)
<1>2. /\ q1 \in Nat /\ q2 \in Nat /\ q3 \in Nat /\ q4 \in Nat
      /\ q5 \in Nat /\ q6 \in Nat /\ q7 \in Nat /\ byte \in Nat
  BY DEF Byte
<1>3. b \in Octets
  BY BitsType
<1>4. /\ b[1] \in Nat /\ b[2] \in Nat /\ b[3] \in Nat /\ b[4] \in Nat
      /\ b[5] \in Nat /\ b[6] \in Nat /\ b[7] \in Nat /\ b[8] \in Nat
  BY <1>3 DEF Octets, Bit
<1>5. /\ q1 = b[1] /\ q2 = 2 * q1 + b[2] /\ q3 = 2 * q2 + b[3] /\ q4 = 2 * q3 + b[4]
      /\ q5 = 2 * q4 + b[5] /\ q6 = 2 * q5 + b[6] /\ q7 = 2 * q6 + b[7]
      /\ byte = 2 * q7 + b[8]
  BY <1>1, BitsValue
<1> HIDE DEF q1, q2, q3, q4, q5, q6, q7, b
<1>6. q2 = 2 * b[1] + b[2]
  BY <1>2, <1>4, <1>5
<1>7. q3 = 4 * b[1] + 2 * b[2] + b[3]
  BY <1>2, <1>4, <1>5, <1>6
<1>8. q4 = 8 * b[1] + 4 * b[2] + 2 * b[3] + b[4]
  BY <1>2, <1>4, <1>5, <1>7
<1>9. q5 = 16 * b[1] + 8 * b[2] + 4 * b[3] + 2 * b[4] + b[5]
  BY <1>2, <1>4, <1>5, <1>8
<1>10. q6 = 32 * b[1] + 16 * b[2] + 8 * b[3] + 4 * b[4] + 2 * b[5] + b[6]
  <2>1. q6 = 2 * q5 + b[6]
    BY <1>5
  <2> QED
    BY <1>4, <1>9, <2>1
<1>11. q7 = 64 * b[1] + 32 * b[2] + 16 * b[3] + 8 * b[4] + 4 * b[5] + 2 * b[6] + b[7]
  <2>1. q7 = 2 * q6 + b[7]
    BY <1>5
  <2> QED
    BY <1>4, <1>10, <2>1
<1>12. byte = 128 * b[1] + 64 * b[2] + 32 * b[3] + 16 * b[4] + 8 * b[5] + 4 * b[6] + 2 * b[7] + b[8]
  <2>1. byte = 2 * q7 + b[8]
    BY <1>5
  <2> QED
    BY <1>4, <1>11, <2>1
<1>13. ByteOf(b) = byte
  BY <1>12 DEF ByteOf
<1> QED
  BY <1>13 DEF b

\* The bit above w, in a number taken apart there.
LEMMA BitAbove ==
  ASSUME NEW w \in {2, 4, 8, 16, 32, 64, 128}, NEW high \in Nat, NEW bit \in {0, 1},
         NEW low \in 0 .. w - 1
  PROVE  ((w * (2 * high + bit) + low) \div w) % 2 = bit
<1> DEFINE q == 2 * high + bit
<1>1. q \in Nat /\ q % 2 = bit
  OBVIOUS
<1> HIDE DEF q
<1>2. (w * q + low) \div w = q
  <2>1. CASE w = 2
    BY <1>1, <2>1
  <2>2. CASE w = 4
    BY <1>1, <2>2
  <2>3. CASE w = 8
    BY <1>1, <2>3
  <2>4. CASE w = 16
    BY <1>1, <2>4
  <2>5. CASE w = 32
    BY <1>1, <2>5
  <2>6. CASE w = 64
    BY <1>1, <2>6
  <2>7. CASE w = 128
    BY <1>1, <2>7
  <2> QED
    BY <2>1, <2>2, <2>3, <2>4, <2>5, <2>6, <2>7
<1> QED
  BY <1>1, <1>2 DEF q

\* The bits of what an octet adds up to are the octet.
LEMMA BitsOfByte ==
  ASSUME NEW bits \in Octets
  PROVE  Bits(ByteOf(bits)) = bits
<1> DEFINE n == ByteOf(bits)
<1>1. n \in Byte
  BY ByteOfType
<1>2. /\ bits[1] \in {0, 1} /\ bits[2] \in {0, 1} /\ bits[3] \in {0, 1} /\ bits[4] \in {0, 1}
      /\ bits[5] \in {0, 1} /\ bits[6] \in {0, 1} /\ bits[7] \in {0, 1} /\ bits[8] \in {0, 1}
  BY DEF Octets, Bit
<1>3. n = 128 * bits[1] + 64 * bits[2] + 32 * bits[3] + 16 * bits[4]
            + 8 * bits[5] + 4 * bits[6] + 2 * bits[7] + bits[8]
  BY DEF ByteOf
<1> HIDE DEF n
<1>4. (n \div 128) % 2 = bits[1]
  <2> DEFINE high == 0
             low  == 64 * bits[2] + 32 * bits[3] + 16 * bits[4] + 8 * bits[5]
                       + 4 * bits[6] + 2 * bits[7] + bits[8]
  <2>1. high \in Nat /\ low \in 0 .. 128 - 1 /\ bits[1] \in {0, 1}
    BY <1>2
  <2>2. n = 128 * (2 * high + bits[1]) + low
    BY <1>2, <1>3
  <2> HIDE DEF high, low
  <2> QED
    BY <2>1, <2>2, BitAbove
<1>5. (n \div 64) % 2 = bits[2]
  <2> DEFINE high == bits[1]
             low  == 32 * bits[3] + 16 * bits[4] + 8 * bits[5] + 4 * bits[6] + 2 * bits[7] + bits[8]
  <2>1. high \in Nat /\ low \in 0 .. 64 - 1 /\ bits[2] \in {0, 1}
    BY <1>2
  <2>2. n = 64 * (2 * high + bits[2]) + low
    BY <1>2, <1>3
  <2> HIDE DEF high, low
  <2> QED
    BY <2>1, <2>2, BitAbove
<1>6. (n \div 32) % 2 = bits[3]
  <2> DEFINE high == 2 * bits[1] + bits[2]
             low  == 16 * bits[4] + 8 * bits[5] + 4 * bits[6] + 2 * bits[7] + bits[8]
  <2>1. high \in Nat /\ low \in 0 .. 32 - 1 /\ bits[3] \in {0, 1}
    BY <1>2
  <2>2. n = 32 * (2 * high + bits[3]) + low
    BY <1>2, <1>3
  <2> HIDE DEF high, low
  <2> QED
    BY <2>1, <2>2, BitAbove
<1>7. (n \div 16) % 2 = bits[4]
  <2> DEFINE high == 4 * bits[1] + 2 * bits[2] + bits[3]
             low  == 8 * bits[5] + 4 * bits[6] + 2 * bits[7] + bits[8]
  <2>1. high \in Nat /\ low \in 0 .. 16 - 1 /\ bits[4] \in {0, 1}
    <3>1. high \in Nat
      BY <1>2
    <3>2. low \in 0 .. 16 - 1
      BY <1>2
    <3> QED
      BY <1>2, <3>1, <3>2
  <2>2. n = 16 * (2 * high + bits[4]) + low
    BY <1>2, <1>3
  <2> HIDE DEF high, low
  <2> QED
    BY <2>1, <2>2, BitAbove
<1>8. (n \div 8) % 2 = bits[5]
  <2> DEFINE high == 8 * bits[1] + 4 * bits[2] + 2 * bits[3] + bits[4]
             low  == 4 * bits[6] + 2 * bits[7] + bits[8]
  <2>1. high \in Nat /\ low \in 0 .. 8 - 1 /\ bits[5] \in {0, 1}
    BY <1>2
  <2>2. n = 8 * (2 * high + bits[5]) + low
    BY <1>2, <1>3
  <2> HIDE DEF high, low
  <2> QED
    BY <2>1, <2>2, BitAbove
<1>9. (n \div 4) % 2 = bits[6]
  <2> DEFINE high == 16 * bits[1] + 8 * bits[2] + 4 * bits[3] + 2 * bits[4] + bits[5]
             low  == 2 * bits[7] + bits[8]
  <2>1. high \in Nat /\ low \in 0 .. 4 - 1 /\ bits[6] \in {0, 1}
    BY <1>2
  <2>2. n = 4 * (2 * high + bits[6]) + low
    BY <1>2, <1>3
  <2> HIDE DEF high, low
  <2> QED
    BY <2>1, <2>2, BitAbove
<1>10. (n \div 2) % 2 = bits[7]
  <2> DEFINE high == 32 * bits[1] + 16 * bits[2] + 8 * bits[3] + 4 * bits[4] + 2 * bits[5] + bits[6]
             low  == bits[8]
  <2>1. high \in Nat /\ low \in 0 .. 2 - 1 /\ bits[7] \in {0, 1}
    BY <1>2
  <2>2. n = 2 * (2 * high + bits[7]) + low
    BY <1>2, <1>3
  <2> HIDE DEF high, low
  <2> QED
    BY <2>1, <2>2, BitAbove
<1>11. n % 2 = bits[8]
  BY <1>2, <1>3
<1>12. \A k \in 1 .. 8 : Bits(n)[k] = bits[k]
  BY <1>1, <1>4, <1>5, <1>6, <1>7, <1>8, <1>9, <1>10, <1>11, BitsValue
<1>13. Bits(n) \in Octets
  BY <1>1, BitsType
<1> QED
  BY <1>12, <1>13 DEF Octets, n
-----------------------------------------------------------------------------
(* Sums of bits *)

\* Addition of bits and of octets.
Plus(p, q) == IF p = q THEN 0 ELSE 1

Sum(u, v) == [k \in 1 .. 8 |-> Plus(u[k], v[k])]

\* No bit set.
NoBits == <<0, 0, 0, 0, 0, 0, 0, 0>>

\* A sequence of eight bits is an octet.
LEMMA OctetOf ==
  ASSUME NEW p1 \in Bit, NEW p2 \in Bit, NEW p3 \in Bit, NEW p4 \in Bit,
         NEW p5 \in Bit, NEW p6 \in Bit, NEW p7 \in Bit, NEW p8 \in Bit
  PROVE  <<p1, p2, p3, p4, p5, p6, p7, p8>> \in Octets
BY DEF Octets

\* Octets with the same bits are equal.
LEMMA SameOctet ==
  ASSUME NEW u \in Octets, NEW v \in Octets,
         u[1] = v[1], u[2] = v[2], u[3] = v[3], u[4] = v[4],
         u[5] = v[5], u[6] = v[6], u[7] = v[7], u[8] = v[8]
  PROVE  u = v
<1>1. \A k \in 1 .. 8 : u[k] = v[k]
  OBVIOUS
<1> QED
  BY <1>1 DEF Octets

\* The bits of an octet, written out.
LEMMA OctetBits ==
  ASSUME NEW u \in Octets
  PROVE  /\ u[1] \in Bit /\ u[2] \in Bit /\ u[3] \in Bit /\ u[4] \in Bit
         /\ u[5] \in Bit /\ u[6] \in Bit /\ u[7] \in Bit /\ u[8] \in Bit
BY DEF Octets

\* The sum of octets is an octet.
LEMMA SumType ==
  ASSUME NEW u \in Octets, NEW v \in Octets
  PROVE  Sum(u, v) \in Octets
BY DEF Sum, Plus, Octets, Bit

\* Xor adds the bits of two bytes.
LEMMA XorBits ==
  ASSUME NEW a \in Byte, NEW b \in Byte
  PROVE  /\ Xor(a, b) \in Byte
         /\ Bits(Xor(a, b)) = Sum(Bits(a), Bits(b))
<1>1. Xor(a, b) = ByteOf(Sum(Bits(a), Bits(b)))
  BY DEF Xor, Sum, Plus
<1>2. Sum(Bits(a), Bits(b)) \in Octets
  BY BitsType, SumType
<1> QED
  BY <1>1, <1>2, ByteOfType, BitsOfByte

-----------------------------------------------------------------------------
(* One turn of the bit loop, and eight *)

\* One turn on bits.
Shift(u) ==
  <<u[2], u[3], u[4], u[5], u[6], Plus(u[7], u[1]), Plus(u[8], u[1]), u[1]>>

\* The bits after one turn, written out.
LEMMA ShiftedBits ==
  ASSUME NEW u
  PROVE  /\ Shift(u)[1] = u[2] /\ Shift(u)[2] = u[3] /\ Shift(u)[3] = u[4]
         /\ Shift(u)[4] = u[5] /\ Shift(u)[5] = u[6]
         /\ Shift(u)[6] = Plus(u[7], u[1])
         /\ Shift(u)[7] = Plus(u[8], u[1])
         /\ Shift(u)[8] = u[1]
<1>1. Shift(u)[1] = u[2] /\ Shift(u)[2] = u[3] /\ Shift(u)[3] = u[4]
  BY DEF Shift
<1>2. Shift(u)[4] = u[5] /\ Shift(u)[5] = u[6]
  BY DEF Shift
<1>3. Shift(u)[6] = Plus(u[7], u[1])
  BY DEF Shift
<1>4. Shift(u)[7] = Plus(u[8], u[1])
  BY DEF Shift
<1>5. Shift(u)[8] = u[1]
  BY DEF Shift
<1> QED
  BY <1>1, <1>2, <1>3, <1>4, <1>5

\* A turn takes an octet to an octet.
LEMMA ShiftType ==
  ASSUME NEW u \in Octets
  PROVE  Shift(u) \in Octets
<1>1. \A p, q : Plus(p, q) \in Bit
  BY DEF Plus, Bit
<1> QED
  BY <1>1, OctetBits, OctetOf DEF Shift

\* Doubling a byte moves its bits by one.
LEMMA DoubleBits ==
  ASSUME NEW crc \in Byte
  PROVE  LET b == Bits(crc)
         IN  /\ (2 * crc) % 256 = ByteOf(<<b[2], b[3], b[4], b[5], b[6], b[7], b[8], 0>>)
             /\ <<b[2], b[3], b[4], b[5], b[6], b[7], b[8], 0>> \in Octets
             /\ crc >= 128 <=> b[1] = 1
             /\ crc < 128 => (2 * crc) % 256 = 2 * crc
<1> DEFINE b == Bits(crc)
           n == ByteOf(<<b[2], b[3], b[4], b[5], b[6], b[7], b[8], 0>>)
<1>1. b \in Octets /\ crc = ByteOf(b)
  BY BitsType, ByteOfBits
<1> HIDE DEF b
<1>2. /\ b[1] \in Bit /\ b[2] \in Bit /\ b[3] \in Bit /\ b[4] \in Bit
      /\ b[5] \in Bit /\ b[6] \in Bit /\ b[7] \in Bit /\ b[8] \in Bit
  BY <1>1, OctetBits
<1>3. <<b[2], b[3], b[4], b[5], b[6], b[7], b[8], 0>> \in Octets
  <2>1. 0 \in Bit
    BY DEF Bit
  <2> QED
    BY <1>2, <2>1, OctetOf
<1>4. n \in 0 .. 255
  BY <1>3, ByteOfType DEF Byte
<1>5. n = 128 * b[2] + 64 * b[3] + 32 * b[4] + 16 * b[5] + 8 * b[6] + 4 * b[7] + 2 * b[8]
  BY <1>2 DEF ByteOf, Bit
<1>6. crc = 128 * b[1] + 64 * b[2] + 32 * b[3] + 16 * b[4] + 8 * b[5] + 4 * b[6] + 2 * b[7] + b[8]
  BY <1>1 DEF ByteOf
<1> HIDE DEF n
<1>7. 2 * crc = 256 * b[1] + n
  <2> DEFINE rest == 64 * b[2] + 32 * b[3] + 16 * b[4] + 8 * b[5] + 4 * b[6] + 2 * b[7] + b[8]
  <2>1. rest \in Nat /\ b[1] \in Nat
    BY <1>2 DEF Bit
  <2>2. n = 2 * rest
    BY <1>2, <1>5 DEF Bit
  <2>3. crc = 128 * b[1] + rest
    BY <1>2, <1>6 DEF Bit
  <2> HIDE DEF rest
  <2> QED
    BY <2>1, <2>2, <2>3
<1>8. (2 * crc) % 256 = n
  BY <1>2, <1>4, <1>7 DEF Bit
<1>9. crc \in 0 .. 255
  BY DEF Byte
<1>10. (crc >= 128 <=> b[1] = 1) /\ (crc < 128 => (2 * crc) % 256 = 2 * crc)
  <2>1. CASE b[1] = 0
    BY <1>4, <1>7, <1>8, <1>9, <2>1
  <2>2. CASE b[1] = 1
    BY <1>4, <1>7, <1>8, <1>9, <2>2
  <2> QED
    BY <1>2, <2>1, <2>2 DEF Bit
<1> QED
  BY <1>3, <1>8, <1>10 DEF b, n

\* The polynomial 0x07.
LEMMA BitsOfSeven == Bits(7) = <<0, 0, 0, 0, 0, 1, 1, 1>>
<1> DEFINE seven == <<0, 0, 0, 0, 0, 1, 1, 1>>
<1>1. seven \in Octets
  BY OctetOf DEF Bit
<1>2. ByteOf(seven) = 7
  BY DEF ByteOf
<1> QED
  BY <1>1, <1>2, BitsOfByte

\* CrcShift is a turn on the bits: the polynomial is added where a one falls out.
LEMMA CrcShiftBits ==
  ASSUME NEW crc \in Byte
  PROVE  /\ CrcShift(crc) \in Byte
         /\ Bits(CrcShift(crc)) = Shift(Bits(crc))
<1> DEFINE b == Bits(crc)
           d == <<b[2], b[3], b[4], b[5], b[6], b[7], b[8], 0>>
           seven == <<0, 0, 0, 0, 0, 1, 1, 1>>
<1>1. /\ (2 * crc) % 256 = ByteOf(d)
      /\ d \in Octets
      /\ crc >= 128 <=> b[1] = 1
      /\ crc < 128 => (2 * crc) % 256 = 2 * crc
  BY DoubleBits
<1>2. b \in Octets /\ seven \in Octets /\ crc \in 0 .. 255
  BY BitsType, OctetOf DEF Bit, Byte
<1>3. ByteOf(d) \in Byte /\ Bits(ByteOf(d)) = d
  BY <1>1, ByteOfType, BitsOfByte
<1>4. Shift(b) \in Octets
  BY <1>2, ShiftType
<1>5. CASE crc >= 128
  <2>1. CrcShift(crc) = Xor(ByteOf(d), 7)
    BY <1>1, <1>5 DEF CrcShift
  <2>2. 7 \in Byte
    BY DEF Byte
  <2>3. CrcShift(crc) \in Byte /\ Bits(CrcShift(crc)) = Sum(d, seven)
    BY <1>3, <2>1, <2>2, XorBits, BitsOfSeven
  <2>4. Sum(d, seven) \in Octets
    BY <1>1, <1>2, SumType
  <2>5. b[1] = 1
    BY <1>1, <1>5
  <2>6. /\ b[2] \in {0, 1} /\ b[3] \in {0, 1} /\ b[4] \in {0, 1} /\ b[5] \in {0, 1}
        /\ b[6] \in {0, 1} /\ b[7] \in {0, 1} /\ b[8] \in {0, 1}
    BY <1>2, OctetBits DEF Bit
  <2> HIDE DEF b
  <2>7. Sum(d, seven) = Shift(b)
    BY <1>4, <2>4, <2>5, <2>6, SameOctet DEF Sum, Plus, Shift
  <2> QED
    BY <2>3, <2>7 DEF b
<1>6. CASE crc < 128
  <2>1. CrcShift(crc) = ByteOf(d)
    BY <1>1, <1>2, <1>6 DEF CrcShift
  <2>2. b[1] = 0
    BY <1>1, <1>2, <1>6, OctetBits DEF Bit
  <2>3. b[7] \in {0, 1} /\ b[8] \in {0, 1}
    BY <1>2, OctetBits DEF Bit
  <2> HIDE DEF b
  <2>4. Shift(b) = d
    BY <1>1, <1>4, <2>2, <2>3, SameOctet DEF Shift, Plus
  <2> QED
    BY <1>3, <2>1, <2>4 DEF b
<1> QED
  BY <1>2, <1>5, <1>6
-----------------------------------------------------------------------------
(* Recursion over an interval *)

\* A nonempty set of numbers has a least one.
LEMMA LeastElement ==
  ASSUME NEW S \in SUBSET Nat, S # {}
  PROVE  \E least \in S : \A n \in S : least <= n
<1> DEFINE Less == {pair \in Nat \X Nat : pair[1] < pair[2]}
<1>1. IsWellFoundedOn(Less, Nat)
  BY NatLessThanWellFounded DEF OpToRel
<1> HIDE DEF Less
<1>2. PICK least \in S : \A n \in S : <<n, least>> \notin Less
  BY <1>1, WFMin
<1>3. \A n \in S : ~(n < least)
  BY <1>2 DEF Less
<1> QED
  BY <1>3

\* Induction on a set of numbers in the place of a predicate.
LEMMA SetInduction ==
  ASSUME NEW S \in SUBSET Nat, 0 \in S, \A n \in S : n + 1 \in S
  PROVE  S = Nat
<1> SUFFICES ASSUME Nat \ S # {}
             PROVE  FALSE
  OBVIOUS
<1>1. Nat \ S \in SUBSET Nat
  OBVIOUS
<1>2. PICK least \in Nat \ S : \A n \in Nat \ S : least <= n
  BY <1>1, LeastElement
<1>3. least - 1 \in Nat /\ least - 1 \notin Nat \ S
  BY <1>2
<1> QED
  BY <1>2, <1>3

\* The states a loop goes through.
Runs(S, start, step, length) ==
  {run \in [0 .. length -> S] :
     /\ run[0] = start
     /\ \A n \in 1 .. length : run[n] = step[n][run[n - 1]]}

\* A loop of any number of turns has them.
LEMMA RunExists ==
  ASSUME NEW S, NEW start \in S, NEW length \in Nat,
         NEW step \in [1 .. length -> [S -> S]]
  PROVE  Runs(S, start, step, length) # {}
<1> DEFINE P == {k \in Nat : k <= length => Runs(S, start, step, k) # {}}
<1>1. 0 \in P
  <2>1. [n \in 0 .. 0 |-> start] \in Runs(S, start, step, 0)
    BY DEF Runs
  <2> QED
    BY <2>1
<1>2. ASSUME NEW k \in P
      PROVE  k + 1 \in P
  <2> SUFFICES ASSUME k + 1 <= length
               PROVE  Runs(S, start, step, k + 1) # {}
    OBVIOUS
  <2>1. PICK run : run \in Runs(S, start, step, k)
    OBVIOUS
  <2>2. /\ run \in [0 .. k -> S]
        /\ run[0] = start
        /\ \A n \in 1 .. k : run[n] = step[n][run[n - 1]]
    BY <2>1 DEF Runs
  <2>3. k \in 0 .. k /\ k + 1 \in 1 .. length /\ k \in Nat
    OBVIOUS
  <2>4. step[k + 1][run[k]] \in S
    BY <2>2, <2>3
  <2> DEFINE next == [n \in 0 .. k + 1 |-> IF n = k + 1 THEN step[k + 1][run[k]] ELSE run[n]]
  <2>5. \A n \in 0 .. k : next[n] = run[n]
    BY <2>3
  <2>6. next[k + 1] = step[k + 1][run[k]]
    BY <2>3
  <2>7. next \in [0 .. k + 1 -> S]
    BY <2>2, <2>4
  <2> HIDE DEF next
  <2>8. ASSUME NEW n \in 1 .. k + 1
        PROVE  next[n] = step[n][next[n - 1]]
    <3>1. CASE n = k + 1
      <4>1. n - 1 = k /\ next[k] = run[k]
        BY <2>3, <2>5, <3>1
      <4> QED
        BY <2>6, <3>1, <4>1
    <3>2. CASE n # k + 1
      <4>1. n \in 1 .. k /\ n \in 0 .. k /\ n - 1 \in 0 .. k
        BY <2>3, <3>2
      <4> QED
        BY <2>2, <2>5, <4>1
    <3> QED
      BY <3>1, <3>2
  <2>9. next[0] = start
    BY <2>2, <2>3, <2>5
  <2>10. next \in Runs(S, start, step, k + 1)
    BY <2>7, <2>8, <2>9 DEF Runs
  <2> QED
    BY <2>10
<1> HIDE DEF P
<1>3. P = Nat
  <2>1. P \in SUBSET Nat
    BY DEF P
  <2> QED
    BY <1>1, <1>2, <2>1, SetInduction
<1> QED
  BY <1>3 DEF P

\* Loops that start alike and stay alike end alike.
LEMMA RunsAgree ==
  ASSUME NEW one, NEW other, NEW length \in Nat, one[0] = other[0],
         \A n \in 1 .. length : one[n - 1] = other[n - 1] => one[n] = other[n]
  PROVE  \A n \in 0 .. length : one[n] = other[n]
<1> DEFINE P == {n \in Nat : n <= length => one[n] = other[n]}
<1>1. 0 \in P
  OBVIOUS
<1>2. ASSUME NEW n \in P
      PROVE  n + 1 \in P
  <2> SUFFICES ASSUME n + 1 <= length
               PROVE  one[n + 1] = other[n + 1]
    OBVIOUS
  <2>1. n + 1 \in 1 .. length /\ (n + 1) - 1 = n /\ one[n] = other[n]
    OBVIOUS
  <2> QED
    BY <2>1
<1> HIDE DEF P
<1>3. P = Nat
  <2>1. P \in SUBSET Nat
    BY DEF P
  <2> QED
    BY <1>1, <1>2, <2>1, SetInduction
<1> QED
  BY <1>3 DEF P

-----------------------------------------------------------------------------
(* The CRC of one byte *)

\* What the function in CrcOfByte is defined by.
BitLoopOf(crc, byte) ==
  crc = [bit \in 0 .. 8 |-> IF bit = 0 THEN byte ELSE CrcShift(crc[bit - 1])]

\* The function in CrcOfByte exists, so that CrcOfByte is its eighth value.
LEMMA CrcOfByteRuns ==
  ASSUME NEW byte \in Byte
  PROVE  \E crc : BitLoopOf(crc, byte) /\ CrcOfByte[byte] = crc[8]
<1> DEFINE step == [n \in 1 .. 8 |-> [crc \in Byte |-> CrcShift(crc)]]
<1>1. step \in [1 .. 8 -> [Byte -> Byte]]
  BY CrcShiftBits
<1>2. PICK run : run \in Runs(Byte, byte, step, 8)
  <2> HIDE DEF step
  <2>1. 8 \in Nat
    OBVIOUS
  <2>2. Runs(Byte, byte, step, 8) # {}
    BY <1>1, <2>1, RunExists
  <2> QED
    BY <2>2
<1>3. /\ run \in [0 .. 8 -> Byte] /\ run[0] = byte
      /\ \A n \in 1 .. 8 : run[n] = step[n][run[n - 1]]
  BY <1>2 DEF Runs
<1>4. \A n \in 1 .. 8 : run[n] = CrcShift(run[n - 1])
  BY <1>3
<1>5. BitLoopOf(run, byte)
  <2>1. \A n \in 0 .. 8 : run[n] = IF n = 0 THEN byte ELSE CrcShift(run[n - 1])
    BY <1>3, <1>4
  <2> QED
    BY <1>3, <2>1 DEF BitLoopOf
<1> DEFINE crc == CHOOSE crc : BitLoopOf(crc, byte)
<1>6. BitLoopOf(crc, byte)
  BY <1>5
<1>7. CrcOfByte[byte] = crc[8]
  BY DEF CrcOfByte, BitLoopOf
<1> HIDE DEF crc
<1> QED
  BY <1>6, <1>7

\* Eight turns on bits.
CrcBits(u) ==
  <<Plus(Plus(u[1], u[2]), u[3]),
    Plus(Plus(u[2], u[3]), u[4]),
    Plus(Plus(u[3], u[4]), u[5]),
    Plus(Plus(u[4], u[5]), u[6]),
    Plus(Plus(u[1], u[5]), Plus(u[6], u[7])),
    Plus(Plus(u[2], u[6]), Plus(u[7], u[8])),
    Plus(Plus(u[2], u[7]), u[8]),
    Plus(Plus(u[1], u[2]), u[8])>>

\* Eight turns, bit by bit.
LEMMA EightShifts ==
  ASSUME NEW u \in Octets
  PROVE  Shift(Shift(Shift(Shift(Shift(Shift(Shift(Shift(u)))))))) = CrcBits(u)
<1>1. /\ u[1] \in {0, 1} /\ u[2] \in {0, 1} /\ u[3] \in {0, 1} /\ u[4] \in {0, 1}
      /\ u[5] \in {0, 1} /\ u[6] \in {0, 1} /\ u[7] \in {0, 1} /\ u[8] \in {0, 1}
  BY OctetBits DEF Bit
<1> DEFINE s1 == <<u[2], u[3], u[4], u[5], u[6], Plus(u[1], u[7]), Plus(u[1], u[8]), u[1]>>
           s2 == <<u[3], u[4], u[5], u[6], Plus(u[1], u[7]), Plus(Plus(u[1], u[2]), u[8]),
                   Plus(u[1], u[2]), u[2]>>
           s3 == <<u[4], u[5], u[6], Plus(u[1], u[7]), Plus(Plus(u[1], u[2]), u[8]),
                   Plus(Plus(u[1], u[2]), u[3]), Plus(u[2], u[3]), u[3]>>
           s4 == <<u[5], u[6], Plus(u[1], u[7]), Plus(Plus(u[1], u[2]), u[8]),
                   Plus(Plus(u[1], u[2]), u[3]), Plus(Plus(u[2], u[3]), u[4]), Plus(u[3], u[4]),
                   u[4]>>
           s5 == <<u[6], Plus(u[1], u[7]), Plus(Plus(u[1], u[2]), u[8]),
                   Plus(Plus(u[1], u[2]), u[3]), Plus(Plus(u[2], u[3]), u[4]),
                   Plus(Plus(u[3], u[4]), u[5]), Plus(u[4], u[5]), u[5]>>
           s6 == <<Plus(u[1], u[7]), Plus(Plus(u[1], u[2]), u[8]), Plus(Plus(u[1], u[2]), u[3]),
                   Plus(Plus(u[2], u[3]), u[4]), Plus(Plus(u[3], u[4]), u[5]),
                   Plus(Plus(u[4], u[5]), u[6]), Plus(u[5], u[6]), u[6]>>
           s7 == <<Plus(Plus(u[1], u[2]), u[8]), Plus(Plus(u[1], u[2]), u[3]),
                   Plus(Plus(u[2], u[3]), u[4]), Plus(Plus(u[3], u[4]), u[5]),
                   Plus(Plus(u[4], u[5]), u[6]), Plus(Plus(u[1], u[5]), Plus(u[6], u[7])),
                   Plus(Plus(u[1], u[6]), u[7]), Plus(u[1], u[7])>>
<1>2. Shift(u) = s1
  <2>1. Plus(u[7], u[1]) = Plus(u[1], u[7])
    BY <1>1 DEF Plus
  <2>2. Plus(u[8], u[1]) = Plus(u[1], u[8])
    BY <1>1 DEF Plus
  <2> QED
    BY <2>1, <2>2 DEF Shift
<1>3. Shift(s1) = s2
  <2>1. Plus(Plus(u[1], u[8]), u[2]) = Plus(Plus(u[1], u[2]), u[8])
    BY <1>1 DEF Plus
  <2>2. Plus(u[1], u[2]) = Plus(u[1], u[2])
    BY <1>1 DEF Plus
  <2> QED
    BY <2>1, <2>2 DEF Shift
<1>4. Shift(s2) = s3
  <2>1. Plus(Plus(u[1], u[2]), u[3]) = Plus(Plus(u[1], u[2]), u[3])
    BY <1>1 DEF Plus
  <2>2. Plus(u[2], u[3]) = Plus(u[2], u[3])
    BY <1>1 DEF Plus
  <2> QED
    BY <2>1, <2>2 DEF Shift
<1>5. Shift(s3) = s4
  <2>1. Plus(Plus(u[2], u[3]), u[4]) = Plus(Plus(u[2], u[3]), u[4])
    BY <1>1 DEF Plus
  <2>2. Plus(u[3], u[4]) = Plus(u[3], u[4])
    BY <1>1 DEF Plus
  <2> QED
    BY <2>1, <2>2 DEF Shift
<1>6. Shift(s4) = s5
  <2>1. Plus(Plus(u[3], u[4]), u[5]) = Plus(Plus(u[3], u[4]), u[5])
    BY <1>1 DEF Plus
  <2>2. Plus(u[4], u[5]) = Plus(u[4], u[5])
    BY <1>1 DEF Plus
  <2> QED
    BY <2>1, <2>2 DEF Shift
<1>7. Shift(s5) = s6
  <2>1. Plus(Plus(u[4], u[5]), u[6]) = Plus(Plus(u[4], u[5]), u[6])
    BY <1>1 DEF Plus
  <2>2. Plus(u[5], u[6]) = Plus(u[5], u[6])
    BY <1>1 DEF Plus
  <2> QED
    BY <2>1, <2>2 DEF Shift
<1>8. Shift(s6) = s7
  <2>1. Plus(Plus(u[5], u[6]), Plus(u[1], u[7])) = Plus(Plus(u[1], u[5]), Plus(u[6], u[7]))
    BY <1>1 DEF Plus
  <2>2. Plus(u[6], Plus(u[1], u[7])) = Plus(Plus(u[1], u[6]), u[7])
    BY <1>1 DEF Plus
  <2> QED
    BY <2>1, <2>2 DEF Shift
<1>9. Shift(s7) = CrcBits(u)
  <2>1. Plus(Plus(Plus(u[1], u[6]), u[7]), Plus(Plus(u[1], u[2]), u[8])) = Plus(Plus(u[2], u[6]), Plus(u[7], u[8]))
    BY <1>1 DEF Plus
  <2>2. Plus(Plus(u[1], u[7]), Plus(Plus(u[1], u[2]), u[8])) = Plus(Plus(u[2], u[7]), u[8])
    BY <1>1 DEF Plus
  <2> QED
    BY <2>1, <2>2 DEF Shift, CrcBits
<1> HIDE DEF s1, s2, s3, s4, s5, s6, s7
<1> QED
  BY <1>2, <1>3, <1>4, <1>5, <1>6, <1>7, <1>8, <1>9

\* CrcOfByte on the bits of its argument.
LEMMA CrcOfByteBits ==
  ASSUME NEW byte \in Byte
  PROVE  /\ CrcOfByte[byte] \in Byte
         /\ Bits(CrcOfByte[byte]) = CrcBits(Bits(byte))
<1>1. PICK crc : BitLoopOf(crc, byte) /\ CrcOfByte[byte] = crc[8]
  BY CrcOfByteRuns
<1>2. /\ crc[0] = byte
      /\ crc[1] = CrcShift(crc[0]) /\ crc[2] = CrcShift(crc[1])
      /\ crc[3] = CrcShift(crc[2]) /\ crc[4] = CrcShift(crc[3])
      /\ crc[5] = CrcShift(crc[4]) /\ crc[6] = CrcShift(crc[5])
      /\ crc[7] = CrcShift(crc[6]) /\ crc[8] = CrcShift(crc[7])
  BY <1>1 DEF BitLoopOf
<1>3. /\ crc[0] \in Byte /\ crc[1] \in Byte /\ crc[2] \in Byte /\ crc[3] \in Byte
      /\ crc[4] \in Byte /\ crc[5] \in Byte /\ crc[6] \in Byte /\ crc[7] \in Byte
      /\ crc[8] \in Byte
  BY <1>2, CrcShiftBits
<1>4. /\ Bits(crc[1]) = Shift(Bits(crc[0])) /\ Bits(crc[2]) = Shift(Bits(crc[1]))
      /\ Bits(crc[3]) = Shift(Bits(crc[2])) /\ Bits(crc[4]) = Shift(Bits(crc[3]))
      /\ Bits(crc[5]) = Shift(Bits(crc[4])) /\ Bits(crc[6]) = Shift(Bits(crc[5]))
      /\ Bits(crc[7]) = Shift(Bits(crc[6])) /\ Bits(crc[8]) = Shift(Bits(crc[7]))
  BY <1>2, <1>3, CrcShiftBits
<1>5. Bits(byte) \in Octets
  BY BitsType
<1>6. CrcBits(Bits(byte)) = Bits(crc[8])
  BY <1>2, <1>4, <1>5, EightShifts
<1> QED
  BY <1>1, <1>3, <1>6

-----------------------------------------------------------------------------
(* The CRC of a sequence of bytes *)

\* What the function in Crc8 is defined by.
ByteLoopOf(crc, bytes) ==
  crc = [n \in 0 .. Len(bytes) |->
           IF n = 0 THEN 0 ELSE CrcOfByte[Xor(crc[n - 1], bytes[n])]]

\* The function in Crc8 exists, so that Crc8 is its last value.
LEMMA Crc8Runs ==
  ASSUME NEW bytes \in Seq(Byte)
  PROVE  \E crc : /\ ByteLoopOf(crc, bytes)
                  /\ crc \in [0 .. Len(bytes) -> Byte]
                  /\ Crc8(bytes) = crc[Len(bytes)]
<1> DEFINE length == Len(bytes)
           step == [n \in 1 .. length |-> [crc \in Byte |-> CrcOfByte[Xor(crc, bytes[n])]]]
<1>1. length \in Nat /\ \A n \in 1 .. length : bytes[n] \in Byte
  OBVIOUS
<1>2. 0 \in Byte
  BY DEF Byte
<1>3. step \in [1 .. length -> [Byte -> Byte]]
  BY <1>1, XorBits, CrcOfByteBits
<1>4. PICK run : run \in Runs(Byte, 0, step, length)
  <2> HIDE DEF step, length
  <2> QED
    BY <1>1, <1>2, <1>3, RunExists
<1> HIDE DEF length
<1>5. /\ run \in [0 .. length -> Byte] /\ run[0] = 0
      /\ \A n \in 1 .. length : run[n] = step[n][run[n - 1]]
  BY <1>4 DEF Runs
<1>6. \A n \in 1 .. length : run[n] = CrcOfByte[Xor(run[n - 1], bytes[n])]
  <2> SUFFICES ASSUME NEW n \in 1 .. length
               PROVE  run[n] = CrcOfByte[Xor(run[n - 1], bytes[n])]
    OBVIOUS
  <2>1. run[n - 1] \in Byte
    BY <1>1, <1>5
  <2> QED
    BY <1>5, <2>1
<1>7. ByteLoopOf(run, bytes)
  <2>1. \A n \in 0 .. length :
          run[n] = IF n = 0 THEN 0 ELSE CrcOfByte[Xor(run[n - 1], bytes[n])]
    BY <1>1, <1>5, <1>6
  <2> QED
    BY <1>5, <2>1 DEF ByteLoopOf, length
<1> DEFINE crc == CHOOSE crc : ByteLoopOf(crc, bytes)
<1>8. ByteLoopOf(crc, bytes)
  BY <1>7
<1>9. Crc8(bytes) = crc[length]
  BY DEF Crc8, ByteLoopOf, length
<1> HIDE DEF crc
<1>10. crc[0] = run[0] /\ \A n \in 1 .. length : crc[n - 1] = run[n - 1] => crc[n] = run[n]
  BY <1>1, <1>5, <1>6, <1>8 DEF ByteLoopOf, length
<1>11. \A n \in 0 .. length : crc[n] = run[n]
  BY <1>1, <1>10, RunsAgree
<1>12. crc \in [0 .. length -> Byte]
  <2>1. DOMAIN crc = 0 .. length /\ crc = [n \in 0 .. length |-> crc[n]]
    BY <1>8 DEF ByteLoopOf, length
  <2> QED
    BY <1>5, <1>11, <2>1
<1> QED
  BY <1>8, <1>9, <1>12 DEF length
\* The CRC of nothing (Protocol::crc8 starts at 0).
LEMMA Crc8Empty == Crc8(<<>>) = 0
<1>1. <<>> \in Seq(Byte) /\ Len(<<>>) = 0
  OBVIOUS
<1>2. PICK crc : ByteLoopOf(crc, <<>>) /\ Crc8(<<>>) = crc[Len(<<>>)]
  BY <1>1, Crc8Runs
<1>3. crc[0] = 0
  BY <1>1, <1>2 DEF ByteLoopOf
<1> QED
  BY <1>1, <1>2, <1>3

\* One more byte is one more turn of the byte loop.
LEMMA Crc8Append ==
  ASSUME NEW bytes \in Seq(Byte), NEW byte \in Byte
  PROVE  /\ Crc8(bytes) \in Byte
         /\ Crc8(Append(bytes, byte)) = CrcOfByte[Xor(Crc8(bytes), byte)]
<1> DEFINE more == Append(bytes, byte)
           length == Len(bytes)
<1>1. /\ more \in Seq(Byte)
      /\ length \in Nat
      /\ Len(more) = length + 1
      /\ more[length + 1] = byte
      /\ \A n \in 1 .. length : more[n] = bytes[n]
  OBVIOUS
<1>2. PICK crc : /\ ByteLoopOf(crc, bytes)
                 /\ crc \in [0 .. length -> Byte]
                 /\ Crc8(bytes) = crc[length]
  BY Crc8Runs
<1>3. PICK next : /\ ByteLoopOf(next, more)
                  /\ Crc8(more) = next[Len(more)]
  BY <1>1, Crc8Runs
<1>4. /\ crc[0] = 0
      /\ \A n \in 1 .. length : crc[n] = CrcOfByte[Xor(crc[n - 1], bytes[n])]
  <2>1. crc = [n \in 0 .. length |->
                 IF n = 0 THEN 0 ELSE CrcOfByte[Xor(crc[n - 1], bytes[n])]]
    BY <1>2 DEF ByteLoopOf
  <2>2. length \in Nat
    OBVIOUS
  <2> HIDE DEF length, more
  <2>3. crc[0] = 0
    BY <2>1, <2>2
  <2>4. \A n \in 1 .. length : n \in 0 .. length /\ n # 0
    BY <2>2
  <2> QED
    BY <2>1, <2>3, <2>4
<1> HIDE DEF more
<1>5. /\ next[0] = 0
      /\ \A n \in 1 .. length + 1 : next[n] = CrcOfByte[Xor(next[n - 1], more[n])]
  BY <1>1, <1>3 DEF ByteLoopOf
<1> HIDE DEF length
<1>6. \A n \in 1 .. length : crc[n - 1] = next[n - 1] => crc[n] = next[n]
  BY <1>1, <1>4, <1>5
<1>7. crc[length] = next[length]
  <2>1. length \in Nat /\ crc[0] = next[0]
    BY <1>1, <1>4, <1>5
  <2>2. \A n \in 0 .. length : crc[n] = next[n]
    BY <1>6, <2>1, RunsAgree
  <2> QED
    BY <2>1, <2>2
<1>8. next[length + 1] = CrcOfByte[Xor(next[length], byte)]
  <2>1. length + 1 \in 1 .. length + 1 /\ (length + 1) - 1 = length
    BY <1>1
  <2> QED
    BY <1>1, <1>5, <2>1
<1>9. crc[length] \in Byte
  BY <1>1, <1>2
<1> QED
  BY <1>1, <1>2, <1>3, <1>7, <1>8, <1>9 DEF more

\* The header's CRC is the firmware's.
LEMMA McmSpiCrc8IsCrc8 ==
  ASSUME NEW bytes
  PROVE  McmSpiCrc8(bytes) = Crc8(bytes)
BY DEF McmSpiCrc8, Crc8

-----------------------------------------------------------------------------
(* The CRC is linear *)

\* Addition of bits.
LEMMA PlusRules ==
  /\ \A p, q : Plus(p, q) \in Bit
  /\ \A p, q : Plus(p, q) = Plus(q, p)
  /\ \A p : Plus(p, p) = 0
  /\ \A p, q \in Bit : Plus(p, q) = 0 => p = q
  /\ \A p \in Bit : Plus(p, 0) = p
BY DEF Plus, Bit

\* Sums of two sums of bits can be regrouped.
LEMMA PlusTwice ==
  ASSUME NEW p \in Bit, NEW q \in Bit, NEW r \in Bit, NEW t \in Bit
  PROVE  Plus(Plus(p, q), Plus(r, t)) = Plus(Plus(p, r), Plus(q, t))
BY DEF Plus, Bit

\* Eight turns take an octet to an octet.
LEMMA CrcBitsType ==
  ASSUME NEW u \in Octets
  PROVE  CrcBits(u) \in Octets
BY PlusRules, OctetOf DEF CrcBits

\* Addition of octets.
LEMMA SumRules ==
  ASSUME NEW u \in Octets, NEW v \in Octets
  PROVE  /\ Sum(u, u) = NoBits
         /\ Sum(u, NoBits) = u
         /\ Sum(u, v) = NoBits => u = v
<1>1. /\ NoBits \in Octets
      /\ \A k \in 1 .. 8 : NoBits[k] = 0
      /\ \A k \in 1 .. 8 : u[k] \in Bit /\ v[k] \in Bit
  BY OctetOf DEF NoBits, Bit, Octets
<1>2. /\ Sum(u, u) \in Octets /\ Sum(u, NoBits) \in Octets
  BY <1>1, SumType
<1>3. Sum(u, u) = NoBits
  <2>1. \A k \in 1 .. 8 : Sum(u, u)[k] = NoBits[k]
    BY <1>1, PlusRules DEF Sum
  <2> QED
    BY <1>1, <1>2, <2>1 DEF Octets
<1>4. Sum(u, NoBits) = u
  <2>1. \A k \in 1 .. 8 : Sum(u, NoBits)[k] = u[k]
    BY <1>1, PlusRules DEF Sum
  <2> QED
    BY <1>1, <1>2, <2>1 DEF Octets
<1>5. ASSUME Sum(u, v) = NoBits
      PROVE  u = v
  <2>1. \A k \in 1 .. 8 : Plus(u[k], v[k]) = 0
    BY <1>1, <1>5 DEF Sum
  <2>2. \A k \in 1 .. 8 : u[k] = v[k]
    BY <1>1, <2>1, PlusRules
  <2> QED
    BY <2>2 DEF Octets
<1> QED
  BY <1>3, <1>4, <1>5

\* Sums of two sums of octets can be regrouped.
LEMMA SumTwice ==
  ASSUME NEW u \in Octets, NEW v \in Octets, NEW w \in Octets, NEW z \in Octets
  PROVE  Sum(Sum(u, v), Sum(w, z)) = Sum(Sum(u, w), Sum(v, z))
<1>1. \A k \in 1 .. 8 : u[k] \in Bit /\ v[k] \in Bit /\ w[k] \in Bit /\ z[k] \in Bit
  BY DEF Octets
<1>2. \A k \in 1 .. 8 : Plus(Plus(u[k], v[k]), Plus(w[k], z[k]))
                          = Plus(Plus(u[k], w[k]), Plus(v[k], z[k]))
  BY <1>1 DEF Plus, Bit
<1> QED
  BY <1>2 DEF Sum

\* Eight turns of a sum are the sum of eight turns.
LEMMA CrcBitsSum ==
  ASSUME NEW u \in Octets, NEW v \in Octets
  PROVE  CrcBits(Sum(u, v)) = Sum(CrcBits(u), CrcBits(v))
<1> DEFINE s == Sum(u, v)
<1>1. s \in Octets /\ CrcBits(u) \in Octets /\ CrcBits(v) \in Octets
  BY SumType, CrcBitsType
<1>2. CrcBits(s) \in Octets /\ Sum(CrcBits(u), CrcBits(v)) \in Octets
  BY <1>1, CrcBitsType, SumType
<1>3. \A k \in 1 .. 8 : s[k] = Plus(u[k], v[k]) /\ u[k] \in Bit /\ v[k] \in Bit
  BY DEF Sum, Octets
<1>4. \A k \in 1 .. 8 : Sum(CrcBits(u), CrcBits(v))[k] = Plus(CrcBits(u)[k], CrcBits(v)[k])
  BY DEF Sum
<1> HIDE DEF s
<1>5. ASSUME NEW i \in 1 .. 8, NEW j \in 1 .. 8, NEW k \in 1 .. 8
      PROVE  Plus(Plus(s[i], s[j]), s[k])
               = Plus(Plus(Plus(u[i], u[j]), u[k]), Plus(Plus(v[i], v[j]), v[k]))
  <2>1. /\ s[i] = Plus(u[i], v[i]) /\ s[j] = Plus(u[j], v[j]) /\ s[k] = Plus(u[k], v[k])
        /\ u[i] \in Bit /\ u[j] \in Bit /\ u[k] \in Bit
        /\ v[i] \in Bit /\ v[j] \in Bit /\ v[k] \in Bit
    BY <1>3
  <2> QED
    BY <2>1 DEF Plus, Bit
<1> DEFINE Four(i, j, k, l) ==
             Plus(Plus(s[i], s[j]), Plus(s[k], s[l]))
               = Plus(Plus(Plus(u[i], u[j]), Plus(u[k], u[l])),
                      Plus(Plus(v[i], v[j]), Plus(v[k], v[l])))
<1>6. ASSUME NEW i \in 1 .. 8, NEW j \in 1 .. 8, NEW k \in 1 .. 8, NEW l \in 1 .. 8
      PROVE  Four(i, j, k, l)
  <2>1. /\ s[i] = Plus(u[i], v[i]) /\ s[j] = Plus(u[j], v[j])
        /\ s[k] = Plus(u[k], v[k]) /\ s[l] = Plus(u[l], v[l])
        /\ u[i] \in Bit /\ u[j] \in Bit /\ u[k] \in Bit /\ u[l] \in Bit
        /\ v[i] \in Bit /\ v[j] \in Bit /\ v[k] \in Bit /\ v[l] \in Bit
    BY <1>3
  <2>2. Plus(s[i], s[j]) = Plus(Plus(u[i], u[j]), Plus(v[i], v[j]))
    BY <2>1 DEF Plus, Bit
  <2>3. Plus(s[k], s[l]) = Plus(Plus(u[k], u[l]), Plus(v[k], v[l]))
    BY <2>1 DEF Plus, Bit
  <2> DEFINE a == Plus(u[i], u[j])   b == Plus(v[i], v[j])
             c == Plus(u[k], u[l])   d == Plus(v[k], v[l])
  <2>4. a \in Bit /\ b \in Bit /\ c \in Bit /\ d \in Bit
    BY PlusRules
  <2> HIDE DEF a, b, c, d
  <2>5. Plus(Plus(a, b), Plus(c, d)) = Plus(Plus(a, c), Plus(b, d))
    BY <2>4, PlusTwice
  <2> QED
    BY <2>2, <2>3, <2>5 DEF a, b, c, d
<1>7. \A k \in 1 .. 8 : CrcBits(s)[k] = Plus(CrcBits(u)[k], CrcBits(v)[k])
  <2>1. /\ CrcBits(s)[1] = Plus(CrcBits(u)[1], CrcBits(v)[1])
        /\ CrcBits(s)[2] = Plus(CrcBits(u)[2], CrcBits(v)[2])
        /\ CrcBits(s)[3] = Plus(CrcBits(u)[3], CrcBits(v)[3])
        /\ CrcBits(s)[4] = Plus(CrcBits(u)[4], CrcBits(v)[4])
    BY <1>5 DEF CrcBits
  <2>2. /\ CrcBits(s)[5] = Plus(CrcBits(u)[5], CrcBits(v)[5])
        /\ CrcBits(s)[6] = Plus(CrcBits(u)[6], CrcBits(v)[6])
    <3>1. Four(1, 5, 6, 7) /\ Four(2, 6, 7, 8)
      <4>1. /\ 1 \in 1 .. 8 /\ 2 \in 1 .. 8 /\ 5 \in 1 .. 8
            /\ 6 \in 1 .. 8 /\ 7 \in 1 .. 8 /\ 8 \in 1 .. 8
        OBVIOUS
      <4> HIDE DEF Four
      <4> QED
        BY <1>6, <4>1, Zenon
    <3> QED
      BY <3>1 DEF CrcBits
  <2>3. /\ CrcBits(s)[7] = Plus(CrcBits(u)[7], CrcBits(v)[7])
        /\ CrcBits(s)[8] = Plus(CrcBits(u)[8], CrcBits(v)[8])
    BY <1>5 DEF CrcBits
  <2> QED
    BY <2>1, <2>2, <2>3
<1>8. CrcBits(s) = Sum(CrcBits(u), CrcBits(v))
  BY <1>2, <1>4, <1>7 DEF Octets
<1> QED
  BY <1>8 DEF s

\* A register is cleared by one byte only if it was clear.
LEMMA CrcBitsKernel ==
  ASSUME NEW u \in Octets, CrcBits(u) = NoBits
  PROVE  u = NoBits
<1>1. /\ u[1] \in {0, 1} /\ u[2] \in {0, 1} /\ u[3] \in {0, 1} /\ u[4] \in {0, 1}
      /\ u[5] \in {0, 1} /\ u[6] \in {0, 1} /\ u[7] \in {0, 1} /\ u[8] \in {0, 1}
  BY OctetBits DEF Bit
<1>2. /\ Plus(Plus(u[1], u[2]), u[3]) = 0
      /\ Plus(Plus(u[2], u[3]), u[4]) = 0
      /\ Plus(Plus(u[3], u[4]), u[5]) = 0
      /\ Plus(Plus(u[4], u[5]), u[6]) = 0
      /\ Plus(Plus(u[1], u[5]), Plus(u[6], u[7])) = 0
      /\ Plus(Plus(u[2], u[6]), Plus(u[7], u[8])) = 0
      /\ Plus(Plus(u[2], u[7]), u[8]) = 0
      /\ Plus(Plus(u[1], u[2]), u[8]) = 0
  BY DEF CrcBits, NoBits
<1>3. u[1] = u[4] /\ u[2] = u[5] /\ u[3] = u[6] /\ u[1] = u[7]
  BY <1>1, <1>2 DEF Plus
<1>4. u[5] = u[6]
  BY <1>1, <1>2, <1>3 DEF Plus
<1>5. u[1] = 0
  BY <1>1, <1>2, <1>3, <1>4 DEF Plus
<1>6. u[8] = 0 /\ u[2] = 0
  BY <1>1, <1>2, <1>3, <1>4, <1>5 DEF Plus
<1>7. NoBits \in Octets
  BY OctetOf DEF NoBits, Bit
<1> QED
  BY <1>3, <1>4, <1>5, <1>6, <1>7, SameOctet DEF NoBits

-----------------------------------------------------------------------------
(* Parity *)

\* The number of ones modulo 2.
Parity(u) ==
  Plus(Plus(Plus(u[1], u[2]), Plus(u[3], u[4])), Plus(Plus(u[5], u[6]), Plus(u[7], u[8])))

\* The parity of a sum is the sum of the parities.
LEMMA ParityOfSum ==
  ASSUME NEW u \in Octets, NEW v \in Octets
  PROVE  Parity(Sum(u, v)) = Plus(Parity(u), Parity(v))
<1> DEFINE s == Sum(u, v)
<1>1. \A k \in 1 .. 8 : s[k] = Plus(u[k], v[k]) /\ u[k] \in Bit /\ v[k] \in Bit
  BY DEF Sum, Octets
<1> HIDE DEF s
<1> DEFINE Four(i, j, k, l) ==
             Plus(Plus(s[i], s[j]), Plus(s[k], s[l]))
               = Plus(Plus(Plus(u[i], u[j]), Plus(u[k], u[l])),
                      Plus(Plus(v[i], v[j]), Plus(v[k], v[l])))
<1>2. ASSUME NEW i \in 1 .. 8, NEW j \in 1 .. 8, NEW k \in 1 .. 8, NEW l \in 1 .. 8
      PROVE  Four(i, j, k, l)
  <2>1. /\ s[i] = Plus(u[i], v[i]) /\ s[j] = Plus(u[j], v[j])
        /\ s[k] = Plus(u[k], v[k]) /\ s[l] = Plus(u[l], v[l])
        /\ u[i] \in Bit /\ u[j] \in Bit /\ u[k] \in Bit /\ u[l] \in Bit
        /\ v[i] \in Bit /\ v[j] \in Bit /\ v[k] \in Bit /\ v[l] \in Bit
    BY <1>1
  <2>2. Plus(s[i], s[j]) = Plus(Plus(u[i], u[j]), Plus(v[i], v[j]))
    BY <2>1 DEF Plus, Bit
  <2>3. Plus(s[k], s[l]) = Plus(Plus(u[k], u[l]), Plus(v[k], v[l]))
    BY <2>1 DEF Plus, Bit
  <2> DEFINE a == Plus(u[i], u[j])   b == Plus(v[i], v[j])
             c == Plus(u[k], u[l])   d == Plus(v[k], v[l])
  <2>4. a \in Bit /\ b \in Bit /\ c \in Bit /\ d \in Bit
    BY PlusRules
  <2> HIDE DEF a, b, c, d
  <2>5. Plus(Plus(a, b), Plus(c, d)) = Plus(Plus(a, c), Plus(b, d))
    BY <2>4, PlusTwice
  <2> QED
    BY <2>2, <2>3, <2>5 DEF a, b, c, d
<1>3. Four(1, 2, 3, 4) /\ Four(5, 6, 7, 8)
  <2>1. /\ 1 \in 1 .. 8 /\ 2 \in 1 .. 8 /\ 3 \in 1 .. 8 /\ 4 \in 1 .. 8
        /\ 5 \in 1 .. 8 /\ 6 \in 1 .. 8 /\ 7 \in 1 .. 8 /\ 8 \in 1 .. 8
    OBVIOUS
  <2> HIDE DEF Four
  <2> QED
    BY <1>2, <2>1, Zenon
<1> DEFINE a == Plus(Plus(u[1], u[2]), Plus(u[3], u[4]))
           b == Plus(Plus(v[1], v[2]), Plus(v[3], v[4]))
           c == Plus(Plus(u[5], u[6]), Plus(u[7], u[8]))
           d == Plus(Plus(v[5], v[6]), Plus(v[7], v[8]))
<1>4. Parity(s) = Plus(Plus(a, b), Plus(c, d))
  BY <1>3 DEF Parity
<1>5. Plus(Parity(u), Parity(v)) = Plus(Plus(a, c), Plus(b, d))
  BY DEF Parity
<1>6. a \in Bit /\ b \in Bit /\ c \in Bit /\ d \in Bit
  BY PlusRules
<1> HIDE DEF a, b, c, d
<1>7. Plus(Plus(a, b), Plus(c, d)) = Plus(Plus(a, c), Plus(b, d))
  BY <1>6, PlusTwice
<1> QED
  BY <1>4, <1>5, <1>7 DEF s

\* The polynomial has an even number of terms, so the register keeps its parity.
LEMMA ParityOfCrcBits ==
  ASSUME NEW u \in Octets
  PROVE  Parity(CrcBits(u)) = Parity(u)
<1>1. /\ u[1] \in {0, 1} /\ u[2] \in {0, 1} /\ u[3] \in {0, 1} /\ u[4] \in {0, 1}
      /\ u[5] \in {0, 1} /\ u[6] \in {0, 1} /\ u[7] \in {0, 1} /\ u[8] \in {0, 1}
  BY OctetBits DEF Bit
<1> DEFINE c == CrcBits(u)
<1>2. Plus(c[1], c[2]) = Plus(u[1], u[4])
  BY <1>1 DEF CrcBits, Plus
<1>3. Plus(c[3], c[4]) = Plus(u[3], u[6])
  BY <1>1 DEF CrcBits, Plus
<1>4. Plus(c[7], c[8]) = Plus(u[1], u[7])
  BY <1>1 DEF CrcBits, Plus
<1>5. Plus(c[5], c[6]) = Plus(Plus(u[1], u[5]), Plus(u[2], u[8]))
  BY <1>1 DEF CrcBits, Plus
<1> HIDE DEF c
<1>6. Parity(c) = Parity(u)
  BY <1>1, <1>2, <1>3, <1>4, <1>5 DEF Parity, Plus
<1> QED
  BY <1>6 DEF c
-----------------------------------------------------------------------------
(* Bytes in the place of their bits *)

\* Bytes with the same bits are equal.
LEMMA SameBits ==
  ASSUME NEW a \in Byte, NEW b \in Byte, Bits(a) = Bits(b)
  PROVE  a = b
BY ByteOfBits

\* The bits of 0.
LEMMA BitsOfZero == 0 \in Byte /\ Bits(0) = NoBits
<1>1. NoBits \in Octets
  BY OctetOf DEF NoBits, Bit
<1>2. ByteOf(NoBits) = 0
  BY DEF ByteOf, NoBits
<1> QED
  BY <1>1, <1>2, BitsOfByte DEF Byte

\* Xor on bytes.
LEMMA XorRules ==
  ASSUME NEW a \in Byte, NEW b \in Byte
  PROVE  /\ Xor(a, b) \in Byte
         /\ Xor(a, a) = 0
         /\ Xor(a, 0) = a
         /\ Xor(0, a) = a
         /\ Xor(a, b) = 0 => a = b
<1>1. Bits(a) \in Octets /\ Bits(b) \in Octets
  BY BitsType
<1>2. Xor(a, b) \in Byte /\ Bits(Xor(a, b)) = Sum(Bits(a), Bits(b))
  BY XorBits
<1>3. /\ Xor(a, a) \in Byte /\ Bits(Xor(a, a)) = Sum(Bits(a), Bits(a))
      /\ Xor(a, 0) \in Byte /\ Bits(Xor(a, 0)) = Sum(Bits(a), NoBits)
      /\ Xor(0, a) \in Byte /\ Bits(Xor(0, a)) = Sum(NoBits, Bits(a))
  BY XorBits, BitsOfZero
<1>4. Sum(NoBits, Bits(a)) = Sum(Bits(a), NoBits)
  BY PlusRules DEF Sum
<1>5. /\ Bits(Xor(a, a)) = Bits(0)
      /\ Bits(Xor(a, 0)) = Bits(a)
      /\ Bits(Xor(0, a)) = Bits(a)
  BY <1>1, <1>3, <1>4, SumRules, BitsOfZero
<1>6. Xor(a, b) = 0 => Bits(a) = Bits(b)
  BY <1>1, <1>2, SumRules, BitsOfZero
<1> QED
  BY <1>2, <1>3, <1>5, <1>6, SameBits, BitsOfZero

\* Xor of two Xors can be regrouped.
LEMMA XorTwice ==
  ASSUME NEW a \in Byte, NEW b \in Byte, NEW c \in Byte, NEW d \in Byte
  PROVE  Xor(Xor(a, b), Xor(c, d)) = Xor(Xor(a, c), Xor(b, d))
<1> DEFINE left == Xor(Xor(a, b), Xor(c, d))
           right == Xor(Xor(a, c), Xor(b, d))
<1>1. /\ Xor(a, b) \in Byte /\ Xor(c, d) \in Byte /\ Xor(a, c) \in Byte /\ Xor(b, d) \in Byte
      /\ Bits(Xor(a, b)) = Sum(Bits(a), Bits(b)) /\ Bits(Xor(c, d)) = Sum(Bits(c), Bits(d))
      /\ Bits(Xor(a, c)) = Sum(Bits(a), Bits(c)) /\ Bits(Xor(b, d)) = Sum(Bits(b), Bits(d))
  BY XorBits
<1>2. /\ left \in Byte /\ Bits(left) = Sum(Sum(Bits(a), Bits(b)), Sum(Bits(c), Bits(d)))
      /\ right \in Byte /\ Bits(right) = Sum(Sum(Bits(a), Bits(c)), Sum(Bits(b), Bits(d)))
  BY <1>1, XorBits
<1> HIDE DEF left, right
<1>3. /\ Bits(a) \in Octets /\ Bits(b) \in Octets /\ Bits(c) \in Octets /\ Bits(d) \in Octets
  BY BitsType
<1>4. Sum(Sum(Bits(a), Bits(b)), Sum(Bits(c), Bits(d)))
        = Sum(Sum(Bits(a), Bits(c)), Sum(Bits(b), Bits(d)))
  BY <1>3, SumTwice
<1>5. left = right
  BY <1>2, <1>4, SameBits
<1> QED
  BY <1>5 DEF left, right

\* CrcOfByte is linear.
LEMMA CrcOfXor ==
  ASSUME NEW a \in Byte, NEW b \in Byte
  PROVE  CrcOfByte[Xor(a, b)] = Xor(CrcOfByte[a], CrcOfByte[b])
<1>1. Xor(a, b) \in Byte /\ Bits(Xor(a, b)) = Sum(Bits(a), Bits(b))
  BY XorBits
<1>2. /\ CrcOfByte[a] \in Byte /\ Bits(CrcOfByte[a]) = CrcBits(Bits(a))
      /\ CrcOfByte[b] \in Byte /\ Bits(CrcOfByte[b]) = CrcBits(Bits(b))
      /\ CrcOfByte[Xor(a, b)] \in Byte
      /\ Bits(CrcOfByte[Xor(a, b)]) = CrcBits(Sum(Bits(a), Bits(b)))
  BY <1>1, CrcOfByteBits
<1> DEFINE right == Xor(CrcOfByte[a], CrcOfByte[b])
<1>3. right \in Byte /\ Bits(right) = Sum(CrcBits(Bits(a)), CrcBits(Bits(b)))
  BY <1>2, XorBits
<1> HIDE DEF right
<1>4. CrcBits(Sum(Bits(a), Bits(b))) = Sum(CrcBits(Bits(a)), CrcBits(Bits(b)))
  BY BitsType, CrcBitsSum
<1>5. CrcOfByte[Xor(a, b)] = right
  BY <1>2, <1>3, <1>4, SameBits
<1> QED
  BY <1>5 DEF right

\* CrcOfByte takes nothing but 0 to 0.
LEMMA CrcOfZero ==
  ASSUME NEW byte \in Byte
  PROVE  CrcOfByte[byte] = 0 <=> byte = 0
<1>1. CrcOfByte[byte] \in Byte /\ Bits(CrcOfByte[byte]) = CrcBits(Bits(byte))
  BY CrcOfByteBits
<1>2. Bits(byte) \in Octets
  BY BitsType
<1>3. CrcOfByte[byte] = 0 => byte = 0
  BY <1>1, <1>2, CrcBitsKernel, BitsOfZero, SameBits
<1>4. CrcBits(NoBits) = NoBits
  BY DEF CrcBits, NoBits, Plus
<1>5. byte = 0 => CrcOfByte[byte] = 0
  BY <1>1, <1>4, BitsOfZero, SameBits
<1> QED
  BY <1>3, <1>5

\* The parity of a byte.
Odd(byte) == Parity(Bits(byte))

\* Xor adds parities, and the CRC of a byte has the byte's parity.
LEMMA OddRules ==
  ASSUME NEW a \in Byte, NEW b \in Byte
  PROVE  /\ Odd(a) \in Bit
         /\ Odd(0) = 0
         /\ Odd(Xor(a, b)) = Plus(Odd(a), Odd(b))
         /\ Odd(CrcOfByte[a]) = Odd(a)
<1>1. Bits(a) \in Octets /\ Bits(b) \in Octets
  BY BitsType
<1>2. Odd(a) \in Bit
  BY PlusRules DEF Odd, Parity
<1>3. Odd(0) = 0
  BY BitsOfZero DEF Odd, Parity, NoBits, Plus
<1>4. Odd(Xor(a, b)) = Plus(Odd(a), Odd(b))
  BY <1>1, XorBits, ParityOfSum DEF Odd
<1>5. Odd(CrcOfByte[a]) = Odd(a)
  BY <1>1, CrcOfByteBits, ParityOfCrcBits DEF Odd
<1> QED
  BY <1>2, <1>3, <1>4, <1>5

-----------------------------------------------------------------------------
(* The registers that one inverted bit leaves *)

\* The register, one row per byte, in the turns of the bit loop after a one.
PowerTable ==
  <<<<1, 2, 4, 8, 16, 32, 64, 128>>,
    <<7, 14, 28, 56, 112, 224, 199, 137>>,
    <<21, 42, 84, 168, 87, 174, 91, 182>>,
    <<107, 214, 171, 81, 162, 67, 134, 11>>,
    <<22, 44, 88, 176, 103, 206, 155, 49>>,
    <<98, 196, 143, 25, 50, 100, 200, 151>>,
    <<41, 82, 164, 79, 158, 59, 118, 236>>,
    <<223, 185, 117, 234, 211, 161, 69, 138>>>>

\* The k-th register of the table.
Powers(k) == PowerTable[((k - 1) \div 8) + 1][((k - 1) % 8) + 1]

\* CrcShift as a number: Xor with 7 turns the low three bits, v, into 7 - v.
LEMMA CrcShiftValue ==
  ASSUME NEW crc \in Byte
  PROVE  CrcShift(crc) = IF crc < 128 THEN 2 * crc
                         ELSE (2 * crc - 256) + 7 - 2 * ((2 * crc - 256) % 8)
<1> DEFINE b == Bits(crc)
<1>1. b \in Octets /\ crc = ByteOf(b) /\ crc \in 0 .. 255
  BY BitsType, ByteOfBits DEF Byte
<1>2. CrcShift(crc) = ByteOf(Shift(b))
  BY CrcShiftBits, ByteOfBits
<1>3. crc >= 128 <=> b[1] = 1
  BY DoubleBits
<1> HIDE DEF b
<1>4. /\ b[1] \in {0, 1} /\ b[2] \in {0, 1} /\ b[3] \in {0, 1} /\ b[4] \in {0, 1}
      /\ b[5] \in {0, 1} /\ b[6] \in {0, 1} /\ b[7] \in {0, 1} /\ b[8] \in {0, 1}
  BY <1>1, OctetBits DEF Bit
<1>5. CASE crc < 128
  BY <1>1, <1>5 DEF CrcShift
<1>6. CASE crc >= 128
  <2> DEFINE h3   == 2 * b[2] + b[3]
             h4   == 2 * h3 + b[4]
             h5   == 2 * h4 + b[5]
             high == 2 * h5 + b[6]
             low  == 4 * b[7] + 2 * b[8]
  <2>1. /\ h3 \in Nat /\ h4 \in Nat /\ h5 \in Nat /\ high \in Nat /\ low \in 0 .. 7
    <3>1. h3 \in Nat
      BY <1>4
    <3>2. h4 \in Nat
      <4> HIDE DEF h3
      <4> QED
        BY <1>4, <3>1
    <3>3. h5 \in Nat
      <4> HIDE DEF h4
      <4> QED
        BY <1>4, <3>2
    <3>4. high \in Nat
      <4> HIDE DEF h5
      <4> QED
        BY <1>4, <3>3
    <3>5. low \in 0 .. 7
      BY <1>4
    <3> QED
      BY <3>1, <3>2, <3>3, <3>4, <3>5
  <2>2. b[1] = 1
    BY <1>3, <1>6
  <2>3. /\ 64 * b[2] + 32 * b[3] = 32 * h3
        /\ 128 * b[2] + 64 * b[3] = 64 * h3
    BY <1>4
  <2>4. /\ 32 * h3 + 16 * b[4] = 16 * h4
        /\ 64 * h3 + 32 * b[4] = 32 * h4
    <3> HIDE DEF h3
    <3> QED
      BY <1>4, <2>1
  <2>5. /\ 16 * h4 + 8 * b[5] = 8 * h5
        /\ 32 * h4 + 16 * b[5] = 16 * h5
    <3> HIDE DEF h4
    <3> QED
      BY <1>4, <2>1
  <2>6. /\ 8 * h5 + 4 * b[6] = 4 * high
        /\ 16 * h5 + 8 * b[6] = 8 * high
    <3> HIDE DEF h5
    <3>1. h5 \in Nat /\ b[6] \in {0, 1}
      BY <1>4, <2>1
    <3> QED
      BY <3>1
  <2> HIDE DEF h3, h4, h5, high
  <2>7. crc = 128 * b[1] + 64 * b[2] + 32 * b[3] + 16 * b[4] + 8 * b[5] + 4 * b[6] + 2 * b[7] + b[8]
    BY <1>1 DEF ByteOf
  <2>8. crc = 128 + 4 * high + 2 * b[7] + b[8]
    <3>1. crc = 128 + 32 * h3 + 16 * b[4] + 8 * b[5] + 4 * b[6] + 2 * b[7] + b[8]
      BY <1>4, <2>1, <2>2, <2>3, <2>7
    <3>2. crc = 128 + 16 * h4 + 8 * b[5] + 4 * b[6] + 2 * b[7] + b[8]
      BY <1>4, <2>1, <2>4, <3>1
    <3>3. crc = 128 + 8 * h5 + 4 * b[6] + 2 * b[7] + b[8]
      BY <1>4, <2>1, <2>5, <3>2
    <3> QED
      BY <1>4, <2>1, <2>6, <3>3
  <2>9. 2 * crc - 256 = 8 * high + low
    BY <1>1, <1>4, <2>1, <2>8
  <2> DEFINE s == Shift(b)
  <2>10. /\ s[1] = b[2] /\ s[2] = b[3] /\ s[3] = b[4] /\ s[4] = b[5] /\ s[5] = b[6]
         /\ s[6] = Plus(b[7], b[1]) /\ s[7] = Plus(b[8], b[1]) /\ s[8] = b[1]
    BY ShiftedBits
  <2>11. s[6] = 1 - b[7] /\ s[7] = 1 - b[8] /\ s[8] = 1
    BY <1>4, <2>2, <2>10 DEF Plus
  <2> HIDE DEF s
  <2>12. ByteOf(s) = 128 * b[2] + 64 * b[3] + 32 * b[4] + 16 * b[5] + 8 * b[6]
                       + 4 * (1 - b[7]) + 2 * (1 - b[8]) + 1
    BY <2>10, <2>11 DEF ByteOf
  <2>13. ByteOf(s) = 8 * high + 7 - low
    BY <1>4, <2>1, <2>3, <2>4, <2>5, <2>6, <2>12
  <2> HIDE DEF low
  <2>14. (8 * high + low) % 8 = low
    BY <2>1
  <2>15. (2 * crc - 256) + 7 - 2 * ((2 * crc - 256) % 8) = 8 * high + 7 - low
    <3>1. (2 * crc - 256) % 8 = low
      BY <2>9, <2>14
    <3> QED
      BY <2>1, <2>9, <3>1
  <2>16. ~(crc < 128)
    BY <1>1, <1>6
  <2> QED
    BY <1>2, <2>13, <2>15, <2>16 DEF s
<1> QED
  BY <1>1, <1>5, <1>6

\* The value a turn of the bit loop makes of a byte.
Turned(crc) ==
  IF crc < 128 THEN 2 * crc ELSE (2 * crc - 256) + 7 - 2 * ((2 * crc - 256) % 8)

\* Neighbours in PowerTable are one turn apart, and none is 0.
LEMMA TableRows ==
  /\ \A row \in 1 .. 8, column \in 1 .. 8 :
       PowerTable[row][column] \in Byte /\ PowerTable[row][column] # 0
  /\ \A row \in 1 .. 8, column \in 1 .. 7 :
       PowerTable[row][column + 1] = Turned(PowerTable[row][column])
  /\ \A row \in 1 .. 7 : PowerTable[row + 1][1] = Turned(PowerTable[row][8])
<1>1. LET row == PowerTable[1]
      IN  /\ \A column \in 1 .. 8 : row[column] \in Byte /\ row[column] # 0
          /\ \A column \in 1 .. 7 : row[column + 1] = Turned(row[column])
  BY DEF PowerTable, Turned, Byte
<1>2. LET row == PowerTable[2]
      IN  /\ \A column \in 1 .. 8 : row[column] \in Byte /\ row[column] # 0
          /\ \A column \in 1 .. 7 : row[column + 1] = Turned(row[column])
  BY DEF PowerTable, Turned, Byte
<1>3. LET row == PowerTable[3]
      IN  /\ \A column \in 1 .. 8 : row[column] \in Byte /\ row[column] # 0
          /\ \A column \in 1 .. 7 : row[column + 1] = Turned(row[column])
  BY DEF PowerTable, Turned, Byte
<1>4. LET row == PowerTable[4]
      IN  /\ \A column \in 1 .. 8 : row[column] \in Byte /\ row[column] # 0
          /\ \A column \in 1 .. 7 : row[column + 1] = Turned(row[column])
  BY DEF PowerTable, Turned, Byte
<1>5. LET row == PowerTable[5]
      IN  /\ \A column \in 1 .. 8 : row[column] \in Byte /\ row[column] # 0
          /\ \A column \in 1 .. 7 : row[column + 1] = Turned(row[column])
  BY DEF PowerTable, Turned, Byte
<1>6. LET row == PowerTable[6]
      IN  /\ \A column \in 1 .. 8 : row[column] \in Byte /\ row[column] # 0
          /\ \A column \in 1 .. 7 : row[column + 1] = Turned(row[column])
  BY DEF PowerTable, Turned, Byte
<1>7. LET row == PowerTable[7]
      IN  /\ \A column \in 1 .. 8 : row[column] \in Byte /\ row[column] # 0
          /\ \A column \in 1 .. 7 : row[column + 1] = Turned(row[column])
  BY DEF PowerTable, Turned, Byte
<1>8. LET row == PowerTable[8]
      IN  /\ \A column \in 1 .. 8 : row[column] \in Byte /\ row[column] # 0
          /\ \A column \in 1 .. 7 : row[column + 1] = Turned(row[column])
  BY DEF PowerTable, Turned, Byte
<1>9. \A row \in 1 .. 7 : PowerTable[row + 1][1] = Turned(PowerTable[row][8])
  BY DEF PowerTable, Turned
<1> QED
  BY <1>1, <1>2, <1>3, <1>4, <1>5, <1>6, <1>7, <1>8, <1>9

\* No later register is one of a single one.
LEMMA PowersDiffer ==
  ASSUME NEW row \in 2 .. 8, NEW column \in 1 .. 8, NEW bit \in 1 .. 8
  PROVE  PowerTable[row][column] # PowerTable[1][bit]
<1>1. \A k \in 1 .. 8 : PowerTable[1][k] \in {1, 2, 4, 8, 16, 32, 64, 128}
  BY DEF PowerTable
<1>2. CASE row = 2
  BY <1>1, <1>2 DEF PowerTable
<1>3. CASE row = 3
  BY <1>1, <1>3 DEF PowerTable
<1>4. CASE row = 4
  BY <1>1, <1>4 DEF PowerTable
<1>5. CASE row = 5
  BY <1>1, <1>5 DEF PowerTable
<1>6. CASE row = 6
  BY <1>1, <1>6 DEF PowerTable
<1>7. CASE row = 7
  BY <1>1, <1>7 DEF PowerTable
<1>8. CASE row = 8
  BY <1>1, <1>8 DEF PowerTable
<1> QED
  BY <1>2, <1>3, <1>4, <1>5, <1>6, <1>7, <1>8

\* A turn takes a power to the next.
LEMMA PowersShift ==
  ASSUME NEW k \in 1 .. 63
  PROVE  Powers(k) \in Byte /\ CrcShift(Powers(k)) = Powers(k + 1)
<1> DEFINE row == ((k - 1) \div 8) + 1
           column == ((k - 1) % 8) + 1
<1>1. row \in 1 .. 8 /\ column \in 1 .. 8 /\ k = 8 * (row - 1) + column
  OBVIOUS
<1>2. Powers(k) = PowerTable[row][column]
  BY DEF Powers
<1> HIDE DEF row, column
<1>3. Powers(k) \in Byte /\ CrcShift(Powers(k)) = Turned(Powers(k))
  <2>1. Powers(k) \in Byte
    BY <1>1, <1>2, TableRows
  <2> QED
    BY <2>1, CrcShiftValue DEF Turned
<1>4. CASE column < 8
  <2>1. (k \div 8) + 1 = row /\ (k % 8) + 1 = column + 1 /\ (k + 1) - 1 = k
    BY <1>1, <1>4
  <2>2. Powers(k + 1) = PowerTable[row][column + 1]
    BY <2>1 DEF Powers
  <2>3. column \in 1 .. 7
    BY <1>1, <1>4
  <2> QED
    BY <1>1, <1>2, <1>3, <2>2, <2>3, TableRows
<1>5. CASE column = 8
  <2>1. (k \div 8) + 1 = row + 1 /\ (k % 8) + 1 = 1 /\ (k + 1) - 1 = k
    BY <1>1, <1>5
  <2>2. Powers(k + 1) = PowerTable[row + 1][1]
    BY <2>1 DEF Powers
  <2>3. row \in 1 .. 7
    BY <1>1, <1>5
  <2> QED
    BY <1>2, <1>3, <1>5, <2>2, <2>3, TableRows
<1> QED
  BY <1>1, <1>4, <1>5

\* No register that an inverted bit of an earlier byte leaves is a single bit.
LEMMA PowersApart ==
  ASSUME NEW j \in 9 .. 64, NEW k \in 1 .. 8
  PROVE  Powers(j) # Powers(k)
<1> DEFINE row == ((j - 1) \div 8) + 1
           column == ((j - 1) % 8) + 1
<1>1. row \in 2 .. 8 /\ column \in 1 .. 8
  OBVIOUS
<1>2. Powers(j) = PowerTable[row][column]
  BY DEF Powers
<1>3. ((k - 1) \div 8) + 1 = 1 /\ ((k - 1) % 8) + 1 = k
  OBVIOUS
<1>4. Powers(k) = PowerTable[1][k]
  BY <1>3 DEF Powers
<1> HIDE DEF row, column
<1> QED
  BY <1>1, <1>2, <1>4, PowersDiffer

\* A byte takes a power eight further.
LEMMA CrcOfPower ==
  ASSUME NEW k \in 1 .. 56
  PROVE  CrcOfByte[Powers(k)] = Powers(k + 8)
<1>1. Powers(k) \in Byte
  BY PowersShift
<1>2. PICK crc : BitLoopOf(crc, Powers(k)) /\ CrcOfByte[Powers(k)] = crc[8]
  BY <1>1, CrcOfByteRuns
<1>3. /\ crc[0] = Powers(k)
      /\ crc[1] = CrcShift(crc[0]) /\ crc[2] = CrcShift(crc[1])
      /\ crc[3] = CrcShift(crc[2]) /\ crc[4] = CrcShift(crc[3])
      /\ crc[5] = CrcShift(crc[4]) /\ crc[6] = CrcShift(crc[5])
      /\ crc[7] = CrcShift(crc[6]) /\ crc[8] = CrcShift(crc[7])
  BY <1>2 DEF BitLoopOf
<1>4. crc[1] = Powers(k + 1) /\ crc[2] = Powers(k + 2)
  BY <1>3, PowersShift
<1>5. crc[3] = Powers(k + 3) /\ crc[4] = Powers(k + 4)
  BY <1>3, <1>4, PowersShift
<1>6. crc[5] = Powers(k + 5) /\ crc[6] = Powers(k + 6)
  BY <1>3, <1>5, PowersShift
<1>7. crc[7] = Powers(k + 7) /\ crc[8] = Powers(k + 8)
  BY <1>3, <1>6, PowersShift
<1> QED
  BY <1>2, <1>7

-----------------------------------------------------------------------------
(* Noise on one byte *)

\* The inverted bits of a byte, as bits, as a byte and on the bits sent.
ErrorBits(noise) == [k \in 1 .. 8 |-> IF k \in noise THEN 1 ELSE 0]
Error(noise) == ByteOf(ErrorBits(noise))
Flipped(bits, noise) == [k \in 1 .. 8 |-> IF k \in noise THEN 1 - bits[k] ELSE bits[k]]

\* The inverted bits as a byte.
LEMMA ErrorType ==
  ASSUME NEW noise
  PROVE  /\ ErrorBits(noise) \in Octets
         /\ Error(noise) \in Byte
         /\ Bits(Error(noise)) = ErrorBits(noise)
<1>1. ErrorBits(noise) \in Octets
  BY DEF ErrorBits, Octets, Bit
<1> QED
  BY <1>1, ByteOfType, BitsOfByte DEF Error

\* What is read differs from what is sent by the error.
LEMMA FlippedError ==
  ASSUME NEW bits \in Octets, NEW noise
  PROVE  /\ Flipped(bits, noise) \in Octets
         /\ Xor(ByteOf(Flipped(bits, noise)), ByteOf(bits)) = Error(noise)
         /\ noise = {} => Flipped(bits, noise) = bits
<1>1. \A k \in 1 .. 8 : bits[k] \in {0, 1}
  BY DEF Octets, Bit
<1>2. Flipped(bits, noise) \in Octets
  BY <1>1 DEF Flipped, Octets, Bit
<1>3. Sum(Flipped(bits, noise), bits) = ErrorBits(noise)
  <2>1. \A k \in 1 .. 8 : Plus(Flipped(bits, noise)[k], bits[k]) = ErrorBits(noise)[k]
    BY <1>1 DEF Flipped, ErrorBits, Plus
  <2>2. Sum(Flipped(bits, noise), bits) = [k \in 1 .. 8 |-> ErrorBits(noise)[k]]
    BY <2>1 DEF Sum
  <2> QED
    BY <2>2 DEF ErrorBits
<1>4. Xor(ByteOf(Flipped(bits, noise)), ByteOf(bits)) = Error(noise)
  BY <1>2, <1>3, ByteOfType, BitsOfByte, XorBits, ErrorType, SameBits
<1>5. noise = {} => Flipped(bits, noise) = bits
  BY DEF Flipped, Octets
<1> QED
  BY <1>2, <1>4, <1>5

\* The parity of a number plus a bit.
LEMMA PlusParity ==
  ASSUME NEW n \in Nat, NEW p \in Bit
  PROVE  (n + p) % 2 = Plus(n % 2, p)
<1>1. CASE p = 0
  BY <1>1 DEF Plus
<1>2. CASE p = 1
  BY <1>2 DEF Plus
<1> QED
  BY <1>1, <1>2 DEF Bit

\* The number of inverted bits, counted by their sum.
LEMMA NoiseParity ==
  ASSUME NEW noise \in SUBSET (1 .. 8)
  PROVE  /\ IsFiniteSet(noise)
         /\ Cardinality(noise) \in Nat
         /\ Odd(Error(noise)) = Cardinality(noise) % 2
<1> DEFINE Upto(j) == noise \cap (1 .. j)
           e == ErrorBits(noise)
<1>1. \A j \in 0 .. 8 : IsFiniteSet(Upto(j)) /\ Cardinality(Upto(j)) \in Nat
  <2>1. \A j \in 0 .. 8 : IsFiniteSet(Upto(j))
    <3> SUFFICES ASSUME NEW j \in 0 .. 8
                 PROVE  IsFiniteSet(Upto(j))
      OBVIOUS
    <3>1. 1 \in Int /\ j \in Int
      OBVIOUS
    <3>2. IsFiniteSet(1 .. j)
      BY <3>1, FS_Interval
    <3>3. Upto(j) \in SUBSET (1 .. j)
      OBVIOUS
    <3> HIDE DEF Upto
    <3> QED
      BY <3>2, <3>3, FS_Subset
  <2> HIDE DEF Upto
  <2> QED
    BY <2>1, FS_CardinalityType
<1>2. ASSUME NEW j \in 1 .. 8
      PROVE  Cardinality(Upto(j)) % 2 = Plus(Cardinality(Upto(j - 1)) % 2, e[j])
  <2>1. j - 1 \in 0 .. 8
    OBVIOUS
  <2>2. CASE j \in noise
    <3>1. Upto(j) = Upto(j - 1) \cup {j} /\ j \notin Upto(j - 1)
      BY <2>2
    <3>2. Cardinality(Upto(j)) = Cardinality(Upto(j - 1)) + 1
      <4>1. IsFiniteSet(Upto(j - 1))
        BY <1>1, <2>1
      <4> HIDE DEF Upto
      <4> QED
        BY <3>1, <4>1, FS_AddElement
    <3>3. e[j] = 1 /\ 1 \in Bit
      BY <2>2 DEF ErrorBits, Bit
    <3> HIDE DEF Upto
    <3> QED
      BY <1>1, <2>1, <3>2, <3>3, PlusParity
  <2>3. CASE j \notin noise
    <3>1. Upto(j) = Upto(j - 1)
      BY <2>3
    <3>2. e[j] = 0 /\ 0 \in Bit
      BY <2>3 DEF ErrorBits, Bit
    <3>3. Cardinality(Upto(j - 1)) % 2 \in Bit
      <4> HIDE DEF Upto
      <4> QED
        BY <1>1, <2>1 DEF Bit
    <3> HIDE DEF Upto
    <3> QED
      BY <3>1, <3>2, <3>3, PlusRules
  <2> QED
    BY <2>2, <2>3
<1>3. Upto(0) = {} /\ Upto(8) = noise
  <2>1. 1 .. 0 = {}
    OBVIOUS
  <2>2. noise \cap (1 .. 8) = noise
    OBVIOUS
  <2> QED
    BY <2>1, <2>2
<1> DEFINE c(j) == Cardinality(Upto(j)) % 2
<1>4. c(0) = 0
  BY <1>3, FS_EmptySet
<1>5. /\ c(1) = Plus(c(0), e[1]) /\ c(2) = Plus(c(1), e[2]) /\ c(3) = Plus(c(2), e[3])
      /\ c(4) = Plus(c(3), e[4]) /\ c(5) = Plus(c(4), e[5]) /\ c(6) = Plus(c(5), e[6])
      /\ c(7) = Plus(c(6), e[7]) /\ c(8) = Plus(c(7), e[8])
  <2> HIDE DEF Upto, e
  <2> QED
    BY <1>2
<1>6. /\ e[1] \in {0, 1} /\ e[2] \in {0, 1} /\ e[3] \in {0, 1} /\ e[4] \in {0, 1}
      /\ e[5] \in {0, 1} /\ e[6] \in {0, 1} /\ e[7] \in {0, 1} /\ e[8] \in {0, 1}
  BY DEF ErrorBits
<1> HIDE DEF c, e
<1>7. c(4) = Plus(Plus(e[1], e[2]), Plus(e[3], e[4]))
  BY <1>4, <1>5, <1>6 DEF Plus
<1>8. c(8) = Plus(c(4), Plus(Plus(e[5], e[6]), Plus(e[7], e[8])))
  BY <1>5, <1>6, <1>7 DEF Plus
<1>9. Odd(Error(noise)) = c(8)
  BY <1>7, <1>8, ErrorType DEF Odd, Parity, e
<1> QED
  BY <1>1, <1>3, <1>9 DEF c

\* No bit, and one.
LEMMA SmallNoise ==
  ASSUME NEW noise \in SUBSET (1 .. 8)
  PROVE  /\ Cardinality(noise) = 0 => noise = {} /\ Error(noise) = 0
         /\ Cardinality(noise) = 1 => \E k \in 1 .. 8 : Error(noise) = Powers(k)
         /\ Cardinality(noise) # 0 => Error(noise) # 0
<1>1. IsFiniteSet(noise)
  BY NoiseParity
<1>2. Cardinality(noise) = 0 <=> noise = {}
  BY <1>1, FS_EmptySet
<1>3. noise = {} => Error(noise) = 0
  <2> SUFFICES ASSUME noise = {}
               PROVE  Error(noise) = 0
    OBVIOUS
  <2> DEFINE e == ErrorBits(noise)
  <2>1. /\ e[1] = 0 /\ e[2] = 0 /\ e[3] = 0 /\ e[4] = 0
        /\ e[5] = 0 /\ e[6] = 0 /\ e[7] = 0 /\ e[8] = 0
    BY DEF ErrorBits
  <2> HIDE DEF e
  <2>2. ByteOf(e) = 0
    BY <2>1 DEF ByteOf
  <2> QED
    BY <2>2 DEF Error, e
<1>4. noise # {} => Error(noise) # 0
  <2> SUFFICES ASSUME noise # {}, Error(noise) = 0
               PROVE  FALSE
    OBVIOUS
  <2>1. ErrorBits(noise) = NoBits
    BY ErrorType, BitsOfZero
  <2>2. \A k \in 1 .. 8 : NoBits[k] = 0
    BY DEF NoBits
  <2>3. PICK k \in 1 .. 8 : k \in noise
    OBVIOUS
  <2>4. ErrorBits(noise)[k] = 1
    BY <2>3 DEF ErrorBits
  <2> QED
    BY <2>1, <2>2, <2>4
<1>5. ASSUME Cardinality(noise) = 1
      PROVE  \E k \in 1 .. 8 : Error(noise) = Powers(k)
  <2>1. PICK k \in 1 .. 8 : noise = {k}
    <3>1. PICK k : noise = {k}
      BY <1>1, <1>5, FS_Singleton
    <3> QED
      BY <3>1
  <2> DEFINE e == ErrorBits({k})
  <2>2. \A j \in 1 .. 8 : e[j] = IF j = k THEN 1 ELSE 0
    BY DEF ErrorBits
  <2> HIDE DEF e
  <2>3. \A j \in 1 .. 8 : Powers(j) = PowerTable[1][j]
    <3>1. \A j \in 1 .. 8 : ((j - 1) \div 8) + 1 = 1 /\ ((j - 1) % 8) + 1 = j
      OBVIOUS
    <3> QED
      BY <3>1 DEF Powers
  <2>4. CASE k = 1
    <3>1. e[1] = 1 /\ e[2] = 0 /\ e[3] = 0 /\ e[4] = 0
      BY <2>2, <2>4
    <3>2. e[5] = 0 /\ e[6] = 0 /\ e[7] = 0 /\ e[8] = 0
      BY <2>2, <2>4
    <3>3. ByteOf(e) = 128
      BY <3>1, <3>2 DEF ByteOf
    <3>4. Powers(8) = 128
      BY <2>3 DEF PowerTable
    <3> QED
      BY <2>1, <3>3, <3>4 DEF e, Error
  <2>5. CASE k = 2
    <3>1. e[1] = 0 /\ e[2] = 1 /\ e[3] = 0 /\ e[4] = 0
      BY <2>2, <2>5
    <3>2. e[5] = 0 /\ e[6] = 0 /\ e[7] = 0 /\ e[8] = 0
      BY <2>2, <2>5
    <3>3. ByteOf(e) = 64
      BY <3>1, <3>2 DEF ByteOf
    <3>4. Powers(7) = 64
      BY <2>3 DEF PowerTable
    <3> QED
      BY <2>1, <3>3, <3>4 DEF e, Error
  <2>6. CASE k = 3
    <3>1. e[1] = 0 /\ e[2] = 0 /\ e[3] = 1 /\ e[4] = 0
      BY <2>2, <2>6
    <3>2. e[5] = 0 /\ e[6] = 0 /\ e[7] = 0 /\ e[8] = 0
      BY <2>2, <2>6
    <3>3. ByteOf(e) = 32
      BY <3>1, <3>2 DEF ByteOf
    <3>4. Powers(6) = 32
      BY <2>3 DEF PowerTable
    <3> QED
      BY <2>1, <3>3, <3>4 DEF e, Error
  <2>7. CASE k = 4
    <3>1. e[1] = 0 /\ e[2] = 0 /\ e[3] = 0 /\ e[4] = 1
      BY <2>2, <2>7
    <3>2. e[5] = 0 /\ e[6] = 0 /\ e[7] = 0 /\ e[8] = 0
      BY <2>2, <2>7
    <3>3. ByteOf(e) = 16
      BY <3>1, <3>2 DEF ByteOf
    <3>4. Powers(5) = 16
      BY <2>3 DEF PowerTable
    <3> QED
      BY <2>1, <3>3, <3>4 DEF e, Error
  <2>8. CASE k = 5
    <3>1. e[1] = 0 /\ e[2] = 0 /\ e[3] = 0 /\ e[4] = 0
      BY <2>2, <2>8
    <3>2. e[5] = 1 /\ e[6] = 0 /\ e[7] = 0 /\ e[8] = 0
      BY <2>2, <2>8
    <3>3. ByteOf(e) = 8
      BY <3>1, <3>2 DEF ByteOf
    <3>4. Powers(4) = 8
      BY <2>3 DEF PowerTable
    <3> QED
      BY <2>1, <3>3, <3>4 DEF e, Error
  <2>9. CASE k = 6
    <3>1. e[1] = 0 /\ e[2] = 0 /\ e[3] = 0 /\ e[4] = 0
      BY <2>2, <2>9
    <3>2. e[5] = 0 /\ e[6] = 1 /\ e[7] = 0 /\ e[8] = 0
      BY <2>2, <2>9
    <3>3. ByteOf(e) = 4
      BY <3>1, <3>2 DEF ByteOf
    <3>4. Powers(3) = 4
      BY <2>3 DEF PowerTable
    <3> QED
      BY <2>1, <3>3, <3>4 DEF e, Error
  <2>10. CASE k = 7
    <3>1. e[1] = 0 /\ e[2] = 0 /\ e[3] = 0 /\ e[4] = 0
      BY <2>2, <2>10
    <3>2. e[5] = 0 /\ e[6] = 0 /\ e[7] = 1 /\ e[8] = 0
      BY <2>2, <2>10
    <3>3. ByteOf(e) = 2
      BY <3>1, <3>2 DEF ByteOf
    <3>4. Powers(2) = 2
      BY <2>3 DEF PowerTable
    <3> QED
      BY <2>1, <3>3, <3>4 DEF e, Error
  <2>11. CASE k = 8
    <3>1. e[1] = 0 /\ e[2] = 0 /\ e[3] = 0 /\ e[4] = 0
      BY <2>2, <2>11
    <3>2. e[5] = 0 /\ e[6] = 0 /\ e[7] = 0 /\ e[8] = 1
      BY <2>2, <2>11
    <3>3. ByteOf(e) = 1
      BY <3>1, <3>2 DEF ByteOf
    <3>4. Powers(1) = 1
      BY <2>3 DEF PowerTable
    <3> QED
      BY <2>1, <3>3, <3>4 DEF e, Error
  <2> QED
    BY <2>4, <2>5, <2>6, <2>7, <2>8, <2>9, <2>10, <2>11
<1> QED
  BY <1>2, <1>3, <1>4, <1>5

-----------------------------------------------------------------------------
(* What noise does to the difference between the registers of both ends *)

\* After n bytes of a frame in which f bits were inverted, d is the difference
\* between the CRC of what was read and of what was sent.
DamageOK(f, d, n) ==
  /\ d \in Byte
  /\ f = 0 => d = 0
  /\ Odd(d) = f % 2
  /\ f = 1 /\ n < 8 => \E k \in 9 .. 8 * n + 8 : d = Powers(k)
  /\ f = 2 => d # 0

\* Nothing is damaged before the first byte.
LEMMA DamageInit == DamageOK(0, 0, 0)
<1>1. 0 \in Byte
  BY DEF Byte
<1> QED
  BY <1>1, OddRules DEF DamageOK

\* One more byte, with at most three inverted bits in all.
LEMMA DamageStep ==
  ASSUME NEW f \in Nat, NEW d, NEW n \in 0 .. 7, DamageOK(f, d, n),
         NEW noise \in SUBSET (1 .. 8), f + Cardinality(noise) <= 3
  PROVE  DamageOK(f + Cardinality(noise), CrcOfByte[Xor(d, Error(noise))], n + 1)
<1> DEFINE w == Cardinality(noise)
           e == Error(noise)
           s == Xor(d, e)
           next == CrcOfByte[s]
<1>1. /\ w \in Nat /\ e \in Byte /\ Odd(e) = w % 2
      /\ w = 0 => e = 0
      /\ w = 1 => \E k \in 1 .. 8 : e = Powers(k)
      /\ w # 0 => e # 0
  BY NoiseParity, SmallNoise, ErrorType
<1>2. /\ d \in Byte /\ (f = 0 => d = 0) /\ Odd(d) = f % 2 /\ (f = 2 => d # 0)
      /\ f = 1 => \E k \in 9 .. 8 * n + 8 : d = Powers(k)
  BY DEF DamageOK
<1> HIDE DEF w, e
<1>3. /\ s \in Byte /\ (s = 0 => d = e) /\ (e = 0 => s = d) /\ (d = 0 => s = e)
      /\ Odd(s) = Plus(Odd(d), Odd(e))
  BY <1>1, <1>2, XorRules, OddRules
<1> HIDE DEF s
<1>4. /\ next \in Byte /\ (next = 0 <=> s = 0) /\ Odd(next) = Odd(s)
  BY <1>3, CrcOfByteBits, CrcOfZero, OddRules
<1>5. Odd(next) = (f + w) % 2
  <2>1. Plus(f % 2, w % 2) = (f + w) % 2
    BY <1>1 DEF Plus
  <2> QED
    BY <1>1, <1>2, <1>3, <1>4, <2>1
<1>6. f + w = 0 => next = 0
  BY <1>1, <1>2, <1>3, <1>4
<1>7. ASSUME f + w = 2
      PROVE  next # 0
  <2>1. CASE f = 0
    BY <1>1, <1>2, <1>3, <1>4, <1>7, <2>1
  <2>2. CASE f = 1
    <3>1. w = 1
      BY <1>1, <1>7, <2>2
    <3>2. PICK j \in 9 .. 8 * n + 8 : d = Powers(j)
      BY <1>2, <2>2
    <3>3. PICK k \in 1 .. 8 : e = Powers(k)
      BY <1>1, <3>1
    <3>4. j \in 9 .. 64
      BY <3>2
    <3>5. d # e
      BY <3>2, <3>3, <3>4, PowersApart
    <3> QED
      BY <1>3, <1>4, <3>5
  <2>3. CASE f = 2
    BY <1>1, <1>2, <1>3, <1>4, <1>7, <2>3
  <2> QED
    BY <1>1, <1>7, <2>1, <2>2, <2>3
<1>8. ASSUME f + w = 1, n + 1 < 8
      PROVE  \E k \in 9 .. 8 * (n + 1) + 8 : next = Powers(k)
  <2>1. CASE f = 0
    <3>1. w = 1 /\ s = e
      BY <1>1, <1>2, <1>3, <1>8, <2>1
    <3>2. PICK k \in 1 .. 8 : e = Powers(k)
      BY <1>1, <3>1
    <3>3. k \in 1 .. 56 /\ k + 8 \in 9 .. 8 * (n + 1) + 8
      BY <3>2
    <3>4. next = Powers(k + 8)
      BY <3>1, <3>2, <3>3, CrcOfPower
    <3> QED
      BY <3>3, <3>4
  <2>2. CASE f = 1
    <3>1. w = 0 /\ s = d
      BY <1>1, <1>2, <1>3, <1>8, <2>2
    <3>2. PICK k \in 9 .. 8 * n + 8 : d = Powers(k)
      BY <1>2, <2>2
    <3>3. k \in 1 .. 56 /\ k + 8 \in 9 .. 8 * (n + 1) + 8
      BY <1>8, <3>2
    <3>4. next = Powers(k + 8)
      BY <3>1, <3>2, <3>3, CrcOfPower
    <3> QED
      BY <3>3, <3>4
  <2> QED
    BY <1>1, <1>8, <2>1, <2>2
<1> HIDE DEF next
<1>9. DamageOK(f + w, next, n + 1)
  BY <1>4, <1>5, <1>6, <1>7, <1>8 DEF DamageOK
<1> QED
  BY <1>9 DEF w, e, s, next

\* No damage of one to three bits goes unnoticed.
LEMMA DamageShows ==
  ASSUME NEW f \in 1 .. 3, NEW d, NEW n, DamageOK(f, d, n)
  PROVE  d # 0
<1>1. 0 \in Byte /\ Odd(0) = 0
  <2>1. 0 \in Byte
    BY DEF Byte
  <2> QED
    BY <2>1, OddRules
<1>2. CASE f = 2
  BY <1>2 DEF DamageOK
<1>3. CASE f = 1
  BY <1>1, <1>3 DEF DamageOK
<1>4. CASE f = 3
  BY <1>1, <1>4 DEF DamageOK
<1> QED
  BY <1>2, <1>3, <1>4

-----------------------------------------------------------------------------
(* The difference, byte by byte *)

\* The difference of two CRCs.
Difference(one, other) == Xor(Crc8(one), Crc8(other))

\* One byte more at both ends.
LEMMA DifferenceAppend ==
  ASSUME NEW one \in Seq(Byte), NEW other \in Seq(Byte), NEW a \in Byte, NEW b \in Byte
  PROVE  Difference(Append(one, a), Append(other, b))
           = CrcOfByte[Xor(Difference(one, other), Xor(a, b))]
<1> DEFINE p == Crc8(one)
           q == Crc8(other)
<1>1. /\ p \in Byte /\ Crc8(Append(one, a)) = CrcOfByte[Xor(p, a)]
      /\ q \in Byte /\ Crc8(Append(other, b)) = CrcOfByte[Xor(q, b)]
  BY Crc8Append
<1> HIDE DEF p, q
<1>2. Xor(p, a) \in Byte /\ Xor(q, b) \in Byte
  BY <1>1, XorRules
<1>3. Xor(CrcOfByte[Xor(p, a)], CrcOfByte[Xor(q, b)]) = CrcOfByte[Xor(Xor(p, a), Xor(q, b))]
  BY <1>2, CrcOfXor
<1>4. Xor(Xor(p, a), Xor(q, b)) = Xor(Xor(p, q), Xor(a, b))
  BY <1>1, XorTwice
<1> QED
  BY <1>1, <1>3, <1>4 DEF Difference, p, q
-----------------------------------------------------------------------------
(* The shift registers *)

\* The bits of a register, bit 31 first.
Register == [1 .. WordLength -> Bit]

\* A function on 1 .. n is a sequence.
LEMMA FunctionSeq ==
  ASSUME NEW S, NEW n \in Nat, NEW f \in [1 .. n -> S]
  PROVE  f \in Seq(S) /\ Len(f) = n
<1>1. f \in Seq(S)
  BY SeqDef
<1>2. DOMAIN f = 1 .. Len(f) /\ Len(f) \in Nat
  BY <1>1, LenProperties
<1>3. DOMAIN f = 1 .. n
  OBVIOUS
<1> QED
  BY <1>1, <1>2, <1>3

\* The elements of one sequence before those of another.
LEMMA Joined ==
  ASSUME NEW S, NEW s \in Seq(S), NEW t \in Seq(S)
  PROVE  /\ s \o t \in Seq(S)
         /\ Len(s \o t) = Len(s) + Len(t)
         /\ \A k \in 1 .. Len(s) : (s \o t)[k] = s[k]
         /\ \A k \in 1 .. Len(t) : (s \o t)[Len(s) + k] = t[k]
<1>1. /\ s \o t \in Seq(S) /\ Len(s \o t) = Len(s) + Len(t)
      /\ \A k \in 1 .. Len(s) + Len(t) :
           (s \o t)[k] = IF k <= Len(s) THEN s[k] ELSE t[k - Len(s)]
  BY ConcatProperties
<1>2. Len(s) \in Nat /\ Len(t) \in Nat
  BY LenProperties
<1>3. \A k \in 1 .. Len(s) : (s \o t)[k] = s[k]
  BY <1>1, <1>2
<1>4. ASSUME NEW k \in 1 .. Len(t)
      PROVE  (s \o t)[Len(s) + k] = t[k]
  <2>1. /\ Len(s) + k \in 1 .. Len(s) + Len(t)
        /\ ~(Len(s) + k <= Len(s))
        /\ (Len(s) + k) - Len(s) = k
    BY <1>2
  <2> QED
    BY <1>1, <2>1
<1> QED
  BY <1>1, <1>3, <1>4

\* A register is a sequence of 32 bits.
LEMMA RegisterSeq ==
  ASSUME NEW word \in Register
  PROVE  word \in Seq(Bit) /\ Len(word) = 32 /\ \A k \in 1 .. 32 : word[k] \in Bit
<1>1. word \in [1 .. 32 -> Bit]
  BY DEF Register, WordLength
<1>2. 32 \in Nat
  OBVIOUS
<1>3. word \in Seq(Bit) /\ Len(word) = 32
  BY <1>1, <1>2, FunctionSeq
<1> QED
  BY <1>1, <1>3

\* A sequence of as many bits is a register.
LEMMA RegisterOf ==
  ASSUME NEW word \in Seq(Bit), Len(word) = 32
  PROVE  word \in Register
<1>1. word \in [1 .. Len(word) -> Bit]
  BY LenProperties
<1> QED
  BY <1>1 DEF Register, WordLength

\* Shifting out moves every bit one place up.
LEMMA ShiftedOutBits ==
  ASSUME NEW osr \in Register
  PROVE  /\ ShiftedOut(osr) \in Register
         /\ \A k \in 1 .. 31 : ShiftedOut(osr)[k] = osr[k + 1]
<1>1. osr \in Seq(Bit) /\ Len(osr) = 32
  BY RegisterSeq
<1> DEFINE rest == Tail(osr)
           last == <<0>>
<1>2. rest \in Seq(Bit) /\ Len(rest) = 31 /\ \A k \in 1 .. 31 : rest[k] = osr[k + 1]
  <2>1. osr # <<>>
    <3> SUFFICES ASSUME osr = <<>>
                 PROVE  FALSE
      OBVIOUS
    <3>1. Len(osr) = 0
      BY EmptySeq
    <3> QED
      BY <1>1, <3>1
  <2>2. /\ rest \in Seq(Bit) /\ Len(rest) = Len(osr) - 1
        /\ \A k \in 1 .. Len(rest) : rest[k] = osr[k + 1]
    BY <1>1, <2>1, HeadTailProperties
  <2>3. Len(rest) = 31
    BY <1>1, <2>2
  <2> QED
    BY <2>2, <2>3
<1>3. last \in Seq(Bit) /\ Len(last) = 1
  BY DEF Bit
<1> HIDE DEF rest, last
<1>4. /\ rest \o last \in Seq(Bit) /\ Len(rest \o last) = 32
      /\ \A k \in 1 .. 31 : (rest \o last)[k] = rest[k]
  <2> rest \in Seq(Bit) /\ last \in Seq(Bit)
    BY <1>2, <1>3
  <2>1. /\ rest \o last \in Seq(Bit) /\ Len(rest \o last) = Len(rest) + Len(last)
        /\ \A k \in 1 .. Len(rest) : (rest \o last)[k] = rest[k]
    BY Joined
  <2> DEFINE joined == rest \o last
             n == Len(rest)
  <2> HIDE DEF joined, n
  <2>2. n = 31 /\ Len(joined) = 32
    BY <1>2, <1>3, <2>1 DEF joined, n
  <2>3. \A k \in 1 .. n : joined[k] = rest[k]
    BY <2>1 DEF joined, n
  <2> QED
    BY <2>1, <2>2, <2>3 DEF joined
<1>5. rest \o last \in Register
  BY <1>4, RegisterOf
<1> QED
  BY <1>2, <1>4, <1>5 DEF ShiftedOut, rest, last

\* Shifting in puts the new bit first and moves the others one place down.
LEMMA ShiftedInBits ==
  ASSUME NEW isr \in Register, NEW bit \in Bit
  PROVE  /\ ShiftedIn(isr, bit) \in Register
         /\ ShiftedIn(isr, bit)[1] = bit
         /\ \A k \in 2 .. 32 : ShiftedIn(isr, bit)[k] = isr[k - 1]
<1>1. isr \in Seq(Bit) /\ Len(isr) = 32
  BY RegisterSeq
<1> DEFINE first == <<bit>>
           rest == SubSeq(isr, 1, 31)
<1>2. rest \in Seq(Bit) /\ Len(rest) = 31 /\ \A k \in 1 .. 31 : rest[k] = isr[k]
  <2>1. \A k \in 1 .. 31 : isr[k] \in Bit
    <3>1. \A k \in 1 .. 32 : isr[k] \in Bit
      BY RegisterSeq
    <3>2. \A k \in 1 .. 31 : k \in 1 .. 32
      OBVIOUS
    <3> QED
      BY <3>1, <3>2
  <2>2. 1 \in Int /\ 31 \in Int
    OBVIOUS
  <2>3. /\ rest \in Seq(Bit) /\ Len(rest) = 31
        /\ \A k \in 1 .. 31 : rest[k] = isr[1 + k - 1]
    BY <2>1, <2>2, SubSeqProperties
  <2> QED
    BY <2>3
<1>3. first \in Seq(Bit) /\ Len(first) = 1 /\ first[1] = bit
  OBVIOUS
<1> HIDE DEF rest, first
<1>4. /\ first \o rest \in Seq(Bit) /\ Len(first \o rest) = 32
      /\ (first \o rest)[1] = first[1]
      /\ \A k \in 2 .. 32 : (first \o rest)[k] = rest[k - 1]
  <2> rest \in Seq(Bit) /\ first \in Seq(Bit)
    BY <1>2, <1>3
  <2>1. /\ first \o rest \in Seq(Bit) /\ Len(first \o rest) = Len(first) + Len(rest)
        /\ \A k \in 1 .. Len(first) : (first \o rest)[k] = first[k]
        /\ \A k \in 1 .. Len(rest) : (first \o rest)[Len(first) + k] = rest[k]
    BY Joined
  <2> DEFINE joined == first \o rest
             m == Len(first)
             n == Len(rest)
  <2> HIDE DEF joined, m, n
  <2>5. m = 1 /\ n = 31 /\ Len(joined) = 32
    BY <1>2, <1>3, <2>1 DEF joined, m, n
  <2>6. /\ \A k \in 1 .. m : joined[k] = first[k]
        /\ \A k \in 1 .. n : joined[m + k] = rest[k]
    BY <2>1 DEF joined, m, n
  <2>7. joined[1] = first[1] /\ \A k \in 1 .. 31 : joined[1 + k] = rest[k]
    BY <2>5, <2>6
  <2>2. /\ Len(first \o rest) = 32 /\ (first \o rest)[1] = first[1]
        /\ \A k \in 1 .. 31 : (first \o rest)[1 + k] = rest[k]
    BY <2>5, <2>7 DEF joined
  <2>3. \A k \in 2 .. 32 : k - 1 \in 1 .. 31 /\ 1 + (k - 1) = k
    OBVIOUS
  <2>4. \A k \in 2 .. 32 : (first \o rest)[k] = rest[k - 1]
    BY <2>2, <2>3
  <2> QED
    BY <2>1, <2>2, <2>4
<1>5. first \o rest \in Register
  BY <1>4, RegisterOf
<1>6. \A k \in 2 .. 32 : rest[k - 1] = isr[k - 1]
  <2>1. \A k \in 2 .. 32 : k - 1 \in 1 .. 31
    OBVIOUS
  <2> QED
    BY <1>2, <2>1
<1>7. ShiftedIn(isr, bit) = first \o rest
  BY DEF ShiftedIn, first, rest, WordLength
<1> QED
  BY <1>3, <1>4, <1>5, <1>6, <1>7

\* What bit_loop has done after n turns.
TurnOK(turn, osr, mosi, n) ==
  /\ turn \in [osr : Register, isr : Register, miso : Seq(Bit)]
  /\ Len(turn.miso) = n
  /\ \A k \in 1 .. n : turn.miso[k] = osr[k]
  /\ \A k \in 1 .. 32 - n : turn.osr[k] = osr[k + n]
  /\ \A k \in 1 .. n : turn.isr[k] = mosi[n + 1 - k]

\* One turn of bit_loop.
LEMMA TurnStep ==
  ASSUME NEW osr \in Register, NEW mosi \in Octets, NEW n \in 0 .. 7,
         NEW turn, TurnOK(turn, osr, mosi, n)
  PROVE  TurnOK(BitLoop(turn, mosi[n + 1]), osr, mosi, n + 1)
<1> DEFINE bit == mosi[n + 1]
           next == BitLoop(turn, bit)
<1>1. /\ turn \in [osr : Register, isr : Register, miso : Seq(Bit)]
      /\ Len(turn.miso) = n
      /\ \A k \in 1 .. n : turn.miso[k] = osr[k]
      /\ \A k \in 1 .. 32 - n : turn.osr[k] = osr[k + n]
      /\ \A k \in 1 .. n : turn.isr[k] = mosi[n + 1 - k]
  BY DEF TurnOK
<1>2. bit \in Bit
  BY DEF Octets
<1>3. /\ next.osr = ShiftedOut(turn.osr)
      /\ next.isr = ShiftedIn(turn.isr, bit)
      /\ next.miso = Append(turn.miso, Head(turn.osr))
      /\ next = [osr |-> next.osr, isr |-> next.isr, miso |-> next.miso]
  BY DEF BitLoop
<1> HIDE DEF next
<1>4. /\ next.osr \in Register
      /\ \A k \in 1 .. 31 : next.osr[k] = turn.osr[k + 1]
  BY <1>1, <1>3, ShiftedOutBits
<1>5. /\ next.isr \in Register
      /\ next.isr[1] = bit
      /\ \A k \in 2 .. 32 : next.isr[k] = turn.isr[k - 1]
  <2>1. turn.isr \in Register
    BY <1>1
  <2> DEFINE isr == turn.isr
  <2> HIDE DEF bit, isr
  <2>2. /\ ShiftedIn(isr, bit) \in Register
        /\ ShiftedIn(isr, bit)[1] = bit
        /\ \A k \in 2 .. 32 : ShiftedIn(isr, bit)[k] = isr[k - 1]
    BY <1>2, <2>1, ShiftedInBits DEF isr
  <2> QED
    BY <1>3, <2>2 DEF isr
<1>6. Head(turn.osr) = osr[n + 1] /\ Head(turn.osr) \in Bit
  <2>1. turn.osr \in Seq(Bit) /\ Len(turn.osr) = 32
    BY <1>1, RegisterSeq
  <2>2. Head(turn.osr) = turn.osr[1] /\ turn.osr[1] \in Bit
    BY <2>1
  <2>3. 1 \in 1 .. 32 - n /\ 1 + n = n + 1
    OBVIOUS
  <2> QED
    BY <1>1, <2>2, <2>3
<1>7. /\ next.miso \in Seq(Bit)
      /\ Len(next.miso) = n + 1
      /\ \A k \in 1 .. n : next.miso[k] = turn.miso[k]
      /\ next.miso[n + 1] = osr[n + 1]
  BY <1>1, <1>3, <1>6
<1>8. \A k \in 1 .. n + 1 : next.miso[k] = osr[k]
  BY <1>1, <1>7
<1>9. ASSUME NEW k \in 1 .. 32 - (n + 1)
      PROVE  next.osr[k] = osr[k + (n + 1)]
  <2>1. k \in 1 .. 31 /\ k + 1 \in 1 .. 32 - n /\ (k + 1) + n = k + (n + 1)
    OBVIOUS
  <2> QED
    BY <1>1, <1>4, <2>1
<1>10. ASSUME NEW k \in 1 .. n + 1
       PROVE  next.isr[k] = mosi[(n + 1) + 1 - k]
  <2>1. CASE k = 1
    <3>1. (n + 1) + 1 - 1 = n + 1
      OBVIOUS
    <3> QED
      BY <1>5, <2>1, <3>1
  <2>2. CASE k # 1
    <3>1. k \in 2 .. 32 /\ k - 1 \in 1 .. n /\ n + 1 - (k - 1) = (n + 1) + 1 - k
      BY <2>2
    <3> QED
      BY <1>1, <1>5, <3>1
  <2> QED
    BY <2>1, <2>2
<1>11. next \in [osr : Register, isr : Register, miso : Seq(Bit)]
  BY <1>3, <1>4, <1>5, <1>7
<1>12. TurnOK(next, osr, mosi, n + 1)
  BY <1>7, <1>8, <1>9, <1>10, <1>11 DEF TurnOK
<1> QED
  BY <1>12 DEF next

\* What the function in ByteLoop is defined by.
TurnsOf(turn, osr, mosi) ==
  turn = [bit \in 0 .. 8 |->
            IF bit = 0 THEN [osr |-> osr, isr |-> Zeros(WordLength), miso |-> <<>>]
            ELSE BitLoop(turn[bit - 1], Bits(mosi)[bit])]

\* X is a register in both of its values.
LEMMA ZerosRegister ==
  Zeros(WordLength) \in Register /\ Ones(WordLength) \in Register
BY DEF Zeros, Ones, Register, Bit

\* A byte loop presents the first eight bits of the OSR and keeps the byte's bits
\* in the reverse order.
LEMMA ByteLoopOK ==
  ASSUME NEW osr \in Register, NEW mosi \in Byte
  PROVE  TurnOK(ByteLoop(osr, mosi), osr, Bits(mosi), 8)
<1> DEFINE T == [osr : Register, isr : Register, miso : Seq(Bit)]
           first == [osr |-> osr, isr |-> Zeros(WordLength), miso |-> <<>>]
           bits == Bits(mosi)
           step == [n \in 1 .. 8 |-> [t \in T |-> BitLoop(t, bits[n])]]
<1>1. bits \in Octets /\ \A n \in 1 .. 8 : bits[n] \in Bit
  BY BitsType DEF Octets
<1>2. first \in T
  BY ZerosRegister
<1>3. ASSUME NEW t \in T, NEW bit \in Bit
      PROVE  BitLoop(t, bit) \in T
  <2>1. t.osr \in Register /\ t.isr \in Register /\ t.miso \in Seq(Bit)
    OBVIOUS
  <2>2. t.osr \in Seq(Bit) /\ Len(t.osr) = 32
    BY <2>1, RegisterSeq
  <2>3. Head(t.osr) \in Bit
    BY <2>2
  <2>4. Append(t.miso, Head(t.osr)) \in Seq(Bit)
    BY <2>1, <2>3
  <2> QED
    BY <2>1, <2>4, ShiftedOutBits, ShiftedInBits DEF BitLoop
<1> HIDE DEF first, bits
<1>4. step \in [1 .. 8 -> [T -> T]]
  <2> HIDE DEF T
  <2> QED
    BY <1>1, <1>3
<1>5. PICK run : run \in Runs(T, first, step, 8)
  <2>1. 8 \in Nat
    OBVIOUS
  <2> HIDE DEF step, T
  <2>2. Runs(T, first, step, 8) # {}
    BY <1>2, <1>4, <2>1, RunExists
  <2> QED
    BY <2>2
<1>6. /\ run \in [0 .. 8 -> T] /\ run[0] = first
      /\ \A n \in 1 .. 8 : run[n] = step[n][run[n - 1]]
  BY <1>5 DEF Runs
<1>7. \A n \in 1 .. 8 : run[n] = BitLoop(run[n - 1], bits[n])
  <2> HIDE DEF T
  <2> SUFFICES ASSUME NEW n \in 1 .. 8
               PROVE  run[n] = BitLoop(run[n - 1], bits[n])
    OBVIOUS
  <2>1. run[n - 1] \in T
    BY <1>6
  <2> QED
    BY <1>6, <2>1
<1>8. TurnsOf(run, osr, mosi)
  <2> HIDE DEF T, step
  <2>1. \A n \in 0 .. 8 : run[n] = IF n = 0 THEN first ELSE BitLoop(run[n - 1], bits[n])
    BY <1>6, <1>7
  <2>2. run = [n \in 0 .. 8 |-> run[n]]
    BY <1>6
  <2>3. run = [n \in 0 .. 8 |-> IF n = 0 THEN first ELSE BitLoop(run[n - 1], bits[n])]
    BY <2>1, <2>2
  <2> QED
    BY <2>3 DEF TurnsOf, first, bits
<1> DEFINE turn == CHOOSE turn : TurnsOf(turn, osr, mosi)
<1>9. TurnsOf(turn, osr, mosi)
  BY <1>8
<1>10. ByteLoop(osr, mosi) = turn[8]
  BY DEF ByteLoop, TurnsOf
<1> HIDE DEF turn, T, step
<1>11. /\ turn[0] = first
       /\ \A n \in 1 .. 8 : turn[n] = BitLoop(turn[n - 1], bits[n])
  <2>1. turn = [n \in 0 .. 8 |-> IF n = 0 THEN first ELSE BitLoop(turn[n - 1], bits[n])]
    BY <1>9 DEF TurnsOf, first, bits
  <2>2. \A n \in 1 .. 8 : n \in 0 .. 8 /\ n # 0
    OBVIOUS
  <2> QED
    BY <2>1, <2>2
<1>12. TurnOK(turn[0], osr, bits, 0)
  <2>1. /\ first \in [osr : Register, isr : Register, miso : Seq(Bit)]
        /\ first.osr = osr /\ first.miso = <<>> /\ Len(<<>>) = 0
    BY <1>2 DEF T, first
  <2>2. \A k \in 1 .. 32 - 0 : k + 0 = k
    OBVIOUS
  <2>3. 1 .. 0 = {}
    OBVIOUS
  <2> QED
    BY <1>11, <2>1, <2>2, <2>3 DEF TurnOK
<1>13. \A n \in 0 .. 7 : TurnOK(turn[n], osr, bits, n) => TurnOK(turn[n + 1], osr, bits, n + 1)
  <2> SUFFICES ASSUME NEW n \in 0 .. 7, TurnOK(turn[n], osr, bits, n)
               PROVE  TurnOK(turn[n + 1], osr, bits, n + 1)
    OBVIOUS
  <2>1. TurnOK(BitLoop(turn[n], bits[n + 1]), osr, bits, n + 1)
    BY <1>1, TurnStep
  <2>2. n + 1 \in 1 .. 8 /\ (n + 1) - 1 = n
    OBVIOUS
  <2> QED
    BY <1>11, <2>1, <2>2
<1>14. TurnOK(turn[4], osr, bits, 4)
  <2>1. TurnOK(turn[1], osr, bits, 1)
    BY <1>12, <1>13
  <2>2. TurnOK(turn[2], osr, bits, 2)
    BY <1>13, <2>1
  <2>3. TurnOK(turn[3], osr, bits, 3)
    BY <1>13, <2>2
  <2> QED
    BY <1>13, <2>3
<1>15. TurnOK(turn[8], osr, bits, 8)
  <2>1. TurnOK(turn[5], osr, bits, 5)
    BY <1>13, <1>14
  <2>2. TurnOK(turn[6], osr, bits, 6)
    BY <1>13, <2>1
  <2>3. TurnOK(turn[7], osr, bits, 7)
    BY <1>13, <2>2
  <2> QED
    BY <1>13, <2>3
<1> QED
  BY <1>10, <1>15 DEF bits
-----------------------------------------------------------------------------
(* One byte on the wire *)

\* The byte a register presents first.
First(word) == [k \in 1 .. 8 |-> word[k]]

\* What the master reads of a word, the bits of noise inverted.
ReadByte(word, noise) == ByteOf(Flipped(First(word), noise))

\* The byte stands in the first eight bits of its FIFO word.
LEMMA PutWordBits ==
  ASSUME NEW byte \in Byte
  PROVE  PutWord(byte) \in Register /\ First(PutWord(byte)) = Bits(byte)
<1> DEFINE bits == Bits(byte)
           zeros == Zeros(24)
<1>1. bits \in Octets /\ bits \in Seq(Bit) /\ Len(bits) = 8
  <2>1. bits \in [1 .. 8 -> Bit]
    BY BitsType DEF Octets
  <2>2. 8 \in Nat
    OBVIOUS
  <2> HIDE DEF bits
  <2> QED
    BY <2>1, <2>2, FunctionSeq DEF Octets
<1>2. zeros \in Seq(Bit) /\ Len(zeros) = 24
  <2>1. zeros \in [1 .. 24 -> Bit]
    BY DEF Zeros, Bit
  <2>2. 24 \in Nat
    OBVIOUS
  <2> HIDE DEF zeros
  <2> QED
    BY <2>1, <2>2, FunctionSeq
<1>3. PutWord(byte) = bits \o zeros
  <2>1. WordLength - 8 = 24
    BY DEF WordLength
  <2> QED
    BY <2>1 DEF PutWord
<1> HIDE DEF bits, zeros
<1> bits \in Seq(Bit) /\ zeros \in Seq(Bit)
  BY <1>1, <1>2
<1> DEFINE joined == bits \o zeros
           m == Len(bits)
<1>4. /\ joined \in Seq(Bit) /\ Len(joined) = m + Len(zeros)
      /\ \A k \in 1 .. m : joined[k] = bits[k]
  BY Joined
<1> HIDE DEF joined, m
<1>5. m = 8 /\ Len(joined) = 32
  BY <1>1, <1>2, <1>4 DEF m
<1>6. joined \in Register
  BY <1>4, <1>5, RegisterOf
<1>7. \A k \in 1 .. 8 : joined[k] = bits[k]
  BY <1>4, <1>5
<1>8. First(joined) = bits
  <2>1. First(joined) = [k \in 1 .. 8 |-> bits[k]]
    BY <1>7 DEF First
  <2> QED
    BY <1>1, <2>1 DEF Octets
<1> QED
  BY <1>3, <1>6, <1>8 DEF joined, bits

\* A byte read from the other end.
Reversed(byte) == ByteOf([k \in 1 .. 8 |-> Bits(byte)[9 - k]])

\* The first eight bits of a register are an octet.
LEMMA FirstType ==
  ASSUME NEW word \in Register
  PROVE  First(word) \in Octets
<1>1. \A k \in 1 .. 8 : word[k] \in Bit
  <2>1. \A k \in 1 .. 32 : word[k] \in Bit
    BY RegisterSeq
  <2>2. \A k \in 1 .. 8 : k \in 1 .. 32
    OBVIOUS
  <2> QED
    BY <2>1, <2>2
<1> QED
  BY <1>1 DEF First, Octets

\* Eight turns of bit_loop carry the word's first byte to the master.
LEMMA ByteOnWire ==
  ASSUME NEW word \in Register, NEW mosi \in Byte, NEW noise
  PROVE  LET byte == ByteLoop(word, mosi)
         IN  /\ ReceivedByte(byte.isr) \in Byte
             /\ ReceivedByte(byte.isr) = Reversed(mosi)
             /\ ByteOf([k \in 1 .. 8 |-> IF k \in noise THEN 1 - byte.miso[k] ELSE byte.miso[k]])
                  = ReadByte(word, noise)
<1> DEFINE byte == ByteLoop(word, mosi)
<1>1. TurnOK(byte, word, Bits(mosi), 8)
  BY ByteLoopOK
<1> HIDE DEF byte
<1>2. /\ byte.isr \in Register
      /\ \A k \in 1 .. 8 : byte.miso[k] = word[k]
      /\ \A k \in 1 .. 8 : byte.isr[k] = Bits(mosi)[8 + 1 - k]
  BY <1>1 DEF TurnOK
<1>3. ReceivedByte(byte.isr) \in Byte /\ ReceivedByte(byte.isr) = Reversed(mosi)
  <2> DEFINE isr == byte.isr
  <2>1. \A k \in 1 .. 32 : isr[k] \in Bit
    BY <1>2, RegisterSeq
  <2> HIDE DEF isr
  <2>2. \A k \in 1 .. 8 : isr[k] \in Bit
    <3>1. \A k \in 1 .. 8 : k \in 1 .. 32
      OBVIOUS
    <3> QED
      BY <2>1, <3>1
  <2> DEFINE top == SubSeq(isr, 1, 8)
  <2>3. top \in Seq(Bit) /\ Len(top) = 8 /\ \A k \in 1 .. 8 : top[k] = isr[k]
    <3>1. 1 \in Int /\ 8 \in Int
      OBVIOUS
    <3>2. \A k \in 1 .. 8 : isr[k] \in Bit
      BY <2>2
    <3>3. /\ top \in Seq(Bit)
          /\ Len(top) = IF 1 <= 8 THEN 8 - 1 + 1 ELSE 0
          /\ \A k \in 1 .. 8 - 1 + 1 : top[k] = isr[1 + k - 1]
      BY <3>1, <3>2, SubSeqProperties
    <3> HIDE DEF top
    <3> QED
      BY <3>3
  <2> HIDE DEF top
  <2>4. top \in [1 .. Len(top) -> Bit]
    BY <2>3, LenProperties
  <2>5. top \in Octets
    BY <2>3, <2>4 DEF Octets
  <2>6. top = [k \in 1 .. 8 |-> Bits(mosi)[9 - k]]
    <3>1. \A k \in 1 .. 8 : 8 + 1 - k = 9 - k
      OBVIOUS
    <3>2. \A k \in 1 .. 8 : top[k] = Bits(mosi)[9 - k]
      BY <1>2, <2>3, <3>1 DEF isr
    <3> QED
      BY <2>5, <3>2 DEF Octets
  <2>7. ReceivedByte(byte.isr) = ByteOf(top)
    BY DEF ReceivedByte, top, isr
  <2> QED
    BY <2>5, <2>6, <2>7, ByteOfType DEF Reversed
<1>4. [k \in 1 .. 8 |-> IF k \in noise THEN 1 - byte.miso[k] ELSE byte.miso[k]]
        = Flipped(First(word), noise)
  BY <1>2 DEF Flipped, First
<1> QED
  BY <1>3, <1>4 DEF byte, ReadByte

\* Noise shows as the difference between what is read and what was sent, and
\* without noise there is none.
LEMMA ReadByteOf ==
  ASSUME NEW word \in Register, NEW noise
  PROVE  /\ ReadByte(word, noise) \in Byte
         /\ Xor(ReadByte(word, noise), ByteOf(First(word))) = Error(noise)
         /\ noise = {} => ReadByte(word, noise) = ByteOf(First(word))
<1>1. First(word) \in Octets
  BY FirstType
<1> QED
  BY <1>1, FlippedError, ByteOfType DEF ReadByte

\* The byte put into a word is the one that leaves it.
LEMMA SentByte ==
  ASSUME NEW byte \in Byte
  PROVE  ByteOf(First(PutWord(byte))) = byte
BY PutWordBits, ByteOfBits

\* What leaves X.
LEMMA FillerByte ==
  ByteOf(First(Ones(WordLength))) = 255 /\ ByteOf(First(Zeros(WordLength))) = 0
<1>1. \A k \in 1 .. 8 : First(Ones(WordLength))[k] = 1 /\ First(Zeros(WordLength))[k] = 0
  BY DEF First, Ones, Zeros, WordLength
<1>2. First(Ones(WordLength))[1] = 1 /\ First(Ones(WordLength))[2] = 1
      /\ First(Ones(WordLength))[3] = 1 /\ First(Ones(WordLength))[4] = 1
      /\ First(Ones(WordLength))[5] = 1 /\ First(Ones(WordLength))[6] = 1
      /\ First(Ones(WordLength))[7] = 1 /\ First(Ones(WordLength))[8] = 1
  BY <1>1
<1>3. First(Zeros(WordLength))[1] = 0 /\ First(Zeros(WordLength))[2] = 0
      /\ First(Zeros(WordLength))[3] = 0 /\ First(Zeros(WordLength))[4] = 0
      /\ First(Zeros(WordLength))[5] = 0 /\ First(Zeros(WordLength))[6] = 0
      /\ First(Zeros(WordLength))[7] = 0 /\ First(Zeros(WordLength))[8] = 0
  BY <1>1
<1> QED
  BY <1>2, <1>3 DEF ByteOf

\* Four elements make a set of cardinality 4.
LEMMA FourElements ==
  ASSUME NEW a, NEW b, NEW c, NEW d, a # b, a # c, a # d, b # c, b # d, c # d
  PROVE  IsFiniteSet({a, b, c, d}) /\ Cardinality({a, b, c, d}) = 4
<1>1. IsFiniteSet({a}) /\ Cardinality({a}) = 1
  BY FS_Singleton
<1>2. IsFiniteSet({a} \cup {b}) /\ Cardinality({a} \cup {b}) = 2
  <2>1. b \notin {a}
    OBVIOUS
  <2>2. IsFiniteSet({a} \cup {b}) /\ Cardinality({a} \cup {b}) = Cardinality({a}) + 1
    BY <1>1, <2>1, FS_AddElement
  <2> QED
    BY <1>1, <2>2
<1> DEFINE two == {a} \cup {b}
           three == two \cup {c}
<1>3. c \notin two /\ d \notin three
  OBVIOUS
<1>4. {a, b, c, d} = three \cup {d}
  OBVIOUS
<1>5. IsFiniteSet(two) /\ Cardinality(two) = 2
  BY <1>2
<1> HIDE DEF two
<1>6. IsFiniteSet(three) /\ Cardinality(three) = Cardinality(two) + 1
  BY <1>3, <1>5, FS_AddElement
<1> HIDE DEF three
<1>7. IsFiniteSet(three \cup {d}) /\ Cardinality(three \cup {d}) = Cardinality(three) + 1
  BY <1>3, <1>6, FS_AddElement
<1> QED
  BY <1>4, <1>5, <1>6, <1>7

\* Neither filler is closer than four bits to the sync byte.
LEMMA FillerIsNoSync ==
  ASSUME NEW word \in {Zeros(WordLength), Ones(WordLength)},
         NEW noise \in SUBSET (1 .. 8), Cardinality(noise) <= 3
  PROVE  ReadByte(word, noise) # SyncByte
<1> SUFFICES ASSUME ReadByte(word, noise) = SyncByte
             PROVE  FALSE
  OBVIOUS
<1> DEFINE sync == <<1, 0, 1, 0, 0, 1, 0, 1>>
           bits == Flipped(First(word), noise)
<1>1. sync \in Octets
  BY OctetOf DEF Bit
<1>2. ByteOf(sync) = SyncByte
  BY DEF ByteOf, SyncByte
<1>3. bits \in Octets
  <2>1. word \in Register
    BY ZerosRegister
  <2> QED
    BY <2>1, FirstType, FlippedError
<1>4. bits = sync
  <2>1. ByteOf(bits) = ByteOf(sync)
    BY <1>2 DEF ReadByte
  <2> HIDE DEF bits, sync
  <2> QED
    BY <1>1, <1>3, <2>1, BitsOfByte
<1>5. bits[1] = 1 /\ bits[2] = 0 /\ bits[3] = 1
  BY <1>4
<1>6. bits[4] = 0 /\ bits[5] = 0 /\ bits[6] = 1
  BY <1>4
<1>7. bits[7] = 0 /\ bits[8] = 1
  BY <1>4
<1> HIDE DEF sync
<1>8. \A k \in 1 .. 8 : bits[k] = IF k \in noise THEN 1 - word[k] ELSE word[k]
  BY DEF Flipped, First
<1> HIDE DEF bits
<1>9. IsFiniteSet(noise)
  BY NoiseParity
<1>10. CASE word = Zeros(WordLength)
  <2>1. \A k \in 1 .. 8 : word[k] = 0
    BY <1>10 DEF Zeros, WordLength
  <2>2. {1, 3, 6, 8} \subseteq noise
    BY <1>5, <1>6, <1>7, <1>8, <2>1
  <2>3. Cardinality({1, 3, 6, 8}) = 4 /\ IsFiniteSet({1, 3, 6, 8})
    <3> DEFINE a == 1
               b == 3
               c == 6
               d == 8
    <3>1. a # b /\ a # c /\ a # d /\ b # c /\ b # d /\ c # d
      OBVIOUS
    <3> HIDE DEF a, b, c, d
    <3>2. IsFiniteSet({a, b, c, d}) /\ Cardinality({a, b, c, d}) = 4
      BY <3>1, FourElements
    <3> QED
      BY <3>2 DEF a, b, c, d
  <2> QED
    BY <1>9, <2>2, <2>3, FS_Subset, FS_CardinalityType
<1>11. CASE word = Ones(WordLength)
  <2>1. \A k \in 1 .. 8 : word[k] = 1
    BY <1>11 DEF Ones, WordLength
  <2>2. {2, 4, 5, 7} \subseteq noise
    BY <1>5, <1>6, <1>7, <1>8, <2>1
  <2>3. Cardinality({2, 4, 5, 7}) = 4 /\ IsFiniteSet({2, 4, 5, 7})
    <3> DEFINE a == 2
               b == 4
               c == 5
               d == 7
    <3>1. a # b /\ a # c /\ a # d /\ b # c /\ b # d /\ c # d
      OBVIOUS
    <3> HIDE DEF a, b, c, d
    <3>2. IsFiniteSet({a, b, c, d}) /\ Cardinality({a, b, c, d}) = 4
      BY <3>1, FourElements
    <3> QED
      BY <3>2 DEF a, b, c, d
  <2> QED
    BY <1>9, <2>2, <2>3, FS_Subset, FS_CardinalityType
<1> QED
  BY <1>10, <1>11
-----------------------------------------------------------------------------
(* Packets *)

\* Append on bytes.
LEMMA Appended ==
  ASSUME NEW s \in Seq(Byte), NEW last \in Byte
  PROVE  /\ Append(s, last) \in Seq(Byte) /\ Len(Append(s, last)) = Len(s) + 1
         /\ \A n \in 1 .. Len(s) : Append(s, last)[n] = s[n]
         /\ Append(s, last)[Len(s) + 1] = last
BY AppendProperties

\* Joined, on bytes.
LEMMA JoinedBytes ==
  ASSUME NEW s \in Seq(Byte), NEW t \in Seq(Byte)
  PROVE  /\ s \o t \in Seq(Byte) /\ Len(s \o t) = Len(s) + Len(t)
         /\ \A k \in 1 .. Len(s) : (s \o t)[k] = s[k]
         /\ \A k \in 1 .. Len(t) : (s \o t)[Len(s) + k] = t[k]
BY Joined

\* Four bytes before three.
LEMMA FourAndThree ==
  ASSUME NEW s \in Seq(Byte), NEW t \in Seq(Byte), Len(s) = 4, Len(t) = 3
  PROVE  /\ s \o t \in Seq(Byte) /\ Len(s \o t) = 7
         /\ \A k \in 1 .. 4 : (s \o t)[k] = s[k]
         /\ \A k \in 1 .. 3 : (s \o t)[4 + k] = t[k]
<1>1. /\ s \o t \in Seq(Byte) /\ Len(s \o t) = Len(s) + Len(t)
      /\ \A k \in 1 .. Len(s) : (s \o t)[k] = s[k]
      /\ \A k \in 1 .. Len(t) : (s \o t)[Len(s) + k] = t[k]
  BY JoinedBytes
<1> QED
  BY <1>1

\* One byte behind seven.
LEMMA AppendedTo ==
  ASSUME NEW s \in Seq(Byte), Len(s) = 7, NEW last \in Byte
  PROVE  /\ Append(s, last) \in Seq(Byte) /\ Len(Append(s, last)) = 8
         /\ \A n \in 1 .. 7 : Append(s, last)[n] = s[n]
         /\ Append(s, last)[8] = last
<1>1. /\ Append(s, last) \in Seq(Byte) /\ Len(Append(s, last)) = Len(s) + 1
      /\ \A n \in 1 .. Len(s) : Append(s, last)[n] = s[n]
      /\ Append(s, last)[Len(s) + 1] = last
  BY Appended
<1> QED
  BY <1>1

\* Eight bytes.
Packets == {packet \in Seq(Byte) : Len(packet) = 8}

\* A packet has eight bytes.
LEMMA PacketBytes ==
  ASSUME NEW packet \in Packets
  PROVE  /\ packet \in Seq(Byte) /\ Len(packet) = 8
         /\ \A n \in 1 .. 8 : packet[n] \in Byte
<1>1. packet \in Seq(Byte) /\ Len(packet) = 8
  BY DEF Packets
<1>2. packet \in [1 .. Len(packet) -> Byte]
  BY <1>1, LenProperties
<1> QED
  BY <1>1, <1>2

\* The bytes before the CRC.
LEMMA PacketHead ==
  ASSUME NEW packet \in Packets
  PROVE  /\ SubSeq(packet, 1, 7) \in Seq(Byte)
         /\ Len(SubSeq(packet, 1, 7)) = 7
         /\ \A n \in 1 .. 7 : SubSeq(packet, 1, 7)[n] = packet[n]
         /\ packet = Append(SubSeq(packet, 1, 7), packet[8])
<1> DEFINE head == SubSeq(packet, 1, 7)
<1>1. /\ packet \in Seq(Byte) /\ Len(packet) = 8
      /\ \A n \in 1 .. 8 : packet[n] \in Byte
  BY PacketBytes
<1>2. head \in Seq(Byte) /\ Len(head) = 7 /\ \A n \in 1 .. 7 : head[n] = packet[n]
  <2>1. 1 \in Int /\ 7 \in Int
    OBVIOUS
  <2>2. \A n \in 1 .. 7 : packet[n] \in Byte
    <3>1. \A n \in 1 .. 7 : n \in 1 .. 8
      OBVIOUS
    <3> QED
      BY <1>1, <3>1
  <2>3. /\ head \in Seq(Byte)
        /\ Len(head) = IF 1 <= 7 THEN 7 - 1 + 1 ELSE 0
        /\ \A n \in 1 .. 7 - 1 + 1 : head[n] = packet[1 + n - 1]
    BY <2>1, <2>2, SubSeqProperties
  <2> HIDE DEF head
  <2> QED
    BY <2>3
<1> HIDE DEF head
<1>3. packet = Append(head, packet[8])
  <2> DEFINE last == packet[8]
             whole == Append(head, last)
  <2>1. last \in Byte
    BY <1>1
  <2> HIDE DEF last
  <2>2. /\ whole \in Seq(Byte) /\ Len(whole) = 8
        /\ \A n \in 1 .. 7 : whole[n] = head[n]
        /\ whole[8] = last
    BY <1>2, <2>1, AppendedTo
  <2> HIDE DEF whole
  <2>3. \A n \in 1 .. 8 : whole[n] = packet[n]
    <3>1. \A n \in 1 .. 8 : n \in 1 .. 7 \/ n = 8
      OBVIOUS
    <3> QED
      BY <1>2, <2>2, <3>1 DEF last
  <2>4. whole = packet
    BY <1>1, <2>2, <2>3, SeqEqual
  <2> QED
    BY <2>4 DEF whole, last
<1> QED
  BY <1>2, <1>3 DEF head

\* The CRC over all eight bytes is 0 when the last byte is the CRC of the others.
LEMMA CrcOfPacket ==
  ASSUME NEW packet \in Packets
  PROVE  Crc8(packet) = 0 <=> packet[8] = Crc8(SubSeq(packet, 1, 7))
<1> DEFINE head == SubSeq(packet, 1, 7)
           crc == Crc8(head)
           last == packet[8]
<1>1. head \in Seq(Byte) /\ packet = Append(head, last)
  BY PacketHead
<1>2. last \in Byte
  BY PacketBytes
<1> HIDE DEF head, last
<1>3. crc \in Byte /\ Crc8(Append(head, last)) = CrcOfByte[Xor(crc, last)]
  BY <1>1, <1>2, Crc8Append
<1> HIDE DEF crc
<1>4. /\ Xor(crc, last) \in Byte
      /\ Xor(crc, last) = 0 => crc = last
      /\ crc = last => Xor(crc, last) = 0
  BY <1>2, <1>3, XorRules
<1>5. CrcOfByte[Xor(crc, last)] = 0 <=> Xor(crc, last) = 0
  BY <1>4, CrcOfZero
<1>6. Crc8(packet) = CrcOfByte[Xor(crc, last)]
  BY <1>1, <1>3
<1>7. Crc8(packet) = 0 <=> last = crc
  BY <1>4, <1>5, <1>6
<1> QED
  BY <1>7 DEF last, crc, head

\* What every builder lays out.
LEMMA MakePacketFields ==
  ASSUME NEW type \in DOMAIN TypeByte, NEW index \in Byte, NEW data \in Seq(Byte),
         Len(data) = 3
  PROVE  LET packet == MakePacket(type, index, data)
         IN  /\ packet \in Packets
             /\ packet[1] = SyncByte /\ packet[2] = Version
             /\ packet[3] = TypeByte[type] /\ packet[4] = index
             /\ packet[5] = data[1] /\ packet[6] = data[2] /\ packet[7] = data[3]
             /\ packet[8] = Crc8(SubSeq(packet, 1, 7))
<1> DEFINE envelope == <<SyncByte, Version, TypeByte[type], index>>
           head == envelope \o data
           packet == Append(head, Crc8(head))
<1>1. TypeByte[type] \in Byte
  <2>1. TypeByte \in [DOMAIN TypeByte -> Byte]
    BY DEF TypeByte, Byte
  <2> QED
    BY <2>1
<1>2. /\ envelope \in Seq(Byte) /\ Len(envelope) = 4
      /\ envelope[1] = SyncByte /\ envelope[2] = Version
      /\ envelope[3] = TypeByte[type] /\ envelope[4] = index
  BY <1>1 DEF SyncByte, Version, Byte
<1> HIDE DEF envelope
<1> envelope \in Seq(Byte)
  BY <1>2
<1>3. /\ head \in Seq(Byte) /\ Len(head) = 7
      /\ \A n \in 1 .. 4 : head[n] = envelope[n]
      /\ \A n \in 1 .. 3 : head[4 + n] = data[n]
  BY <1>2, FourAndThree
<1> HIDE DEF head
<1>4. Crc8(head) \in Byte
  <2>1. 0 \in Byte
    BY DEF Byte
  <2> QED
    BY <1>3, <2>1, Crc8Append
<1> DEFINE crc == Crc8(head)
<1> HIDE DEF crc
<1>5. /\ Append(head, crc) \in Seq(Byte) /\ Len(Append(head, crc)) = 8
      /\ \A n \in 1 .. 7 : Append(head, crc)[n] = head[n]
      /\ Append(head, crc)[8] = crc
  BY <1>3, <1>4, AppendedTo DEF crc
<1>6. packet = Append(head, crc)
  BY DEF crc
<1> HIDE DEF packet
<1>7. packet \in Packets
  BY <1>5, <1>6 DEF Packets
<1>8. /\ packet[1] = SyncByte /\ packet[2] = Version
      /\ packet[3] = TypeByte[type] /\ packet[4] = index
  BY <1>2, <1>3, <1>5, <1>6
<1>9. packet[5] = data[1] /\ packet[6] = data[2] /\ packet[7] = data[3]
  <2>1. head[4 + 1] = data[1] /\ head[4 + 2] = data[2] /\ head[4 + 3] = data[3]
    BY <1>3
  <2>2. packet[5] = head[5] /\ packet[6] = head[6] /\ packet[7] = head[7]
    BY <1>5, <1>6
  <2> QED
    BY <2>1, <2>2
<1>10. SubSeq(packet, 1, 7) = head
  <2>1. /\ SubSeq(packet, 1, 7) \in Seq(Byte) /\ Len(SubSeq(packet, 1, 7)) = 7
        /\ \A n \in 1 .. 7 : SubSeq(packet, 1, 7)[n] = packet[n]
    BY <1>7, PacketHead
  <2> DEFINE front == SubSeq(packet, 1, 7)
  <2> HIDE DEF front
  <2>2. front \in Seq(Byte) /\ Len(front) = 7 /\ \A n \in 1 .. 7 : front[n] = head[n]
    BY <1>5, <1>6, <2>1 DEF front
  <2>3. front = head
    BY <1>3, <2>2, SeqEqual
  <2> QED
    BY <2>3 DEF front
<1>11. packet[8] = Crc8(SubSeq(packet, 1, 7))
  BY <1>5, <1>6, <1>10 DEF crc
<1> QED
  BY <1>7, <1>8, <1>9, <1>11 DEF packet, head, envelope, MakePacket
-----------------------------------------------------------------------------
(* What the firmware builds *)

\* The three kinds of responses.
LEMMA ResponseKinds ==
  ASSUME NEW response \in Responses
  PROVE  \/ /\ response.type = "EncoderState"
            /\ response.index \in Byte /\ response.value \in Int
         \/ /\ response.type = "ButtonState"
            /\ response.value \in Byte /\ response.longHeld \in Byte
         \/ /\ response.type \in {"SnapshotBegin", "SnapshotEnd"}
            /\ response.value \in Byte
<1>1. \/ response \in [type : {"EncoderState"}, index : Byte, value : Int]
      \/ response \in [type : {"ButtonState"}, value : Byte, longHeld : Byte]
      \/ response \in [type : {"SnapshotBegin", "SnapshotEnd"}, value : Byte]
  BY WireAssumption
<1> QED
  BY <1>1

\* The low three bytes of a number.
LEMMA ByteAtValues ==
  ASSUME NEW number \in Int
  PROVE  /\ ByteAt(number, 0) = number % 256
         /\ ByteAt(number, 1) = (number \div 256) % 256
         /\ ByteAt(number, 2) = (number \div 65536) % 256
         /\ \A n \in 0 .. 2 : ByteAt(number, n) \in Byte
<1>1. ByteAt(number, 0) = number % 256
  <2>1. number \div 1 = number
    OBVIOUS
  <2> QED
    BY <2>1 DEF ByteAt
<1>2. ByteAt(number, 1) = (number \div 256) % 256
  BY DEF ByteAt
<1>3. ByteAt(number, 2) = (number \div 65536) % 256
  BY DEF ByteAt
<1>4. number % 256 \in Byte /\ (number \div 256) % 256 \in Byte
      /\ (number \div 65536) % 256 \in Byte
  BY DEF Byte
<1>5. \A n \in 0 .. 2 : n = 0 \/ n = 1 \/ n = 2
  OBVIOUS
<1> QED
  BY <1>1, <1>2, <1>3, <1>4, <1>5

\* And multiplies the bits of two bytes.
LEMMA AndBits ==
  ASSUME NEW a \in Byte, NEW b \in Byte
  PROVE  /\ And(a, b) \in Byte
         /\ \A k \in 1 .. 8 : Bits(And(a, b))[k] = Bits(a)[k] * Bits(b)[k]
<1> DEFINE bits == [k \in 1 .. 8 |-> Bits(a)[k] * Bits(b)[k]]
<1>1. bits \in Octets
  <2>1. \A k \in 1 .. 8 : Bits(a)[k] \in {0, 1} /\ Bits(b)[k] \in {0, 1}
    BY BitsType DEF Octets, Bit
  <2>2. \A k \in 1 .. 8 : Bits(a)[k] * Bits(b)[k] \in {0, 1}
    BY <2>1
  <2> QED
    BY <2>2 DEF Octets, Bit
<1>2. And(a, b) = ByteOf(bits)
  BY DEF And
<1>3. \A k \in 1 .. 8 : bits[k] = Bits(a)[k] * Bits(b)[k]
  OBVIOUS
<1> HIDE DEF bits
<1> QED
  BY <1>1, <1>2, <1>3, ByteOfType, BitsOfByte

\* The data of a packet.
LEMMA ThreeBytes ==
  ASSUME NEW a \in Byte, NEW b \in Byte, NEW c \in Byte
  PROVE  /\ <<a, b, c>> \in Seq(Byte) /\ Len(<<a, b, c>>) = 3
         /\ <<a, b, c>>[1] = a /\ <<a, b, c>>[2] = b /\ <<a, b, c>>[3] = c
OBVIOUS

\* clampSigned24 gives the nearest count of 24 bits.
LEMMA Clamped ==
  ASSUME NEW value \in Int
  PROVE  /\ ClampSigned24(value) \in Signed24Minimum .. Signed24Maximum
         /\ ClampSigned24(value) \in Int
         /\ Nearest(ClampSigned24(value), value)
         /\ value \in Signed24Minimum .. Signed24Maximum => ClampSigned24(value) = value
<1>1. Signed24Minimum \in Int /\ Signed24Maximum \in Int /\ Signed24Minimum < Signed24Maximum
  BY SMT DEF Signed24Minimum, Signed24Maximum
<1>2. CASE value < Signed24Minimum
  BY <1>1, <1>2, SMT DEF ClampSigned24, Nearest
<1>3. CASE value > Signed24Maximum
  BY <1>1, <1>3, SMT DEF ClampSigned24, Nearest
<1>4. CASE ~(value < Signed24Minimum) /\ ~(value > Signed24Maximum)
  BY <1>1, <1>4, SMT DEF ClampSigned24, Nearest
<1> QED
  BY <1>2, <1>3, <1>4

\* The three bytes of a count, by either builder of the repository.
LEMMA WrittenCount ==
  ASSUME NEW count \in Int, NEW data, data = [n \in 1 .. 3 |-> ByteAt(count, n - 1)]
  PROVE  /\ data \in Seq(Byte) /\ Len(data) = 3
         /\ data[1] = count % 256
         /\ data[2] = (count \div 256) % 256
         /\ data[3] = (count \div 65536) % 256
<1>1. \A n \in 1 .. 3 : n - 1 \in 0 .. 2
  OBVIOUS
<1>2. data \in [1 .. 3 -> Byte]
  BY <1>1, ByteAtValues
<1>3. 3 \in Nat
  OBVIOUS
<1>4. data \in Seq(Byte) /\ Len(data) = 3
  BY <1>2, <1>3, FunctionSeq
<1>5. data[1] = ByteAt(count, 0) /\ data[2] = ByteAt(count, 1) /\ data[3] = ByteAt(count, 2)
  OBVIOUS
<1> QED
  BY <1>4, <1>5, ByteAtValues

\* The constant part of a packet of a type.
EnvelopeOK(packet, type) ==
  /\ packet \in Packets
  /\ packet[1] = SyncByte
  /\ packet[2] = Version
  /\ packet[3] = TypeByte[type]
  /\ packet[8] = Crc8(SubSeq(packet, 1, 7))

\* The fields of makeEncoderState.
LEMMA EncoderPacket ==
  ASSUME NEW index \in Byte, NEW value \in Int
  PROVE  LET packet == MakeEncoderState(index, value)
             count == ClampSigned24(value)
         IN  /\ EnvelopeOK(packet, "EncoderState")
             /\ packet[4] = index
             /\ packet[5] = count % 256
             /\ packet[6] = (count \div 256) % 256
             /\ packet[7] = (count \div 65536) % 256
<1> DEFINE count == ClampSigned24(value)
           data == WriteSigned24(value)
           packet == MakePacket("EncoderState", index, data)
<1>1. count \in Int /\ data = [n \in 1 .. 3 |-> ByteAt(count, n - 1)]
  BY Clamped DEF WriteSigned24
<1>2. "EncoderState" \in DOMAIN TypeByte
  BY DEF TypeByte
<1>3. MakeEncoderState(index, value) = packet
  BY DEF MakeEncoderState
<1> HIDE DEF count, data
<1>4. /\ data \in Seq(Byte) /\ Len(data) = 3
      /\ data[1] = count % 256
      /\ data[2] = (count \div 256) % 256
      /\ data[3] = (count \div 65536) % 256
  BY <1>1, WrittenCount
<1>5. /\ packet \in Packets
      /\ packet[1] = SyncByte /\ packet[2] = Version
      /\ packet[3] = TypeByte["EncoderState"] /\ packet[4] = index
      /\ packet[5] = data[1] /\ packet[6] = data[2] /\ packet[7] = data[3]
      /\ packet[8] = Crc8(SubSeq(packet, 1, 7))
  BY <1>2, <1>4, MakePacketFields
<1> HIDE DEF packet
<1>6. EnvelopeOK(packet, "EncoderState")
  BY <1>5 DEF EnvelopeOK
<1> QED
  BY <1>3, <1>4, <1>5, <1>6 DEF count

\* The fields of makeButtonState.
LEMMA ButtonPacket ==
  ASSUME NEW pressed \in Byte, NEW longHeld \in Byte
  PROVE  LET packet == MakeButtonState(pressed, longHeld)
         IN  /\ EnvelopeOK(packet, "ButtonState")
             /\ packet[4] = ControlCount
             /\ packet[5] = And(pressed, ValidControlMask)
             /\ packet[6] = And(longHeld, ValidControlMask)
             /\ packet[7] = ControlCount
<1> DEFINE p == And(pressed, ValidControlMask)
           h == And(longHeld, ValidControlMask)
           data == <<p, h, ControlCount>>
           packet == MakePacket("ButtonState", ControlCount, data)
<1>1. ValidControlMask \in Byte /\ ControlCount \in Byte
  BY DEF ValidControlMask, ControlCount, Byte
<1>2. p \in Byte /\ h \in Byte
  BY <1>1, AndBits
<1>3. "ButtonState" \in DOMAIN TypeByte
  BY DEF TypeByte
<1>4. MakeButtonState(pressed, longHeld) = packet
  BY DEF MakeButtonState
<1> HIDE DEF p, h
<1>5. /\ data \in Seq(Byte) /\ Len(data) = 3
      /\ data[1] = p /\ data[2] = h /\ data[3] = ControlCount
  BY <1>1, <1>2, ThreeBytes
<1> HIDE DEF data
<1>6. /\ packet \in Packets
      /\ packet[1] = SyncByte /\ packet[2] = Version
      /\ packet[3] = TypeByte["ButtonState"] /\ packet[4] = ControlCount
      /\ packet[5] = data[1] /\ packet[6] = data[2] /\ packet[7] = data[3]
      /\ packet[8] = Crc8(SubSeq(packet, 1, 7))
  BY <1>1, <1>3, <1>5, MakePacketFields
<1> HIDE DEF packet
<1>7. EnvelopeOK(packet, "ButtonState")
  BY <1>6 DEF EnvelopeOK
<1> QED
  BY <1>4, <1>5, <1>6, <1>7 DEF p, h

\* The fields of makeSnapshotBoundary.
LEMMA BoundaryPacket ==
  ASSUME NEW type \in {"SnapshotBegin", "SnapshotEnd"}, NEW sequence \in Byte
  PROVE  LET packet == MakeSnapshotBoundary(type, sequence)
         IN  /\ EnvelopeOK(packet, type)
             /\ packet[4] = ControlCount
             /\ packet[5] = sequence /\ packet[6] = 0 /\ packet[7] = 0
<1> DEFINE data == <<sequence, 0, 0>>
           packet == MakePacket(type, ControlCount, data)
<1>1. 0 \in Byte /\ ControlCount \in Byte
  BY DEF ControlCount, Byte
<1>2. type \in DOMAIN TypeByte
  BY DEF TypeByte
<1>3. MakeSnapshotBoundary(type, sequence) = packet
  BY DEF MakeSnapshotBoundary
<1>4. /\ data \in Seq(Byte) /\ Len(data) = 3
      /\ data[1] = sequence /\ data[2] = 0 /\ data[3] = 0
  BY <1>1, ThreeBytes
<1> HIDE DEF data
<1>5. /\ packet \in Packets
      /\ packet[1] = SyncByte /\ packet[2] = Version
      /\ packet[3] = TypeByte[type] /\ packet[4] = ControlCount
      /\ packet[5] = data[1] /\ packet[6] = data[2] /\ packet[7] = data[3]
      /\ packet[8] = Crc8(SubSeq(packet, 1, 7))
  BY <1>1, <1>2, <1>4, MakePacketFields
<1> HIDE DEF packet
<1>6. EnvelopeOK(packet, type)
  BY <1>5 DEF EnvelopeOK
<1> QED
  BY <1>3, <1>4, <1>5, <1>6

\* Every response is a packet that passes the master's checks.
LEMMA BuiltPacket ==
  ASSUME NEW response \in Responses
  PROVE  /\ EnvelopeOK(Built(response), response.type)
         /\ Built(response) \in Packets
         /\ Crc8(Built(response)) = 0
         /\ McmSpiPacketIsValid(Built(response))
<1>1. EnvelopeOK(Built(response), response.type)
  <2>1. CASE response.type = "EncoderState"
    <3>1. response.index \in Byte /\ response.value \in Int
      BY <2>1, ResponseKinds
    <3>2. EnvelopeOK(MakeEncoderState(response.index, response.value), "EncoderState")
      BY <3>1, EncoderPacket
    <3> QED
      BY <2>1, <3>2 DEF Built
  <2>2. CASE response.type = "ButtonState"
    <3>1. response.value \in Byte /\ response.longHeld \in Byte
      BY <2>2, ResponseKinds
    <3>2. EnvelopeOK(MakeButtonState(response.value, response.longHeld), "ButtonState")
      BY <3>1, ButtonPacket
    <3> QED
      BY <2>2, <3>2 DEF Built
  <2>3. CASE response.type \in {"SnapshotBegin", "SnapshotEnd"}
    <3>1. response.value \in Byte
      BY <2>3, ResponseKinds
    <3>2. EnvelopeOK(MakeSnapshotBoundary(response.type, response.value), response.type)
      BY <2>3, <3>1, BoundaryPacket
    <3> QED
      BY <2>3, <3>2 DEF Built
  <2> QED
    BY <2>1, <2>2, <2>3, ResponseKinds
<1> DEFINE packet == Built(response)
<1> HIDE DEF packet
<1>2. /\ packet \in Packets /\ packet[1] = SyncByte /\ packet[2] = Version
      /\ packet[8] = Crc8(SubSeq(packet, 1, 7))
  BY <1>1 DEF EnvelopeOK, packet
<1>3. Crc8(packet) = 0 /\ McmSpiPacketIsValid(packet)
  BY <1>2, CrcOfPacket, McmSpiCrc8IsCrc8 DEF McmSpiPacketIsValid
<1> QED
  BY <1>1, <1>2, <1>3 DEF packet

\* A packet the master accepts has the CRC of its other bytes.
LEMMA ValidPacketCrc ==
  ASSUME NEW packet \in Packets, McmSpiPacketIsValid(packet)
  PROVE  Crc8(packet) = 0 /\ packet[1] = SyncByte /\ packet[2] = Version
BY CrcOfPacket, McmSpiCrc8IsCrc8 DEF McmSpiPacketIsValid

\* The bytes of a packet that are fed in time.
LEMMA FedPrefix ==
  ASSUME NEW packet \in Packets, NEW n \in 1 .. 8
  PROVE  /\ SubSeq(packet, 1, n) \in Seq(Byte)
         /\ Len(SubSeq(packet, 1, n)) = n
         /\ \A k \in 1 .. n : SubSeq(packet, 1, n)[k] = packet[k]
         /\ n = 8 => SubSeq(packet, 1, n) = packet
<1>1. /\ packet \in Seq(Byte) /\ Len(packet) = 8
      /\ \A k \in 1 .. 8 : packet[k] \in Byte
  BY PacketBytes
<1> DEFINE part == SubSeq(packet, 1, n)
<1>2. /\ part \in Seq(Byte)
      /\ Len(part) = IF 1 <= n THEN n - 1 + 1 ELSE 0
      /\ \A k \in 1 .. n - 1 + 1 : part[k] = packet[1 + k - 1]
  <2>1. 1 \in Int /\ n \in Int
    OBVIOUS
  <2>2. \A k \in 1 .. n : packet[k] \in Byte
    BY <1>1
  <2> QED
    BY <2>1, <2>2, SubSeqProperties
<1> HIDE DEF part
<1>3. part \in Seq(Byte) /\ Len(part) = n /\ \A k \in 1 .. n : part[k] = packet[k]
  BY <1>2
<1>4. n = 8 => part = packet
  BY <1>1, <1>3, SeqEqual
<1> QED
  BY <1>3, <1>4 DEF part
-----------------------------------------------------------------------------
(* The invariant *)

\* Registers hold bits, and as many bytes have gone out as in.
RegistersOK ==
  /\ x \in {Zeros(WordLength), Ones(WordLength)}
  /\ received \in Seq(Byte)
  /\ read \in Seq(Byte)
  /\ Len(read) = Len(received)
  /\ Len(read) <= PacketLength
  /\ flips \in 0 .. MaxFlips

\* Between frames nothing is left of the last one, and only the first byte of a
\* frame can find X as the reset left it.
FrameOK ==
  /\ frame \in Frames \cup {NoFrame}
  /\ frame = NoFrame => read = <<>>
  /\ read = <<>> => flips = 0
  /\ read # <<>> => x = Ones(WordLength)
  /\ Starved => flips = 0

\* Without noise the bytes fed come out, and behind them ones.
CleanOK ==
  flips = 0 =>
    \A n \in 1 .. Len(read) :
      /\ n <= Len(frame.fed) => read[n] = frame.fed[n]
      /\ n > Len(frame.fed) /\ n # 1 => read[n] = 255

\* With noise the registers of both ends differ as DamageOK says.
NoisyOK ==
  Len(frame.fed) = PacketLength =>
    DamageOK(flips, Difference(read, SubSeq(frame.fed, 1, Len(read))), Len(read))

\* An idle frame does not begin with the sync byte.
IdleOK == frame.fed = <<>> /\ read # <<>> => read[1] # SyncByte

\* The firmware has every byte of the request the wrong way round.
ReversedOK ==
  \A n \in 1 .. Len(received) : received[n] = Reversed(frame.request[n])

WireInv ==
  /\ FrameOK
  /\ RegistersOK
  /\ ReversedOK
  /\ CleanOK
  /\ MaxFlips <= 3 => NoisyOK /\ IdleOK

\* What a frame feeds is a packet of the firmware, or the beginning of one.
LEMMA FrameFacts ==
  ASSUME NEW f \in Frames \cup {NoFrame}
  PROVE  /\ f.fed \in Seq(Byte) /\ Len(f.fed) \in 0 .. 8
         /\ f # NoFrame => f.request \in [1 .. PacketLength -> Byte]
         /\ f.fed # <<>> =>
              /\ f.response \in Responses
              /\ Len(f.fed) \in 1 .. 8
              /\ f.fed = SubSeq(Built(f.response), 1, Len(f.fed))
<1>1. CASE f = NoFrame
  <2>1. f.fed = <<>>
    BY <1>1 DEF NoFrame
  <2> QED
    BY <1>1, <2>1
<1>2. CASE f \in [response : {Idle}, fed : {<<>>}, request : Requests]
  <2>1. f.fed = <<>> /\ f.request \in Requests
    BY <1>2
  <2>2. f.request \in [1 .. PacketLength -> Byte]
    BY <2>1, WireAssumption
  <2> QED
    BY <2>1, <2>2
<1>3. CASE f \in {[response |-> response, fed |-> SubSeq(Built(response), 1, count),
                   request |-> request] :
                    response \in Responses, count \in FedBytes, request \in Requests}
  <2>1. PICK response \in Responses, count \in FedBytes, request \in Requests :
          f = [response |-> response, fed |-> SubSeq(Built(response), 1, count),
               request |-> request]
    BY <1>3
  <2>2. f.response = response /\ f.fed = SubSeq(Built(response), 1, count) /\ f.request = request
    BY <2>1
  <2>3. count \in 1 .. 8 /\ request \in [1 .. PacketLength -> Byte]
    BY WireAssumption DEF PacketLength
  <2>4. f.fed \in Seq(Byte) /\ Len(f.fed) = count
    BY <2>2, <2>3, BuiltPacket, FedPrefix
  <2> QED
    BY <2>2, <2>3, <2>4
<1> QED
  BY <1>1, <1>2, <1>3 DEF Frames

\* A packet fed whole.
LEMMA WholePacket ==
  ASSUME NEW f \in Frames \cup {NoFrame}, Len(f.fed) = PacketLength
  PROVE  /\ f.response \in Responses
         /\ f.fed = Built(f.response)
         /\ f.fed \in Packets
<1>1. Len(f.fed) = 8 /\ f.fed # <<>>
  <2>1. Len(f.fed) = 8
    BY DEF PacketLength
  <2>2. Len(<<>>) = 0
    BY EmptySeq
  <2> QED
    BY <2>1, <2>2
<1>2. f.response \in Responses /\ f.fed = SubSeq(Built(f.response), 1, 8)
  BY <1>1, FrameFacts
<1>3. Built(f.response) \in Packets
  BY <1>2, BuiltPacket
<1>4. SubSeq(Built(f.response), 1, 8) = Built(f.response)
  <2>1. 8 \in 1 .. 8
    OBVIOUS
  <2> QED
    BY <1>3, <2>1, FedPrefix
<1> QED
  BY <1>2, <1>3, <1>4

\* pull noblock gives the next byte fed, or X.
LEMMA PulledType ==
  ASSUME FrameOK, RegistersOK, NEW n \in 1 .. 8
  PROVE  /\ Pulled(n) \in Register
         /\ n <= Len(frame.fed) => frame.fed[n] \in Byte /\ ByteOf(First(Pulled(n))) = frame.fed[n]
         /\ n > Len(frame.fed) => Pulled(n) = x
<1>1. frame.fed \in Seq(Byte) /\ Len(frame.fed) \in 0 .. 8
  BY FrameFacts DEF FrameOK
<1>2. CASE n <= Len(frame.fed)
  <2>1. frame.fed[n] \in Byte
    BY <1>1, <1>2
  <2>2. Pulled(n) = PutWord(frame.fed[n])
    BY <1>2 DEF Pulled
  <2> QED
    BY <1>1, <1>2, <2>1, <2>2, PutWordBits, SentByte
<1>3. CASE n > Len(frame.fed)
  <2>1. Pulled(n) = x
    BY <1>1, <1>3 DEF Pulled
  <2> QED
    BY <1>1, <1>3, <2>1, ZerosRegister DEF RegistersOK
<1> QED
  BY <1>1, <1>2, <1>3

\* What one byte changes.
LEMMA ClockedByte ==
  ASSUME FrameOK, RegistersOK, ClockByte
  PROVE  \E noise \in SUBSET (1 .. 8), got \in Byte :
           /\ frame # NoFrame /\ Len(read) + 1 <= 8 /\ frame' = frame
           /\ received' = Append(received, got)
           /\ got = Reversed(frame.request[Len(read) + 1])
           /\ x' = Ones(WordLength)
           /\ Cardinality(noise) \in Nat
           /\ flips + Cardinality(noise) <= MaxFlips
           /\ Starved => noise = {}
           /\ flips' = flips + Cardinality(noise)
           /\ read' = Append(read, ReadByte(Pulled(Len(read) + 1), noise))
<1> DEFINE offset == Len(read) + 1
           word == Pulled(offset)
           mosi == frame.request[offset]
           byte == ByteLoop(word, mosi)
           limit == IF Starved THEN 0 ELSE MaxFlips - flips
<1>1. PICK noise \in Noises[limit] :
        /\ frame # NoFrame /\ offset <= PacketLength /\ frame' = frame
        /\ received' = Append(received, ReceivedByte(byte.isr))
        /\ x' = Ones(WordLength)
        /\ flips' = flips + Cardinality(noise)
        /\ read' = Append(read, ByteOf([k \in 1 .. 8 |->
                     IF k \in noise THEN 1 - byte.miso[k] ELSE byte.miso[k]]))
  BY DEF ClockByte
<1>2. limit \in 0 .. MaxFlips /\ flips \in 0 .. MaxFlips /\ MaxFlips \in Nat
      /\ limit <= MaxFlips - flips
  BY WireAssumption DEF RegistersOK
<1>3. noise \in SUBSET (1 .. 8) /\ Cardinality(noise) <= limit
  <2> HIDE DEF limit
  <2>1. Noises[limit] = {bits \in SUBSET (1 .. 8) : Cardinality(bits) <= limit}
    BY <1>2 DEF Noises
  <2> QED
    BY <1>1, <2>1
<1>4. Cardinality(noise) \in Nat
  BY <1>3, NoiseParity
<1>5. offset \in 1 .. 8
  <2>1. Len(read) \in Nat
    BY LenProperties DEF RegistersOK
  <2> QED
    BY <1>1, <2>1 DEF PacketLength
<1>6. word \in Register /\ mosi \in Byte
  <2>1. word \in Register
    BY <1>5, PulledType
  <2>2. frame.request \in [1 .. PacketLength -> Byte]
    BY <1>1, FrameFacts DEF FrameOK
  <2> QED
    BY <1>5, <2>1, <2>2 DEF PacketLength
<1>7. /\ ReceivedByte(byte.isr) \in Byte
      /\ ReceivedByte(byte.isr) = Reversed(mosi)
      /\ ByteOf([k \in 1 .. 8 |-> IF k \in noise THEN 1 - byte.miso[k] ELSE byte.miso[k]])
           = ReadByte(word, noise)
  <2> HIDE DEF word, mosi
  <2> QED
    BY <1>6, ByteOnWire
<1>8. Starved => noise = {}
  <2> SUFFICES ASSUME Starved
               PROVE  noise = {}
    OBVIOUS
  <2>1. Cardinality(noise) = 0
    BY <1>3, <1>4
  <2> QED
    BY <1>3, <2>1, SmallNoise
<1>9. flips + Cardinality(noise) <= MaxFlips
  <2> HIDE DEF limit
  <2> QED
    BY <1>2, <1>3, <1>4
<1>10. /\ frame # NoFrame /\ Len(read) + 1 <= 8 /\ frame' = frame
       /\ received' = Append(received, ReceivedByte(byte.isr))
       /\ read' = Append(read, ReadByte(word, noise))
  BY <1>1, <1>5, <1>7
<1> HIDE DEF byte
<1> QED
  BY <1>1, <1>3, <1>4, <1>7, <1>8, <1>9, <1>10
\* The invariant holds at the start.
LEMMA InitWire == Init => WireInv
<1> SUFFICES ASSUME Init
             PROVE  WireInv
  OBVIOUS
<1>1. /\ frame = NoFrame /\ x = Zeros(WordLength) /\ received = <<>> /\ read = <<>> /\ flips = 0
  BY DEF Init
<1>2. Len(<<>>) = 0 /\ <<>> \in Seq(Byte) /\ frame.fed = <<>>
  BY <1>1 DEF NoFrame
<1>3. MaxFlips \in Nat
  BY WireAssumption
<1>4. FrameOK
  BY <1>1, <1>2 DEF FrameOK, Starved
<1>5. RegistersOK
  BY <1>1, <1>2, <1>3 DEF RegistersOK, PacketLength
<1>6. CleanOK
  BY <1>1, <1>2 DEF CleanOK
<1>7. NoisyOK /\ IdleOK
  BY <1>1, <1>2 DEF NoisyOK, IdleOK, PacketLength
<1>8. ReversedOK
  BY <1>1, <1>2 DEF ReversedOK
<1> QED
  BY <1>4, <1>5, <1>6, <1>7, <1>8 DEF WireInv

\* The invariant holds when CS falls.
LEMMA SelectWire ==
  ASSUME WireInv, Select
  PROVE  WireInv'
<1>1. /\ frame = NoFrame /\ frame' \in Frames
      /\ x' = x /\ received' = received /\ read' = read /\ flips' = flips
  BY DEF Select
<1>2. FrameOK /\ RegistersOK
  BY DEF WireInv
<1>3. read' = <<>> /\ flips' = 0 /\ Len(<<>>) = 0
  BY <1>1, <1>2 DEF FrameOK
<1>4. FrameOK'
  BY <1>1, <1>3 DEF FrameOK, Starved
<1>5. RegistersOK'
  BY <1>1, <1>2 DEF RegistersOK
<1>6. CleanOK'
  BY <1>3 DEF CleanOK
<1>7. NoisyOK'
  <2> SUFFICES ASSUME Len(frame'.fed) = PacketLength
               PROVE  DamageOK(flips', Difference(read', SubSeq(frame'.fed, 1, Len(read'))),
                               Len(read'))
    BY DEF NoisyOK
  <2>1. SubSeq(frame'.fed, 1, 0) = <<>>
    BY SubSeqEmpty
  <2>2. Difference(<<>>, <<>>) = 0
    <3>1. 0 \in Byte
      BY DEF Byte
    <3>2. Xor(0, 0) = 0
      BY <3>1, XorRules
    <3> QED
      BY <3>2, Crc8Empty DEF Difference
  <2> QED
    BY <1>3, <2>1, <2>2, DamageInit
<1>8. IdleOK'
  BY <1>3 DEF IdleOK
<1>9. ReversedOK'
  <2>1. Len(received') = 0
    BY <1>1, <1>2, <1>3 DEF RegistersOK
  <2> QED
    BY <2>1 DEF ReversedOK
<1> QED
  BY <1>4, <1>5, <1>6, <1>7, <1>8, <1>9 DEF WireInv

\* The invariant holds when CS rises.
LEMMA DeselectWire ==
  ASSUME WireInv, Deselect
  PROVE  WireInv'
<1>1. /\ frame' = NoFrame /\ received' = <<>> /\ read' = <<>> /\ flips' = 0 /\ x' = x
  BY DEF Deselect
<1>2. Len(<<>>) = 0 /\ <<>> \in Seq(Byte) /\ frame'.fed = <<>>
  BY <1>1 DEF NoFrame
<1>3. MaxFlips \in Nat
  BY WireAssumption
<1>4. FrameOK'
  BY <1>1, <1>2 DEF FrameOK, Starved
<1>5. RegistersOK'
  BY <1>1, <1>2, <1>3 DEF WireInv, RegistersOK, PacketLength
<1>6. CleanOK'
  BY <1>1, <1>2 DEF CleanOK
<1>7. NoisyOK' /\ IdleOK'
  BY <1>1, <1>2 DEF NoisyOK, IdleOK, PacketLength
<1>8. ReversedOK'
  BY <1>1, <1>2 DEF ReversedOK
<1> QED
  BY <1>4, <1>5, <1>6, <1>7, <1>8 DEF WireInv

\* What the last byte adds to the read and fed sequences.
LEMMA NextByte ==
  ASSUME NEW s \in Seq(Byte), NEW byte \in Byte
  PROVE  /\ Append(s, byte) \in Seq(Byte) /\ Len(Append(s, byte)) = Len(s) + 1
         /\ Append(s, byte) # <<>>
         /\ \A n \in 1 .. Len(s) : Append(s, byte)[n] = s[n]
         /\ Append(s, byte)[Len(s) + 1] = byte
         /\ s # <<>> => Append(s, byte)[1] = s[1]
<1>1. /\ Append(s, byte) \in Seq(Byte) /\ Len(Append(s, byte)) = Len(s) + 1
      /\ \A n \in 1 .. Len(s) : Append(s, byte)[n] = s[n]
      /\ Append(s, byte)[Len(s) + 1] = byte
  BY Appended
<1>2. Append(s, byte) # <<>>
  BY AppendProperties
<1>3. s # <<>> => 1 \in 1 .. Len(s)
  <2>1. Len(s) \in Nat /\ (Len(s) = 0 => s = <<>>)
    BY LenProperties, EmptySeq
  <2> QED
    BY <2>1
<1> QED
  BY <1>1, <1>2, <1>3

\* One byte more of a packet.
LEMMA PrefixGrows ==
  ASSUME NEW packet \in Packets, NEW n \in 0 .. 7
  PROVE  /\ SubSeq(packet, 1, n) \in Seq(Byte)
         /\ SubSeq(packet, 1, n + 1) = Append(SubSeq(packet, 1, n), packet[n + 1])
<1> DEFINE short == SubSeq(packet, 1, n)
           long == SubSeq(packet, 1, n + 1)
           byte == packet[n + 1]
           whole == Append(short, byte)
<1>1. n + 1 \in 1 .. 8 /\ byte \in Byte
  BY PacketBytes
<1>2. /\ short \in Seq(Byte) /\ Len(short) = n
      /\ \A k \in 1 .. n : short[k] = packet[k]
  <2>1. CASE n = 0
    <3>1. short = <<>>
      BY <2>1, SubSeqEmpty
    <3> QED
      BY <2>1, <3>1
  <2>2. CASE n # 0
    BY <2>2, FedPrefix
  <2> QED
    BY <2>1, <2>2
<1>3. /\ long \in Seq(Byte) /\ Len(long) = n + 1
      /\ \A k \in 1 .. n + 1 : long[k] = packet[k]
  BY <1>1, FedPrefix
<1>4. /\ whole \in Seq(Byte) /\ Len(whole) = Len(short) + 1
      /\ \A k \in 1 .. Len(short) : whole[k] = short[k]
      /\ whole[Len(short) + 1] = byte
  <2> HIDE DEF short, byte
  <2> QED
    BY <1>1, <1>2, Appended
<1>5. \A k \in 1 .. n + 1 : long[k] = whole[k]
  <2> HIDE DEF short, whole, long
  <2>1. \A k \in 1 .. n : whole[k] = packet[k]
    BY <1>2, <1>4
  <2>2. whole[n + 1] = packet[n + 1]
    BY <1>2, <1>4
  <2>3. \A k \in 1 .. n + 1 : k \in 1 .. n \/ k = n + 1
    OBVIOUS
  <2> QED
    BY <1>3, <2>1, <2>2, <2>3
<1> HIDE DEF short, long, whole, byte
<1>6. Len(whole) = n + 1
  BY <1>2, <1>4
<1>7. long = whole
  BY <1>3, <1>4, <1>5, <1>6, SeqEqual
<1> QED
  BY <1>2, <1>7 DEF short, long, whole, byte

\* The invariant holds over a byte.
LEMMA ClockWire ==
  ASSUME WireInv, ClockByte
  PROVE  WireInv'
<1>1. FrameOK /\ RegistersOK /\ ReversedOK /\ CleanOK /\ (MaxFlips <= 3 => NoisyOK /\ IdleOK)
  BY DEF WireInv
<1>2. PICK noise \in SUBSET (1 .. 8), got \in Byte :
        /\ frame # NoFrame /\ Len(read) + 1 <= 8 /\ frame' = frame
        /\ received' = Append(received, got)
        /\ got = Reversed(frame.request[Len(read) + 1])
        /\ x' = Ones(WordLength)
        /\ Cardinality(noise) \in Nat
        /\ flips + Cardinality(noise) <= MaxFlips
        /\ Starved => noise = {}
        /\ flips' = flips + Cardinality(noise)
        /\ read' = Append(read, ReadByte(Pulled(Len(read) + 1), noise))
  BY <1>1, ClockedByte
<1> DEFINE n == Len(read)
           offset == n + 1
           word == Pulled(offset)
           byte == ReadByte(word, noise)
           w == Cardinality(noise)
           fed == frame.fed
<1>3. /\ x \in {Zeros(WordLength), Ones(WordLength)}
      /\ received \in Seq(Byte) /\ read \in Seq(Byte) /\ Len(read) = Len(received)
      /\ flips \in 0 .. MaxFlips /\ MaxFlips \in Nat
  BY <1>1, WireAssumption DEF RegistersOK
<1>4. n \in 0 .. 7 /\ offset \in 1 .. 8
  <2>1. n \in Nat
    BY <1>3, LenProperties
  <2>2. n + 1 <= 8
    BY <1>2
  <2> HIDE DEF n
  <2> QED
    BY <2>1, <2>2
<1>5. /\ word \in Register
      /\ offset <= Len(fed) => fed[offset] \in Byte /\ ByteOf(First(word)) = fed[offset]
      /\ offset > Len(fed) => word = x
  BY <1>1, <1>4, PulledType
<1>6. fed \in Seq(Byte) /\ Len(fed) \in 0 .. 8
  BY <1>1, FrameFacts DEF FrameOK
<1> HIDE DEF word
<1>7. /\ byte \in Byte
      /\ Xor(byte, ByteOf(First(word))) = Error(noise)
      /\ noise = {} => byte = ByteOf(First(word))
  BY <1>5, ReadByteOf
<1>8. /\ read' = Append(read, byte) /\ flips' = flips + w /\ w \in Nat
      /\ flips + w <= MaxFlips /\ received' = Append(received, got)
      /\ x' = Ones(WordLength) /\ frame' = frame
      /\ Starved => noise = {}
  BY <1>2 DEF word
<1> HIDE DEF byte, w
<1>9. /\ read' \in Seq(Byte) /\ Len(read') = n + 1 /\ read' # <<>>
      /\ \A k \in 1 .. n : read'[k] = read[k]
      /\ read'[offset] = byte
      /\ read # <<>> => read'[1] = read[1]
  BY <1>3, <1>7, <1>8, NextByte
<1>10. /\ received' \in Seq(Byte) /\ Len(received') = Len(received) + 1
       /\ \A k \in 1 .. Len(received) : received'[k] = received[k]
       /\ received'[Len(received) + 1] = got
  BY <1>3, <1>8, NextByte
<1>11. w = 0 => noise = {}
  BY SmallNoise DEF w
<1>12. noise = {} => w = 0
  BY FS_EmptySet DEF w
<1> HIDE DEF n
<1>13. Len(read') = Len(received')
  BY <1>3, <1>9, <1>10 DEF n
<1>14. RegistersOK'
  BY <1>3, <1>4, <1>8, <1>9, <1>10, <1>13 DEF RegistersOK, PacketLength
<1>15. FrameOK'
  <2>1. frame' \in Frames \cup {NoFrame} /\ frame' # NoFrame
    BY <1>1, <1>2 DEF FrameOK
  <2>2. Starved' => flips' = 0
    <3> SUFFICES ASSUME Starved'
                 PROVE  flips' = 0
      OBVIOUS
    <3>1. Starved
      BY <1>8 DEF Starved
    <3>2. flips = 0 /\ w = 0
      BY <1>1, <1>8, <1>12, <3>1 DEF FrameOK
    <3> QED
      BY <1>8, <3>2
  <2> QED
    BY <1>8, <1>9, <2>1, <2>2 DEF FrameOK
<1>16. CleanOK'
  <2> SUFFICES ASSUME flips' = 0, NEW k \in 1 .. Len(read')
               PROVE  /\ k <= Len(fed) => read'[k] = fed[k]
                      /\ k > Len(fed) /\ k # 1 => read'[k] = 255
    BY <1>8 DEF CleanOK
  <2>1. flips = 0 /\ w = 0 /\ noise = {}
    BY <1>3, <1>8, <1>11
  <2>2. byte = ByteOf(First(word))
    BY <1>7, <2>1
  <2>3. CASE k = offset
    <3>1. ASSUME k <= Len(fed)
          PROVE  read'[k] = fed[k]
      BY <1>5, <1>9, <2>2, <2>3, <3>1
    <3>2. ASSUME k > Len(fed), k # 1
          PROVE  read'[k] = 255
      <4>1. word = x
        BY <1>5, <2>3, <3>2
      <4>2. read # <<>>
        <5>1. n # 0
          BY <2>3, <3>2
        <5>2. Len(<<>>) = 0
          BY EmptySeq
        <5> QED
          BY <5>1, <5>2 DEF n
      <4>3. x = Ones(WordLength)
        BY <1>1, <4>2 DEF FrameOK
      <4> QED
        BY <1>9, <2>2, <2>3, <4>1, <4>3, FillerByte
    <3> QED
      BY <3>1, <3>2
  <2>4. CASE k # offset
    <3>1. k \in 1 .. n
      BY <1>4, <1>9, <2>4
    <3>2. /\ k <= Len(fed) => read[k] = fed[k]
          /\ k > Len(fed) /\ k # 1 => read[k] = 255
      BY <1>1, <2>1, <3>1 DEF CleanOK, n
    <3> QED
      BY <1>9, <3>1, <3>2
  <2> QED
    BY <2>3, <2>4
<1>17. ASSUME MaxFlips <= 3
       PROVE  NoisyOK'
  <2> SUFFICES ASSUME Len(fed) = PacketLength
               PROVE  DamageOK(flips', Difference(read', SubSeq(fed, 1, Len(read'))), Len(read'))
    BY <1>8 DEF NoisyOK
  <2>1. fed \in Packets
    BY <1>1, WholePacket DEF FrameOK
  <2>2. offset <= Len(fed)
    BY <1>4 DEF PacketLength
  <2> DEFINE part == SubSeq(fed, 1, n)
             sent == fed[offset]
             d == Difference(read, part)
  <2>3. part \in Seq(Byte) /\ SubSeq(fed, 1, n + 1) = Append(part, sent)
    BY <1>4, <2>1, PrefixGrows
  <2>4. sent \in Byte /\ Xor(byte, sent) = Error(noise)
    BY <1>5, <1>7, <2>2
  <2>5. DamageOK(flips, d, n)
    BY <1>1, <1>17 DEF NoisyOK, n
  <2> HIDE DEF part, sent, fed
  <2>6. Difference(Append(read, byte), Append(part, sent)) = CrcOfByte[Xor(d, Error(noise))]
    BY <1>3, <1>7, <2>3, <2>4, DifferenceAppend
  <2> HIDE DEF d
  <2>7. flips \in Nat /\ flips + Cardinality(noise) <= 3
    BY <1>3, <1>8, <1>17 DEF w
  <2>8. DamageOK(flips + Cardinality(noise), CrcOfByte[Xor(d, Error(noise))], n + 1)
    BY <1>4, <2>5, <2>7, DamageStep
  <2> QED
    BY <1>8, <1>9, <2>3, <2>6, <2>8 DEF w
<1>18. ASSUME MaxFlips <= 3
       PROVE  IdleOK'
  <2> SUFFICES ASSUME fed = <<>>
               PROVE  read'[1] # SyncByte
    BY <1>8 DEF IdleOK
  <2>1. CASE read = <<>>
    <3>1. n = 0 /\ Len(fed) = 0
      BY <2>1, EmptySeq DEF n
    <3>2. word = x
      BY <1>5, <3>1
    <3>3. Cardinality(noise) <= 3
      BY <1>3, <1>8, <1>18 DEF w
    <3>4. byte # SyncByte
      BY <1>3, <3>2, <3>3, FillerIsNoSync DEF byte
    <3> QED
      BY <1>9, <3>1, <3>4
  <2>2. CASE read # <<>>
    BY <1>1, <1>9, <1>18, <2>2 DEF IdleOK
  <2> QED
    BY <2>1, <2>2
<1>19. ReversedOK'
  <2> SUFFICES ASSUME NEW k \in 1 .. Len(received')
               PROVE  received'[k] = Reversed(frame.request[k])
    BY <1>8 DEF ReversedOK
  <2> DEFINE m == Len(received)
  <2>1. m \in Nat /\ m = n
    BY <1>3, LenProperties DEF n
  <2>2. got = Reversed(frame.request[n + 1])
    BY <1>2 DEF n
  <2> HIDE DEF m
  <2>3. k \in 1 .. m + 1
    BY <1>10 DEF m
  <2>4. CASE k = m + 1
    BY <1>10, <2>1, <2>2, <2>4 DEF m
  <2>5. CASE k # m + 1
    <3>1. k \in 1 .. m
      BY <2>1, <2>3, <2>5
    <3> QED
      BY <1>1, <1>10, <3>1 DEF ReversedOK, m
  <2> QED
    BY <2>4, <2>5
<1> QED
  BY <1>14, <1>15, <1>16, <1>17, <1>18, <1>19 DEF WireInv

\* The invariant holds in every reachable state.
LEMMA WireInvariant == Spec => []WireInv
<1>1. Init => WireInv
  BY InitWire
<1>2. WireInv /\ [Next]_vars => WireInv'
  <2> SUFFICES ASSUME WireInv, [Next]_vars
               PROVE  WireInv'
    OBVIOUS
  <2>1. CASE Select
    BY <2>1, SelectWire
  <2>2. CASE ClockByte
    BY <2>2, ClockWire
  <2>3. CASE Deselect
    BY <2>3, DeselectWire
  <2>4. CASE UNCHANGED vars
    BY <2>4 DEF vars, WireInv, FrameOK, RegistersOK, ReversedOK, CleanOK, NoisyOK, IdleOK, Starved
  <2> QED
    BY <2>1, <2>2, <2>3, <2>4 DEF Next
<1> QED
  BY <1>1, <1>2, PTL DEF Spec

-----------------------------------------------------------------------------
(* Values of the CRC *)

\* CrcOfByte of a byte given by its bits.
LEMMA CrcOfOctet ==
  ASSUME NEW u \in Octets
  PROVE  CrcOfByte[ByteOf(u)] = ByteOf(CrcBits(u))
<1>1. ByteOf(u) \in Byte /\ Bits(ByteOf(u)) = u
  BY ByteOfType, BitsOfByte
<1> QED
  BY <1>1, CrcOfByteBits, ByteOfBits

\* Xor of bytes given by their bits.
LEMMA XorOfOctets ==
  ASSUME NEW u \in Octets, NEW v \in Octets
  PROVE  Xor(ByteOf(u), ByteOf(v)) = ByteOf(Sum(u, v))
<1>1. /\ ByteOf(u) \in Byte /\ Bits(ByteOf(u)) = u
      /\ ByteOf(v) \in Byte /\ Bits(ByteOf(v)) = v
  BY ByteOfType, BitsOfByte
<1> QED
  BY <1>1, XorBits, ByteOfBits

\* Adding ones to a byte complements it.
LEMMA XorWithOnes ==
  ASSUME NEW byte \in Byte
  PROVE  Xor(byte, 255) = 255 - byte
<1> DEFINE u == Bits(byte)
           ones == <<1, 1, 1, 1, 1, 1, 1, 1>>
<1>1. u \in Octets /\ ByteOf(u) = byte
  BY BitsType, ByteOfBits
<1>2. ones \in Octets /\ ByteOf(ones) = 255
  <2>1. ones \in Octets
    BY OctetOf DEF Bit
  <2> QED
    BY <2>1 DEF ByteOf
<1> HIDE DEF u
<1>3. /\ u[1] \in {0, 1} /\ u[2] \in {0, 1} /\ u[3] \in {0, 1} /\ u[4] \in {0, 1}
      /\ u[5] \in {0, 1} /\ u[6] \in {0, 1} /\ u[7] \in {0, 1} /\ u[8] \in {0, 1}
  BY <1>1, OctetBits DEF Bit
<1> DEFINE s == Sum(u, ones)
<1>4. \A k \in 1 .. 8 : s[k] = Plus(u[k], ones[k]) /\ ones[k] = 1
  BY DEF Sum
<1> HIDE DEF s, ones
<1>5. s[1] = 1 - u[1] /\ s[2] = 1 - u[2] /\ s[3] = 1 - u[3] /\ s[4] = 1 - u[4]
  BY <1>3, <1>4 DEF Plus
<1>6. s[5] = 1 - u[5] /\ s[6] = 1 - u[6] /\ s[7] = 1 - u[7] /\ s[8] = 1 - u[8]
  BY <1>3, <1>4 DEF Plus
<1>7. ByteOf(s) = 255 - ByteOf(u)
  BY <1>3, <1>5, <1>6 DEF ByteOf
<1>8. Xor(ByteOf(u), ByteOf(ones)) = ByteOf(s)
  BY <1>1, <1>2, XorOfOctets DEF s
<1> QED
  BY <1>1, <1>2, <1>7, <1>8

\* The registers behind A5 01, the type of a response other than SnapshotEnd and
\* bytes of ones.
LEMMA CrcValues ==
  /\ CrcOfByte[165] = 114 /\ CrcOfByte[115] = 94 /\ CrcOfByte[95] = 154 /\ CrcOfByte[101] = 60
  /\ CrcOfByte[195] = 71 /\ CrcOfByte[184] = 33 /\ CrcOfByte[222] = 20 /\ CrcOfByte[92] = 147
  /\ CrcOfByte[108] = 3 /\ CrcOfByte[252] = 250 /\ CrcOfByte[5] = 27 /\ CrcOfByte[228] = 178
  /\ CrcOfByte[78] = 237 /\ CrcOfByte[18] = 126 /\ CrcOfByte[129] = 142 /\ CrcOfByte[113] = 80
  /\ CrcOfByte[175] = 68
<1>1. CrcOfByte[165] = 114
  <2> DEFINE u == <<1, 0, 1, 0, 0, 1, 0, 1>>
             v == CrcBits(u)
  <2>1. u \in Octets /\ ByteOf(u) = 165
    <3>1. u \in Octets
      BY OctetOf DEF Bit
    <3> QED
      BY <3>1 DEF ByteOf
  <2>2. v[1] = 0 /\ v[2] = 1 /\ v[3] = 1 /\ v[4] = 1
    BY DEF CrcBits, Plus
  <2>3. v[5] = 0 /\ v[6] = 0 /\ v[7] = 1 /\ v[8] = 0
    BY DEF CrcBits, Plus
  <2> HIDE DEF u, v
  <2>4. ByteOf(v) = 114
    BY <2>2, <2>3 DEF ByteOf
  <2> QED
    BY <2>1, <2>4, CrcOfOctet DEF v
<1>2. CrcOfByte[115] = 94
  <2> DEFINE u == <<0, 1, 1, 1, 0, 0, 1, 1>>
             v == CrcBits(u)
  <2>1. u \in Octets /\ ByteOf(u) = 115
    <3>1. u \in Octets
      BY OctetOf DEF Bit
    <3> QED
      BY <3>1 DEF ByteOf
  <2>2. v[1] = 0 /\ v[2] = 1 /\ v[3] = 0 /\ v[4] = 1
    BY DEF CrcBits, Plus
  <2>3. v[5] = 1 /\ v[6] = 1 /\ v[7] = 1 /\ v[8] = 0
    BY DEF CrcBits, Plus
  <2> HIDE DEF u, v
  <2>4. ByteOf(v) = 94
    BY <2>2, <2>3 DEF ByteOf
  <2> QED
    BY <2>1, <2>4, CrcOfOctet DEF v
<1>3. CrcOfByte[95] = 154
  <2> DEFINE u == <<0, 1, 0, 1, 1, 1, 1, 1>>
             v == CrcBits(u)
  <2>1. u \in Octets /\ ByteOf(u) = 95
    <3>1. u \in Octets
      BY OctetOf DEF Bit
    <3> QED
      BY <3>1 DEF ByteOf
  <2>2. v[1] = 1 /\ v[2] = 0 /\ v[3] = 0 /\ v[4] = 1
    BY DEF CrcBits, Plus
  <2>3. v[5] = 1 /\ v[6] = 0 /\ v[7] = 1 /\ v[8] = 0
    BY DEF CrcBits, Plus
  <2> HIDE DEF u, v
  <2>4. ByteOf(v) = 154
    BY <2>2, <2>3 DEF ByteOf
  <2> QED
    BY <2>1, <2>4, CrcOfOctet DEF v
<1>4. CrcOfByte[101] = 60
  <2> DEFINE u == <<0, 1, 1, 0, 0, 1, 0, 1>>
             v == CrcBits(u)
  <2>1. u \in Octets /\ ByteOf(u) = 101
    <3>1. u \in Octets
      BY OctetOf DEF Bit
    <3> QED
      BY <3>1 DEF ByteOf
  <2>2. v[1] = 0 /\ v[2] = 0 /\ v[3] = 1 /\ v[4] = 1
    BY DEF CrcBits, Plus
  <2>3. v[5] = 1 /\ v[6] = 1 /\ v[7] = 0 /\ v[8] = 0
    BY DEF CrcBits, Plus
  <2> HIDE DEF u, v
  <2>4. ByteOf(v) = 60
    BY <2>2, <2>3 DEF ByteOf
  <2> QED
    BY <2>1, <2>4, CrcOfOctet DEF v
<1>5. CrcOfByte[195] = 71
  <2> DEFINE u == <<1, 1, 0, 0, 0, 0, 1, 1>>
             v == CrcBits(u)
  <2>1. u \in Octets /\ ByteOf(u) = 195
    <3>1. u \in Octets
      BY OctetOf DEF Bit
    <3> QED
      BY <3>1 DEF ByteOf
  <2>2. v[1] = 0 /\ v[2] = 1 /\ v[3] = 0 /\ v[4] = 0
    BY DEF CrcBits, Plus
  <2>3. v[5] = 0 /\ v[6] = 1 /\ v[7] = 1 /\ v[8] = 1
    BY DEF CrcBits, Plus
  <2> HIDE DEF u, v
  <2>4. ByteOf(v) = 71
    BY <2>2, <2>3 DEF ByteOf
  <2> QED
    BY <2>1, <2>4, CrcOfOctet DEF v
<1>6. CrcOfByte[184] = 33
  <2> DEFINE u == <<1, 0, 1, 1, 1, 0, 0, 0>>
             v == CrcBits(u)
  <2>1. u \in Octets /\ ByteOf(u) = 184
    <3>1. u \in Octets
      BY OctetOf DEF Bit
    <3> QED
      BY <3>1 DEF ByteOf
  <2>2. v[1] = 0 /\ v[2] = 0 /\ v[3] = 1 /\ v[4] = 0
    BY DEF CrcBits, Plus
  <2>3. v[5] = 0 /\ v[6] = 0 /\ v[7] = 0 /\ v[8] = 1
    BY DEF CrcBits, Plus
  <2> HIDE DEF u, v
  <2>4. ByteOf(v) = 33
    BY <2>2, <2>3 DEF ByteOf
  <2> QED
    BY <2>1, <2>4, CrcOfOctet DEF v
<1>7. CrcOfByte[222] = 20
  <2> DEFINE u == <<1, 1, 0, 1, 1, 1, 1, 0>>
             v == CrcBits(u)
  <2>1. u \in Octets /\ ByteOf(u) = 222
    <3>1. u \in Octets
      BY OctetOf DEF Bit
    <3> QED
      BY <3>1 DEF ByteOf
  <2>2. v[1] = 0 /\ v[2] = 0 /\ v[3] = 0 /\ v[4] = 1
    BY DEF CrcBits, Plus
  <2>3. v[5] = 0 /\ v[6] = 1 /\ v[7] = 0 /\ v[8] = 0
    BY DEF CrcBits, Plus
  <2> HIDE DEF u, v
  <2>4. ByteOf(v) = 20
    BY <2>2, <2>3 DEF ByteOf
  <2> QED
    BY <2>1, <2>4, CrcOfOctet DEF v
<1>8. CrcOfByte[92] = 147
  <2> DEFINE u == <<0, 1, 0, 1, 1, 1, 0, 0>>
             v == CrcBits(u)
  <2>1. u \in Octets /\ ByteOf(u) = 92
    <3>1. u \in Octets
      BY OctetOf DEF Bit
    <3> QED
      BY <3>1 DEF ByteOf
  <2>2. v[1] = 1 /\ v[2] = 0 /\ v[3] = 0 /\ v[4] = 1
    BY DEF CrcBits, Plus
  <2>3. v[5] = 0 /\ v[6] = 0 /\ v[7] = 1 /\ v[8] = 1
    BY DEF CrcBits, Plus
  <2> HIDE DEF u, v
  <2>4. ByteOf(v) = 147
    BY <2>2, <2>3 DEF ByteOf
  <2> QED
    BY <2>1, <2>4, CrcOfOctet DEF v
<1>9. CrcOfByte[108] = 3
  <2> DEFINE u == <<0, 1, 1, 0, 1, 1, 0, 0>>
             v == CrcBits(u)
  <2>1. u \in Octets /\ ByteOf(u) = 108
    <3>1. u \in Octets
      BY OctetOf DEF Bit
    <3> QED
      BY <3>1 DEF ByteOf
  <2>2. v[1] = 0 /\ v[2] = 0 /\ v[3] = 0 /\ v[4] = 0
    BY DEF CrcBits, Plus
  <2>3. v[5] = 0 /\ v[6] = 0 /\ v[7] = 1 /\ v[8] = 1
    BY DEF CrcBits, Plus
  <2> HIDE DEF u, v
  <2>4. ByteOf(v) = 3
    BY <2>2, <2>3 DEF ByteOf
  <2> QED
    BY <2>1, <2>4, CrcOfOctet DEF v
<1>10. CrcOfByte[252] = 250
  <2> DEFINE u == <<1, 1, 1, 1, 1, 1, 0, 0>>
             v == CrcBits(u)
  <2>1. u \in Octets /\ ByteOf(u) = 252
    <3>1. u \in Octets
      BY OctetOf DEF Bit
    <3> QED
      BY <3>1 DEF ByteOf
  <2>2. v[1] = 1 /\ v[2] = 1 /\ v[3] = 1 /\ v[4] = 1
    BY DEF CrcBits, Plus
  <2>3. v[5] = 1 /\ v[6] = 0 /\ v[7] = 1 /\ v[8] = 0
    BY DEF CrcBits, Plus
  <2> HIDE DEF u, v
  <2>4. ByteOf(v) = 250
    BY <2>2, <2>3 DEF ByteOf
  <2> QED
    BY <2>1, <2>4, CrcOfOctet DEF v
<1>11. CrcOfByte[5] = 27
  <2> DEFINE u == <<0, 0, 0, 0, 0, 1, 0, 1>>
             v == CrcBits(u)
  <2>1. u \in Octets /\ ByteOf(u) = 5
    <3>1. u \in Octets
      BY OctetOf DEF Bit
    <3> QED
      BY <3>1 DEF ByteOf
  <2>2. v[1] = 0 /\ v[2] = 0 /\ v[3] = 0 /\ v[4] = 1
    BY DEF CrcBits, Plus
  <2>3. v[5] = 1 /\ v[6] = 0 /\ v[7] = 1 /\ v[8] = 1
    BY DEF CrcBits, Plus
  <2> HIDE DEF u, v
  <2>4. ByteOf(v) = 27
    BY <2>2, <2>3 DEF ByteOf
  <2> QED
    BY <2>1, <2>4, CrcOfOctet DEF v
<1>12. CrcOfByte[228] = 178
  <2> DEFINE u == <<1, 1, 1, 0, 0, 1, 0, 0>>
             v == CrcBits(u)
  <2>1. u \in Octets /\ ByteOf(u) = 228
    <3>1. u \in Octets
      BY OctetOf DEF Bit
    <3> QED
      BY <3>1 DEF ByteOf
  <2>2. v[1] = 1 /\ v[2] = 0 /\ v[3] = 1 /\ v[4] = 1
    BY DEF CrcBits, Plus
  <2>3. v[5] = 0 /\ v[6] = 0 /\ v[7] = 1 /\ v[8] = 0
    BY DEF CrcBits, Plus
  <2> HIDE DEF u, v
  <2>4. ByteOf(v) = 178
    BY <2>2, <2>3 DEF ByteOf
  <2> QED
    BY <2>1, <2>4, CrcOfOctet DEF v
<1>13. CrcOfByte[78] = 237
  <2> DEFINE u == <<0, 1, 0, 0, 1, 1, 1, 0>>
             v == CrcBits(u)
  <2>1. u \in Octets /\ ByteOf(u) = 78
    <3>1. u \in Octets
      BY OctetOf DEF Bit
    <3> QED
      BY <3>1 DEF ByteOf
  <2>2. v[1] = 1 /\ v[2] = 1 /\ v[3] = 1 /\ v[4] = 0
    BY DEF CrcBits, Plus
  <2>3. v[5] = 1 /\ v[6] = 1 /\ v[7] = 0 /\ v[8] = 1
    BY DEF CrcBits, Plus
  <2> HIDE DEF u, v
  <2>4. ByteOf(v) = 237
    BY <2>2, <2>3 DEF ByteOf
  <2> QED
    BY <2>1, <2>4, CrcOfOctet DEF v
<1>14. CrcOfByte[18] = 126
  <2> DEFINE u == <<0, 0, 0, 1, 0, 0, 1, 0>>
             v == CrcBits(u)
  <2>1. u \in Octets /\ ByteOf(u) = 18
    <3>1. u \in Octets
      BY OctetOf DEF Bit
    <3> QED
      BY <3>1 DEF ByteOf
  <2>2. v[1] = 0 /\ v[2] = 1 /\ v[3] = 1 /\ v[4] = 1
    BY DEF CrcBits, Plus
  <2>3. v[5] = 1 /\ v[6] = 1 /\ v[7] = 1 /\ v[8] = 0
    BY DEF CrcBits, Plus
  <2> HIDE DEF u, v
  <2>4. ByteOf(v) = 126
    BY <2>2, <2>3 DEF ByteOf
  <2> QED
    BY <2>1, <2>4, CrcOfOctet DEF v
<1>15. CrcOfByte[129] = 142
  <2> DEFINE u == <<1, 0, 0, 0, 0, 0, 0, 1>>
             v == CrcBits(u)
  <2>1. u \in Octets /\ ByteOf(u) = 129
    <3>1. u \in Octets
      BY OctetOf DEF Bit
    <3> QED
      BY <3>1 DEF ByteOf
  <2>2. v[1] = 1 /\ v[2] = 0 /\ v[3] = 0 /\ v[4] = 0
    BY DEF CrcBits, Plus
  <2>3. v[5] = 1 /\ v[6] = 1 /\ v[7] = 1 /\ v[8] = 0
    BY DEF CrcBits, Plus
  <2> HIDE DEF u, v
  <2>4. ByteOf(v) = 142
    BY <2>2, <2>3 DEF ByteOf
  <2> QED
    BY <2>1, <2>4, CrcOfOctet DEF v
<1>16. CrcOfByte[113] = 80
  <2> DEFINE u == <<0, 1, 1, 1, 0, 0, 0, 1>>
             v == CrcBits(u)
  <2>1. u \in Octets /\ ByteOf(u) = 113
    <3>1. u \in Octets
      BY OctetOf DEF Bit
    <3> QED
      BY <3>1 DEF ByteOf
  <2>2. v[1] = 0 /\ v[2] = 1 /\ v[3] = 0 /\ v[4] = 1
    BY DEF CrcBits, Plus
  <2>3. v[5] = 0 /\ v[6] = 0 /\ v[7] = 0 /\ v[8] = 0
    BY DEF CrcBits, Plus
  <2> HIDE DEF u, v
  <2>4. ByteOf(v) = 80
    BY <2>2, <2>3 DEF ByteOf
  <2> QED
    BY <2>1, <2>4, CrcOfOctet DEF v
<1>17. CrcOfByte[175] = 68
  <2> DEFINE u == <<1, 0, 1, 0, 1, 1, 1, 1>>
             v == CrcBits(u)
  <2>1. u \in Octets /\ ByteOf(u) = 175
    <3>1. u \in Octets
      BY OctetOf DEF Bit
    <3> QED
      BY <3>1 DEF ByteOf
  <2>2. v[1] = 0 /\ v[2] = 1 /\ v[3] = 0 /\ v[4] = 0
    BY DEF CrcBits, Plus
  <2>3. v[5] = 0 /\ v[6] = 1 /\ v[7] = 0 /\ v[8] = 0
    BY DEF CrcBits, Plus
  <2> HIDE DEF u, v
  <2>4. ByteOf(v) = 68
    BY <2>2, <2>3 DEF ByteOf
  <2> QED
    BY <2>1, <2>4, CrcOfOctet DEF v
<1> QED
  BY <1>1, <1>2, <1>3, <1>4, <1>5, <1>6, <1>7, <1>8, <1>9,
     <1>10, <1>11, <1>12, <1>13, <1>14, <1>15, <1>16, <1>17

\* The sums that CrcValues needs.
LEMMA XorValues ==
  /\ Xor(114, 1) = 115 /\ Xor(94, 1) = 95 /\ Xor(94, 2) = 92 /\ Xor(94, 16) = 78
<1>1. Xor(114, 1) = 115
  <2> DEFINE u == <<0, 1, 1, 1, 0, 0, 1, 0>>
             v == <<0, 0, 0, 0, 0, 0, 0, 1>>
             w == Sum(u, v)
  <2>1. u \in Octets /\ v \in Octets
    BY OctetOf DEF Bit
  <2>2. ByteOf(u) = 114 /\ ByteOf(v) = 1
    BY DEF ByteOf
  <2>3. w[1] = 0 /\ w[2] = 1 /\ w[3] = 1 /\ w[4] = 1
    BY DEF Sum, Plus
  <2>4. w[5] = 0 /\ w[6] = 0 /\ w[7] = 1 /\ w[8] = 1
    BY DEF Sum, Plus
  <2> HIDE DEF u, v, w
  <2>5. ByteOf(w) = 115
    BY <2>3, <2>4 DEF ByteOf
  <2> QED
    BY <2>1, <2>2, <2>5, XorOfOctets DEF w
<1>2. Xor(94, 1) = 95
  <2> DEFINE u == <<0, 1, 0, 1, 1, 1, 1, 0>>
             v == <<0, 0, 0, 0, 0, 0, 0, 1>>
             w == Sum(u, v)
  <2>1. u \in Octets /\ v \in Octets
    BY OctetOf DEF Bit
  <2>2. ByteOf(u) = 94 /\ ByteOf(v) = 1
    BY DEF ByteOf
  <2>3. w[1] = 0 /\ w[2] = 1 /\ w[3] = 0 /\ w[4] = 1
    BY DEF Sum, Plus
  <2>4. w[5] = 1 /\ w[6] = 1 /\ w[7] = 1 /\ w[8] = 1
    BY DEF Sum, Plus
  <2> HIDE DEF u, v, w
  <2>5. ByteOf(w) = 95
    BY <2>3, <2>4 DEF ByteOf
  <2> QED
    BY <2>1, <2>2, <2>5, XorOfOctets DEF w
<1>3. Xor(94, 2) = 92
  <2> DEFINE u == <<0, 1, 0, 1, 1, 1, 1, 0>>
             v == <<0, 0, 0, 0, 0, 0, 1, 0>>
             w == Sum(u, v)
  <2>1. u \in Octets /\ v \in Octets
    BY OctetOf DEF Bit
  <2>2. ByteOf(u) = 94 /\ ByteOf(v) = 2
    BY DEF ByteOf
  <2>3. w[1] = 0 /\ w[2] = 1 /\ w[3] = 0 /\ w[4] = 1
    BY DEF Sum, Plus
  <2>4. w[5] = 1 /\ w[6] = 1 /\ w[7] = 0 /\ w[8] = 0
    BY DEF Sum, Plus
  <2> HIDE DEF u, v, w
  <2>5. ByteOf(w) = 92
    BY <2>3, <2>4 DEF ByteOf
  <2> QED
    BY <2>1, <2>2, <2>5, XorOfOctets DEF w
<1>4. Xor(94, 16) = 78
  <2> DEFINE u == <<0, 1, 0, 1, 1, 1, 1, 0>>
             v == <<0, 0, 0, 1, 0, 0, 0, 0>>
             w == Sum(u, v)
  <2>1. u \in Octets /\ v \in Octets
    BY OctetOf DEF Bit
  <2>2. ByteOf(u) = 94 /\ ByteOf(v) = 16
    BY DEF ByteOf
  <2>3. w[1] = 0 /\ w[2] = 1 /\ w[3] = 0 /\ w[4] = 0
    BY DEF Sum, Plus
  <2>4. w[5] = 1 /\ w[6] = 1 /\ w[7] = 1 /\ w[8] = 0
    BY DEF Sum, Plus
  <2> HIDE DEF u, v, w
  <2>5. ByteOf(w) = 78
    BY <2>3, <2>4 DEF ByteOf
  <2> QED
    BY <2>1, <2>2, <2>5, XorOfOctets DEF w
<1> QED
  BY <1>1, <1>2, <1>3, <1>4

\* The parities of the constant bytes.
LEMMA OddValues ==
  /\ Odd(165) = 0 /\ Odd(1) = 1 /\ Odd(17) = 0 /\ Odd(255) = 0
<1>1. Odd(165) = 0
  <2> DEFINE u == <<1, 0, 1, 0, 0, 1, 0, 1>>
  <2>1. u \in Octets
    BY OctetOf DEF Bit
  <2>2. ByteOf(u) = 165
    BY DEF ByteOf
  <2>3. Parity(u) = 0
    BY DEF Parity, Plus
  <2> HIDE DEF u
  <2>4. Bits(165) = u
    BY <2>1, <2>2, BitsOfByte
  <2> QED
    BY <2>3, <2>4 DEF Odd
<1>2. Odd(1) = 1
  <2> DEFINE u == <<0, 0, 0, 0, 0, 0, 0, 1>>
  <2>1. u \in Octets
    BY OctetOf DEF Bit
  <2>2. ByteOf(u) = 1
    BY DEF ByteOf
  <2>3. Parity(u) = 1
    BY DEF Parity, Plus
  <2> HIDE DEF u
  <2>4. Bits(1) = u
    BY <2>1, <2>2, BitsOfByte
  <2> QED
    BY <2>3, <2>4 DEF Odd
<1>3. Odd(17) = 0
  <2> DEFINE u == <<0, 0, 0, 1, 0, 0, 0, 1>>
  <2>1. u \in Octets
    BY OctetOf DEF Bit
  <2>2. ByteOf(u) = 17
    BY DEF ByteOf
  <2>3. Parity(u) = 0
    BY DEF Parity, Plus
  <2> HIDE DEF u
  <2>4. Bits(17) = u
    BY <2>1, <2>2, BitsOfByte
  <2> QED
    BY <2>3, <2>4 DEF Odd
<1>4. Odd(255) = 0
  <2> DEFINE u == <<1, 1, 1, 1, 1, 1, 1, 1>>
  <2>1. u \in Octets
    BY OctetOf DEF Bit
  <2>2. ByteOf(u) = 255
    BY DEF ByteOf
  <2>3. Parity(u) = 0
    BY DEF Parity, Plus
  <2> HIDE DEF u
  <2>4. Bits(255) = u
    BY <2>1, <2>2, BitsOfByte
  <2> QED
    BY <2>3, <2>4 DEF Odd
<1> QED
  BY <1>1, <1>2, <1>3, <1>4

\* The CRC register before each byte of a packet.
LEMMA PrefixCrc ==
  ASSUME NEW packet \in Packets
  PROVE  /\ Crc8(SubSeq(packet, 1, 0)) = 0
         /\ \A n \in 0 .. 7 :
              /\ Crc8(SubSeq(packet, 1, n)) \in Byte
              /\ Crc8(SubSeq(packet, 1, n + 1))
                   = CrcOfByte[Xor(Crc8(SubSeq(packet, 1, n)), packet[n + 1])]
         /\ Crc8(SubSeq(packet, 1, 8)) = Crc8(packet)
<1>1. SubSeq(packet, 1, 0) = <<>>
  BY SubSeqEmpty
<1>2. ASSUME NEW n \in 0 .. 7
      PROVE  /\ Crc8(SubSeq(packet, 1, n)) \in Byte
             /\ Crc8(SubSeq(packet, 1, n + 1))
                  = CrcOfByte[Xor(Crc8(SubSeq(packet, 1, n)), packet[n + 1])]
  <2> DEFINE part == SubSeq(packet, 1, n)
             byte == packet[n + 1]
  <2>1. part \in Seq(Byte) /\ SubSeq(packet, 1, n + 1) = Append(part, byte)
    BY PrefixGrows
  <2>2. byte \in Byte
    BY PacketBytes
  <2> HIDE DEF part, byte
  <2>3. Crc8(part) \in Byte /\ Crc8(Append(part, byte)) = CrcOfByte[Xor(Crc8(part), byte)]
    BY <2>1, <2>2, Crc8Append
  <2> QED
    BY <2>1, <2>3 DEF part, byte
<1>3. SubSeq(packet, 1, 8) = packet
  <2>1. 8 \in 1 .. 8
    OBVIOUS
  <2> QED
    BY <2>1, FedPrefix
<1> QED
  BY <1>1, <1>2, <1>3, Crc8Empty

\* The beginning of a packet and ones behind its type fail the CRC: with all ones
\* and with SnapshotEnd the number of inverted bits is odd, with the other types
\* the registers are those of CrcValues.
LEMMA TypeThenOnes ==
  ASSUME NEW packet \in Packets,
         packet[1] = SyncByte, packet[2] = Version, packet[3] \in {1, 2, 16, 17, 255},
         packet[4] = 255, packet[5] = 255, packet[6] = 255, packet[7] = 255, packet[8] = 255
  PROVE  Crc8(packet) # 0
<1> DEFINE c == [n \in 0 .. 8 |-> Crc8(SubSeq(packet, 1, n))]
<1>1. /\ c[0] = 0 /\ c[8] = Crc8(packet)
      /\ \A n \in 0 .. 7 : c[n] \in Byte /\ c[n + 1] = CrcOfByte[Xor(c[n], packet[n + 1])]
  BY PrefixCrc
<1> HIDE DEF c
<1>2. /\ c[1] = CrcOfByte[Xor(c[0], 165)]
      /\ c[2] = CrcOfByte[Xor(c[1], 1)]
      /\ c[3] = CrcOfByte[Xor(c[2], packet[3])]
      /\ c[4] = CrcOfByte[Xor(c[3], 255)]
  BY <1>1 DEF SyncByte, Version
<1>3. /\ c[5] = CrcOfByte[Xor(c[4], 255)]
      /\ c[6] = CrcOfByte[Xor(c[5], 255)]
      /\ c[7] = CrcOfByte[Xor(c[6], 255)]
      /\ c[8] = CrcOfByte[Xor(c[7], 255)]
  BY <1>1
<1>4. /\ 165 \in Byte /\ 1 \in Byte /\ 2 \in Byte /\ 16 \in Byte /\ 17 \in Byte /\ 255 \in Byte
      /\ 0 \in Byte
  BY DEF Byte
<1>5. \A n \in 0 .. 7 : c[n] \in Byte
  BY <1>1
<1>6. CASE packet[3] \in {17, 255}
  <2>1. \A a, b \in Byte : Odd(CrcOfByte[Xor(a, b)]) = Plus(Odd(a), Odd(b))
    BY XorRules, OddRules
  <2>2. packet[3] \in Byte /\ Odd(packet[3]) = 0
    BY <1>4, <1>6, OddValues
  <2>3. Odd(c[1]) = 0
    <3>1. Odd(c[0]) = 0 /\ c[0] \in Byte
      BY <1>1, <1>4, OddRules
    <3> QED
      BY <1>2, <1>4, <2>1, <3>1, OddValues DEF Plus
  <2>4. Odd(c[2]) = 1
    BY <1>2, <1>4, <1>5, <2>1, <2>3, OddValues DEF Plus
  <2>5. Odd(c[3]) = 1
    BY <1>2, <1>4, <1>5, <2>1, <2>2, <2>4 DEF Plus
  <2>6. Odd(c[4]) = 1
    BY <1>2, <1>4, <1>5, <2>1, <2>5, OddValues DEF Plus
  <2>7. Odd(c[5]) = 1
    BY <1>3, <1>4, <1>5, <2>1, <2>6, OddValues DEF Plus
  <2>8. Odd(c[6]) = 1
    BY <1>3, <1>4, <1>5, <2>1, <2>7, OddValues DEF Plus
  <2>9. Odd(c[7]) = 1
    BY <1>3, <1>4, <1>5, <2>1, <2>8, OddValues DEF Plus
  <2>10. Odd(c[8]) = 1
    BY <1>3, <1>4, <1>5, <2>1, <2>9, OddValues DEF Plus
  <2>11. Odd(0) = 0
    BY <1>4, OddRules
  <2> QED
    BY <1>1, <2>10, <2>11
<1>7. c[1] = 114
  <2>1. Xor(0, 165) = 165
    BY <1>4, XorRules
  <2> QED
    BY <1>1, <1>2, <2>1, CrcValues
<1>8. c[2] = 94
  BY <1>2, <1>7, XorValues, CrcValues
<1>9. CASE packet[3] = 1
  <2>1. c[3] = 154
    BY <1>2, <1>8, <1>9, XorValues, CrcValues
  <2>2. c[4] = 60
    <3>1. Xor(154, 255) = 101
      BY XorWithOnes DEF Byte
    <3> QED
      BY <1>2, <2>1, <3>1, CrcValues
  <2>3. c[5] = 71
    <3>1. Xor(60, 255) = 195
      BY XorWithOnes DEF Byte
    <3> QED
      BY <1>3, <2>2, <3>1, CrcValues
  <2>4. c[6] = 33
    <3>1. Xor(71, 255) = 184
      BY XorWithOnes DEF Byte
    <3> QED
      BY <1>3, <2>3, <3>1, CrcValues
  <2>5. c[7] = 20
    <3>1. Xor(33, 255) = 222
      BY XorWithOnes DEF Byte
    <3> QED
      BY <1>3, <2>4, <3>1, CrcValues
  <2>6. Xor(20, 255) = 235
    BY XorWithOnes DEF Byte
  <2>7. 235 \in Byte
    BY DEF Byte
  <2> QED
    BY <1>1, <1>3, <2>5, <2>6, <2>7, CrcOfZero
<1>10. CASE packet[3] = 2
  <2>1. c[3] = 147
    BY <1>2, <1>8, <1>10, XorValues, CrcValues
  <2>2. c[4] = 3
    <3>1. Xor(147, 255) = 108
      BY XorWithOnes DEF Byte
    <3> QED
      BY <1>2, <2>1, <3>1, CrcValues
  <2>3. c[5] = 250
    <3>1. Xor(3, 255) = 252
      BY XorWithOnes DEF Byte
    <3> QED
      BY <1>3, <2>2, <3>1, CrcValues
  <2>4. c[6] = 27
    <3>1. Xor(250, 255) = 5
      BY XorWithOnes DEF Byte
    <3> QED
      BY <1>3, <2>3, <3>1, CrcValues
  <2>5. c[7] = 178
    <3>1. Xor(27, 255) = 228
      BY XorWithOnes DEF Byte
    <3> QED
      BY <1>3, <2>4, <3>1, CrcValues
  <2>6. Xor(178, 255) = 77
    BY XorWithOnes DEF Byte
  <2>7. 77 \in Byte
    BY DEF Byte
  <2> QED
    BY <1>1, <1>3, <2>5, <2>6, <2>7, CrcOfZero
<1>11. CASE packet[3] = 16
  <2>1. c[3] = 237
    BY <1>2, <1>8, <1>11, XorValues, CrcValues
  <2>2. c[4] = 126
    <3>1. Xor(237, 255) = 18
      BY XorWithOnes DEF Byte
    <3> QED
      BY <1>2, <2>1, <3>1, CrcValues
  <2>3. c[5] = 142
    <3>1. Xor(126, 255) = 129
      BY XorWithOnes DEF Byte
    <3> QED
      BY <1>3, <2>2, <3>1, CrcValues
  <2>4. c[6] = 80
    <3>1. Xor(142, 255) = 113
      BY XorWithOnes DEF Byte
    <3> QED
      BY <1>3, <2>3, <3>1, CrcValues
  <2>5. c[7] = 68
    <3>1. Xor(80, 255) = 175
      BY XorWithOnes DEF Byte
    <3> QED
      BY <1>3, <2>4, <3>1, CrcValues
  <2>6. Xor(68, 255) = 187
    BY XorWithOnes DEF Byte
  <2>7. 187 \in Byte
    BY DEF Byte
  <2> QED
    BY <1>1, <1>3, <2>5, <2>6, <2>7, CrcOfZero
<1> QED
  BY <1>6, <1>9, <1>10, <1>11
-----------------------------------------------------------------------------
(* What the master decodes *)

\* Division by 256.
LEMMA LowByte ==
  ASSUME NEW n \in Int
  PROVE  n % 256 \in 0 .. 255 /\ n \div 256 \in Int /\ n = 256 * (n \div 256) + (n % 256)
BY SMT

\* The quotient of the quotient.
LEMMA HighByte ==
  ASSUME NEW n \in Int
  PROVE  n \div 65536 = (n \div 256) \div 256
<1> DEFINE low == n % 256
           rest == n \div 256
           middle == rest % 256
           high == rest \div 256
<1>1. low \in 0 .. 255 /\ rest \in Int /\ n = 256 * rest + low
  BY LowByte
<1> HIDE DEF low, rest
<1>2. middle \in 0 .. 255 /\ high \in Int /\ rest = 256 * high + middle
  BY <1>1, LowByte
<1> HIDE DEF middle, high
<1>3. 65536 * high <= n /\ n < 65536 * high + 65536
  BY <1>1, <1>2, SMT
<1>4. n \div 65536 = high
  BY <1>2, <1>3, SMT
<1> QED
  BY <1>4 DEF rest, high

\* The limits of 24 bits.
LEMMA CountLimits ==
  /\ Signed24Minimum \in Int /\ Signed24Maximum \in Int
  /\ Signed24Minimum + 8388608 = 0 /\ Signed24Maximum = 8388607
BY SMT DEF Signed24Minimum, Signed24Maximum

\* The range of 24 bits.
LEMMA CountRange ==
  ASSUME NEW count \in Signed24Minimum .. Signed24Maximum
  PROVE  count \in Int /\ 0 <= count + 8388608 /\ count <= 8388607
<1>1. Signed24Minimum \in Int /\ Signed24Maximum \in Int
  BY CountLimits
<1>2. count \in Int /\ Signed24Minimum <= count /\ count <= Signed24Maximum
  BY <1>1
<1>3. Signed24Minimum + 8388608 = 0 /\ Signed24Maximum = 8388607
  BY CountLimits
<1> QED
  BY <1>1, <1>2, <1>3, SMT

\* A count of 24 bits is the number that its three bytes encode.
LEMMA CountDecoded ==
  ASSUME NEW count \in Signed24Minimum .. Signed24Maximum, NEW raw,
         raw = (count % 256) + 256 * ((count \div 256) % 256) + 65536 * ((count \div 65536) % 256)
  PROVE  count = IF raw >= 8388608 THEN raw - 16777216 ELSE raw
<1> DEFINE low == count % 256
           rest == count \div 256
           middle == rest % 256
           high == rest \div 256
           top == high % 256
<1>1. count \in Int /\ 0 <= count + 8388608 /\ count <= 8388607
  BY CountRange
<1>2. low \in 0 .. 255 /\ rest \in Int /\ count = 256 * rest + low
  BY <1>1, LowByte
<1>3. raw = low + 256 * middle + 65536 * top
  BY <1>1, HighByte
<1> HIDE DEF low, rest
<1>4. middle \in 0 .. 255 /\ high \in Int /\ rest = 256 * high + middle
  BY <1>2, LowByte
<1> HIDE DEF middle
<1>5. 0 <= high + 128 /\ high <= 127
  <2> HIDE DEF high
  <2> QED
    BY <1>1, <1>2, <1>4, SMT
<1>6. (high < 0 => top = high + 256) /\ (high >= 0 => top = high)
  <2> HIDE DEF high
  <2> QED
    BY <1>4, <1>5, SMT
<1> HIDE DEF high, top
<1>7. count = 65536 * high + 256 * middle + low
  BY <1>2, <1>4, SMT
<1>8. CASE high < 0
  <2>1. raw = count + 16777216 /\ count + 1 <= 0
    BY <1>2, <1>3, <1>4, <1>6, <1>7, <1>8, SMT
  <2> QED
    BY <1>1, <2>1, SMT
<1>9. CASE high >= 0
  <2>1. raw = count
    BY <1>2, <1>3, <1>4, <1>6, <1>7, <1>9, SMT
  <2> QED
    BY <1>1, <2>1, SMT
<1> QED
  BY <1>4, <1>8, <1>9, SMT

\* The master's decoder takes the bytes the firmware's takes.
LEMMA CountRead ==
  ASSUME NEW packet \in Packets
  PROVE  /\ McmSpiParamStateValue(packet) = ReadSigned24(packet)
         /\ ReadSigned24(packet) =
              LET raw == packet[5] + 256 * packet[6] + 65536 * packet[7]
              IN  IF raw >= 8388608 THEN raw - 16777216 ELSE raw
<1> DEFINE data == SubSeq(packet, 5, 7)
<1>1. data[1] = packet[5] /\ data[2] = packet[6] /\ data[3] = packet[7]
  <2>1. 5 \in Int /\ 7 \in Int
    OBVIOUS
  <2>2. \A n \in 5 .. 7 : packet[n] \in Byte
    <3>1. \A n \in 5 .. 7 : n \in 1 .. 8
      OBVIOUS
    <3> QED
      BY <3>1, PacketBytes
  <2>3. \A n \in 1 .. 7 - 5 + 1 : data[n] = packet[5 + n - 1]
    BY <2>1, <2>2, SubSeqProperties
  <2> HIDE DEF data
  <2> QED
    BY <2>3
<1>2. McmSpiParamStateValue(packet) = McmSpiDecodeI24(data)
  BY DEF McmSpiParamStateValue
<1> HIDE DEF data
<1> QED
  BY <1>1, <1>2 DEF McmSpiDecodeI24, ReadSigned24

\* Both sides of the repository lay out the same packet.
LEMMA SameBuilder ==
  ASSUME NEW type, NEW index, NEW data
  PROVE  McmSpiInitPacket(type, index, data) = MakePacket(type, index, data)
BY McmSpiCrc8IsCrc8 DEF McmSpiInitPacket, MakePacket

\* ValidControlMask keeps the bits of the six controls.
LEMMA MaskBits ==
  63 \in Byte /\ \A k \in 3 .. 8 : Bits(63)[k] = 1
<1> DEFINE u == <<0, 0, 1, 1, 1, 1, 1, 1>>
<1>1. u \in Octets
  BY OctetOf DEF Bit
<1>2. ByteOf(u) = 63
  BY DEF ByteOf
<1>3. \A k \in 3 .. 8 : k = 3 \/ k = 4 \/ k = 5 \/ k = 6 \/ k = 7 \/ k = 8
  OBVIOUS
<1>4. u[3] = 1 /\ u[4] = 1 /\ u[5] = 1 /\ u[6] = 1 /\ u[7] = 1 /\ u[8] = 1
  OBVIOUS
<1> HIDE DEF u
<1>5. Bits(63) = u
  BY <1>1, <1>2, BitsOfByte
<1> QED
  BY <1>3, <1>4, <1>5 DEF Byte

\* The master decodes the index and the nearest count.
LEMMA EncoderUnderstood ==
  ASSUME NEW response \in Responses, response.type = "EncoderState"
  PROVE  Understood(response, Built(response))
<1> DEFINE index == response.index
           value == response.value
           packet == MakeEncoderState(index, value)
           count == ClampSigned24(value)
<1>1. index \in Byte /\ value \in Int
  BY ResponseKinds
<1>2. Built(response) = packet
  BY DEF Built
<1> HIDE DEF index, value
<1>3. /\ EnvelopeOK(packet, "EncoderState") /\ packet[4] = index
      /\ packet[5] = count % 256
      /\ packet[6] = (count \div 256) % 256
      /\ packet[7] = (count \div 65536) % 256
  BY <1>1, EncoderPacket
<1>4. /\ count \in Signed24Minimum .. Signed24Maximum /\ Nearest(count, value)
      /\ value \in Signed24Minimum .. Signed24Maximum => count = value
  BY <1>1, Clamped
<1>5. value \in Signed24Minimum .. Signed24Maximum => packet = McmSpiMakeParamState(index, value)
  <2> SUFFICES ASSUME value \in Signed24Minimum .. Signed24Maximum
               PROVE  packet = McmSpiMakeParamState(index, value)
    OBVIOUS
  <2>1. WriteSigned24(value) = McmSpiEncodeI24(value)
    BY <1>4 DEF WriteSigned24, McmSpiEncodeI24
  <2> QED
    BY <2>1, SameBuilder DEF MakeEncoderState, McmSpiMakeParamState
<1> HIDE DEF packet, count
<1>6. packet \in Packets /\ packet[3] = TypeByte["EncoderState"]
  BY <1>3 DEF EnvelopeOK
<1>7. ReadSigned24(packet) = count /\ McmSpiParamStateValue(packet) = count
  <2> DEFINE raw == packet[5] + 256 * packet[6] + 65536 * packet[7]
  <2>3. raw = (count % 256) + 256 * ((count \div 256) % 256) + 65536 * ((count \div 65536) % 256)
    BY <1>3
  <2> HIDE DEF raw
  <2>1. count = IF raw >= 8388608 THEN raw - 16777216 ELSE raw
    BY <1>4, <2>3, CountDecoded
  <2>2. /\ McmSpiParamStateValue(packet) = ReadSigned24(packet)
        /\ ReadSigned24(packet) = IF raw >= 8388608 THEN raw - 16777216 ELSE raw
    BY <1>6, CountRead DEF raw
  <2> QED
    BY <2>1, <2>2
<1>8. response.type = "EncoderState"
  OBVIOUS
<1> QED
  BY <1>2, <1>3, <1>4, <1>5, <1>6, <1>7, <1>8 DEF Understood, index, value

\* The master decodes the states of all six buttons.
LEMMA ButtonUnderstood ==
  ASSUME NEW response \in Responses, response.type = "ButtonState"
  PROVE  Understood(response, Built(response))
<1> DEFINE pressed == response.value
           longHeld == response.longHeld
           packet == MakeButtonState(pressed, longHeld)
<1>1. pressed \in Byte /\ longHeld \in Byte
  BY ResponseKinds
<1>2. Built(response) = packet
  BY DEF Built
<1> HIDE DEF pressed, longHeld
<1>3. /\ EnvelopeOK(packet, "ButtonState")
      /\ packet[5] = And(pressed, 63) /\ packet[6] = And(longHeld, 63)
      /\ packet[7] = ControlCount
  BY <1>1, ButtonPacket DEF ValidControlMask
<1> HIDE DEF packet
<1>4. packet[3] = TypeByte["ButtonState"]
  BY <1>3 DEF EnvelopeOK
<1>5. ASSUME NEW c \in 0 .. ControlCount - 1, NEW byte \in Byte
      PROVE  Bits(And(byte, 63))[8 - c] = Bits(byte)[8 - c]
  <2>1. 8 - c \in 3 .. 8 /\ 8 - c \in 1 .. 8
    BY DEF ControlCount
  <2>2. Bits(63)[8 - c] = 1 /\ 63 \in Byte
    BY <2>1, MaskBits
  <2>3. Bits(And(byte, 63))[8 - c] = Bits(byte)[8 - c] * Bits(63)[8 - c]
    BY <2>1, <2>2, AndBits
  <2>4. Bits(byte)[8 - c] \in {0, 1}
    BY <2>1, BitsType DEF Octets, Bit
  <2> QED
    BY <2>2, <2>3, <2>4
<1>6. \A c \in 0 .. ControlCount - 1 :
        /\ Bits(packet[5])[8 - c] = Bits(pressed)[8 - c]
        /\ Bits(packet[6])[8 - c] = Bits(longHeld)[8 - c]
  BY <1>1, <1>3, <1>5
<1>7. response.type = "ButtonState"
  OBVIOUS
<1> QED
  BY <1>2, <1>3, <1>4, <1>6, <1>7 DEF Understood, pressed, longHeld

\* A sequence of one byte in two.
LEMMA SequenceBytes ==
  ASSUME NEW sequence \in Byte
  PROVE  ByteAt(sequence, 0) = sequence /\ ByteAt(sequence, 1) = 0
<1>1. /\ sequence \in Int /\ sequence % 256 = sequence
      /\ sequence \div 1 = sequence /\ (sequence \div 256) % 256 = 0
  BY DEF Byte
<1>2. ByteAt(sequence, 0) = (sequence \div 1) % 256
  BY DEF ByteAt
<1>3. ByteAt(sequence, 1) = (sequence \div 256) % 256
  BY DEF ByteAt
<1> QED
  BY <1>1, <1>2, <1>3, Zenon

\* The master decodes the sequence.
LEMMA BoundaryUnderstood ==
  ASSUME NEW response \in Responses, response.type \in {"SnapshotBegin", "SnapshotEnd"}
  PROVE  Understood(response, Built(response))
<1> DEFINE type == response.type
           sequence == response.value
           packet == MakeSnapshotBoundary(type, sequence)
<1>1. type \in {"SnapshotBegin", "SnapshotEnd"} /\ sequence \in Byte
  BY ResponseKinds
<1>2. Built(response) = packet
  BY <1>1 DEF Built
<1> HIDE DEF type, sequence
<1>3. /\ EnvelopeOK(packet, type) /\ packet[4] = ControlCount
      /\ packet[5] = sequence /\ packet[6] = 0
  BY <1>1, BoundaryPacket
<1>4. packet = McmSpiMakeSnapshotBoundary(type, sequence, 0)
  <2>1. ByteAt(sequence, 0) = sequence /\ ByteAt(sequence, 1) = 0
    BY <1>1, SequenceBytes
  <2> QED
    BY <2>1, SameBuilder DEF MakeSnapshotBoundary, McmSpiMakeSnapshotBoundary
<1> HIDE DEF packet
<1>5. packet[3] = TypeByte[type]
  BY <1>3 DEF EnvelopeOK
<1>6. McmSpiSnapshotSequence(packet) = sequence
  <2>1. sequence \in Int
    BY <1>1 DEF Byte
  <2> QED
    BY <1>3, <2>1 DEF McmSpiSnapshotSequence
<1> QED
  BY <1>1, <1>2, <1>3, <1>4, <1>5, <1>6 DEF Understood, type, sequence

\* Two bytes out of the middle.
LEMMA MiddleBytes ==
  ASSUME NEW one \in Packets, NEW other \in Packets, one[3] = other[3], one[4] = other[4]
  PROVE  SubSeq(one, 3, 4) = SubSeq(other, 3, 4)
<1> DEFINE p == SubSeq(one, 3, 4)
           q == SubSeq(other, 3, 4)
<1>1. 3 \in Int /\ 4 \in Int
  OBVIOUS
<1>2. \A n \in 3 .. 4 : n \in 1 .. 8
  OBVIOUS
<1>3. \A n \in 3 .. 4 : one[n] \in Byte
  BY <1>2, PacketBytes
<1>4. \A n \in 3 .. 4 : other[n] \in Byte
  BY <1>2, PacketBytes
<1>5. /\ p \in Seq(Byte) /\ Len(p) = IF 3 <= 4 THEN 4 - 3 + 1 ELSE 0
      /\ \A n \in 1 .. 4 - 3 + 1 : p[n] = one[3 + n - 1]
  BY <1>1, <1>3, SubSeqProperties
<1>6. /\ q \in Seq(Byte) /\ Len(q) = IF 3 <= 4 THEN 4 - 3 + 1 ELSE 0
      /\ \A n \in 1 .. 4 - 3 + 1 : q[n] = other[3 + n - 1]
  BY <1>1, <1>4, SubSeqProperties
<1> HIDE DEF p, q
<1>7. /\ p \in Seq(Byte) /\ q \in Seq(Byte) /\ Len(p) = 2 /\ Len(q) = 2
      /\ p[1] = one[3] /\ p[2] = one[4] /\ q[1] = other[3] /\ q[2] = other[4]
  BY <1>5, <1>6
<1>8. \A n \in 1 .. 2 : p[n] = q[n]
  <2>1. \A n \in 1 .. 2 : n = 1 \/ n = 2
    OBVIOUS
  <2> QED
    BY <1>7, <2>1
<1>9. p = q
  BY <1>7, <1>8, SeqEqual
<1> QED
  BY <1>9 DEF p, q

\* A CRC of 0 settles the last byte.
LEMMA SameHead ==
  ASSUME NEW one \in Packets, NEW other \in Packets,
         Crc8(one) = 0, Crc8(other) = 0, \A n \in 1 .. 7 : one[n] = other[n]
  PROVE  one = other
<1> DEFINE p == SubSeq(one, 1, 7)
           q == SubSeq(other, 1, 7)
<1>1. /\ p \in Seq(Byte) /\ Len(p) = 7 /\ (\A n \in 1 .. 7 : p[n] = one[n])
      /\ one = Append(p, one[8])
  BY PacketHead
<1>2. /\ q \in Seq(Byte) /\ Len(q) = 7 /\ (\A n \in 1 .. 7 : q[n] = other[n])
      /\ other = Append(q, other[8])
  BY PacketHead
<1>3. one[8] = Crc8(p) /\ other[8] = Crc8(q)
  BY CrcOfPacket
<1> HIDE DEF p, q
<1>4. p = q
  BY <1>1, <1>2, SeqEqual
<1> QED
  BY <1>1, <1>2, <1>3, <1>4

-----------------------------------------------------------------------------
(* The theorems *)

\* Registers stay registers, and what leaves them are bytes, whatever the
\* responses, the requests and the noise.
THEOREM TypeCorrect == Spec => []TypeOK
<1>1. WireInv => TypeOK
  <2> SUFFICES ASSUME WireInv
               PROVE  TypeOK
    OBVIOUS
  <2>1. frame.fed \in Seq(Byte)
    BY FrameFacts DEF WireInv, FrameOK
  <2> QED
    BY <2>1 DEF WireInv, RegistersOK, TypeOK
<1> QED
  BY <1>1, WireInvariant, PTL

\* Without noise a packet fed whole is read as it was built.
LEMMA ReadAsFed ==
  ASSUME WireInv, FrameDone, Len(frame.fed) = PacketLength, flips = 0
  PROVE  read = frame.fed
<1>1. frame.fed \in Packets
  BY WholePacket DEF WireInv, FrameOK
<1>2. frame.fed \in Seq(Byte) /\ Len(frame.fed) = 8
  BY <1>1, PacketBytes
<1>3. read \in Seq(Byte) /\ Len(read) = 8
  BY DEF WireInv, RegistersOK, FrameDone, PacketLength
<1>4. \A n \in 1 .. 8 : read[n] = frame.fed[n]
  BY <1>2, <1>3 DEF WireInv, CleanOK
<1> QED
  BY <1>2, <1>3, <1>4, SeqEqual

\* A response fed in time is read, accepted and understood as the firmware stated
\* it: every control index and count, also beyond 24 bits, all button states and
\* every sequence.
THEOREM WholePacketsReadBack == Spec => []ResponseReadsBack
<1>1. WireInv => ResponseReadsBack
  <2> SUFFICES ASSUME WireInv, FrameDone, Len(frame.fed) = PacketLength, flips = 0
               PROVE  McmSpiPacketIsValid(read) /\ Understood(frame.response, read)
    BY DEF ResponseReadsBack
  <2>1. frame.response \in Responses /\ frame.fed = Built(frame.response)
    BY WholePacket DEF WireInv, FrameOK
  <2>2. read = Built(frame.response)
    BY <2>1, ReadAsFed
  <2>3. McmSpiPacketIsValid(read)
    BY <2>1, <2>2, BuiltPacket
  <2>4. Understood(frame.response, read)
    BY <2>1, <2>2, ResponseKinds, EncoderUnderstood, ButtonUnderstood, BoundaryUnderstood
  <2> QED
    BY <2>3, <2>4
<1> QED
  BY <1>1, WireInvariant, PTL

\* As long as noise inverts at most three bits of a frame, what the master accepts
\* is what the firmware sent: the CRC-8 of 64 bits has distance 4, and neither
\* filler of an idle frame is closer to the sync byte.
THEOREM NoDamagedPacketAccepted ==
  ASSUME MaxFlips <= 3
  PROVE  Spec => []ValidMeansSent
<1>1. WireInv => ValidMeansSent
  <2> SUFFICES ASSUME WireInv, FrameDone, ~Starved, McmSpiPacketIsValid(read)
               PROVE  read = frame.fed
    BY DEF ValidMeansSent
  <2>1. FrameOK /\ RegistersOK /\ NoisyOK /\ IdleOK
    BY DEF WireInv
  <2>2. frame.fed \in Seq(Byte) /\ Len(frame.fed) \in 0 .. 8
    BY <2>1, FrameFacts DEF FrameOK
  <2>3. read \in Packets
    BY <2>1 DEF RegistersOK, FrameDone, PacketLength, Packets
  <2>4. Crc8(read) = 0 /\ read[1] = SyncByte
    BY <2>3, ValidPacketCrc
  <2>5. CASE Len(frame.fed) = 0
    <3>1. frame.fed = <<>>
      BY <2>2, <2>5, EmptySeq
    <3>2. read # <<>>
      <4>1. Len(<<>>) = 0
        BY EmptySeq
      <4>2. Len(read) = 8
        BY <2>3, PacketBytes
      <4> SUFFICES ASSUME read = <<>>
                   PROVE  FALSE
        OBVIOUS
      <4> QED
        BY <4>1, <4>2
    <3> QED
      BY <2>1, <2>4, <3>1, <3>2 DEF IdleOK
  <2>6. CASE Len(frame.fed) = 8
    <3>1. Len(frame.fed) = PacketLength
      BY <2>6 DEF PacketLength
    <3>2. /\ frame.response \in Responses /\ frame.fed = Built(frame.response)
          /\ frame.fed \in Packets
      BY <2>1, <3>1, WholePacket DEF FrameOK
    <3>3. Crc8(frame.fed) = 0
      BY <3>2, BuiltPacket
    <3>4. SubSeq(frame.fed, 1, Len(read)) = frame.fed
      <4>1. Len(read) = 8 /\ 8 \in 1 .. 8
        BY <2>3 DEF Packets
      <4> QED
        BY <3>2, <4>1, FedPrefix
    <3>5. Difference(read, frame.fed) = 0
      <4>1. 0 \in Byte
        BY DEF Byte
      <4>2. Xor(0, 0) = 0
        BY <4>1, XorRules
      <4> QED
        BY <2>4, <3>3, <4>2 DEF Difference
    <3>6. DamageOK(flips, 0, Len(read))
      BY <2>1, <3>1, <3>4, <3>5 DEF NoisyOK
    <3>7. flips \notin 1 .. 3
      BY <3>6, DamageShows
    <3>8. flips = 0
      BY <2>1, <3>7, WireAssumption DEF RegistersOK
    <3> QED
      BY <3>1, <3>8, ReadAsFed
  <2>7. ~(Len(frame.fed) \in 1 .. 7)
    BY DEF Starved, PacketLength
  <2> QED
    BY <2>2, <2>5, <2>6, <2>7
<1> QED
  BY <1>1, WireInvariant, PTL

\* A frame whose FIFO runs dry after one to seven bytes: what the master accepts
\* keeps the type and the index, and a boundary with other data has a sequence
\* or a status that no boundary of the firmware has.
THEOREM StarvedFramesKeepTheirKind == Spec => []StarvedKeepsItsKind
<1>1. WireInv => StarvedKeepsItsKind
  <2> DEFINE response == frame.response
             sent == Built(response)
             count == Len(frame.fed)
  <2> SUFFICES ASSUME WireInv, FrameDone, Starved, McmSpiPacketIsValid(read)
               PROVE  /\ SubSeq(read, 3, 4) = SubSeq(sent, 3, 4)
                      /\ response.type \in {"SnapshotBegin", "SnapshotEnd"} /\ read # sent =>
                           \/ McmSpiSnapshotSequence(read) \notin Byte
                           \/ read[7] # 0
    BY DEF StarvedKeepsItsKind
  <2>1. FrameOK /\ RegistersOK /\ CleanOK
    BY DEF WireInv
  <2>2. count \in 1 .. 7 /\ flips = 0
    BY <2>1 DEF Starved, PacketLength, FrameOK
  <2>3. read \in Packets
    BY <2>1 DEF RegistersOK, FrameDone, PacketLength, Packets
  <2>4. Crc8(read) = 0 /\ read[1] = SyncByte /\ read[2] = Version
    BY <2>3, ValidPacketCrc
  <2>5. response \in Responses /\ frame.fed = SubSeq(sent, 1, count)
    <3>1. frame.fed # <<>>
      <4>1. Len(<<>>) = 0
        BY EmptySeq
      <4>2. Len(frame.fed) # 0
        BY <2>2
      <4> QED
        BY <4>1, <4>2, Zenon
    <3> QED
      BY <2>1, <3>1, FrameFacts DEF FrameOK
  <2>6. sent \in Packets /\ sent[3] = TypeByte[response.type] /\ EnvelopeOK(sent, response.type)
    BY <2>5, BuiltPacket DEF EnvelopeOK
  <2> HIDE DEF sent, count
  <2>7. \A n \in 1 .. 8 : /\ n <= count => read[n] = sent[n]
                          /\ n > count => read[n] = 255
    <3>1. Len(read) = 8
      BY <2>3, PacketBytes
    <3>2. \A n \in 1 .. count : frame.fed[n] = sent[n]
      <4>1. count \in 1 .. 8
        BY <2>2
      <4>2. \A n \in 1 .. count : SubSeq(sent, 1, count)[n] = sent[n]
        BY <2>6, <4>1, FedPrefix
      <4> QED
        BY <2>5, <4>2
    <3>3. \A n \in 1 .. 8 : /\ n <= count => read[n] = frame.fed[n]
                            /\ n > count /\ n # 1 => read[n] = 255
      BY <2>1, <2>2, <3>1 DEF CleanOK, count
    <3> QED
      BY <2>2, <3>2, <3>3
  <2>8. TypeByte[response.type] \in {1, 2, 16, 17}
    BY <2>5, ResponseKinds DEF TypeByte
  <2>9. count # 1
    BY <2>4, <2>7 DEF Version
  <2>10. ~(count = 2 \/ count = 3)
    <3> SUFFICES ASSUME count = 2 \/ count = 3
                 PROVE  FALSE
      OBVIOUS
    <3>1. read[3] \in {1, 2, 16, 17, 255}
      BY <2>6, <2>7, <2>8
    <3>2. read[4] = 255 /\ read[5] = 255 /\ read[6] = 255 /\ read[7] = 255 /\ read[8] = 255
      BY <2>7
    <3> QED
      BY <2>3, <2>4, <3>1, <3>2, TypeThenOnes
  <2>11. count \in 4 .. 7
    BY <2>2, <2>9, <2>10
  <2>12. read[3] = sent[3] /\ read[4] = sent[4]
    BY <2>7, <2>11
  <2>13. SubSeq(read, 3, 4) = SubSeq(sent, 3, 4)
    BY <2>3, <2>6, <2>12, MiddleBytes
  <2>14. ASSUME response.type \in {"SnapshotBegin", "SnapshotEnd"}, read # sent
         PROVE  McmSpiSnapshotSequence(read) \notin Byte \/ read[7] # 0
    <3>1. \A n \in 1 .. 8 : read[n] \in Byte
      BY <2>3, PacketBytes
    <3>2. CASE count \in 4 .. 5
      <4>1. read[6] = 255
        BY <2>7, <3>2
      <4>2. read[5] \in 0 .. 255
        BY <3>1 DEF Byte
      <4> DEFINE low == read[5]
                 sequence == McmSpiSnapshotSequence(read)
      <4>3. sequence = low + 256 * read[6]
        BY DEF McmSpiSnapshotSequence
      <4> HIDE DEF low, sequence
      <4>4. low \in Int /\ 0 <= low
        BY <4>2 DEF low
      <4>5. sequence = low + 65280
        BY <4>1, <4>3, <4>4
      <4>6. sequence \notin Byte
        BY <4>4, <4>5 DEF Byte
      <4> QED
        BY <4>6 DEF sequence
    <3>3. CASE count = 6
      BY <2>7, <3>3
    <3>4. CASE count = 7
      <4>1. \A n \in 1 .. 7 : read[n] = sent[n]
        BY <2>7, <3>4
      <4>2. read = sent
        <5>1. Crc8(sent) = 0
          BY <2>5, BuiltPacket DEF sent
        <5> QED
          BY <2>3, <2>4, <2>6, <4>1, <5>1, SameHead
      <4> QED
        BY <2>14, <4>2
    <3> QED
      BY <2>11, <3>2, <3>3, <3>4
  <2> QED
    BY <2>13, <2>14
<1> QED
  BY <1>1, WireInvariant, PTL

\* The sync byte reads the same from both ends, the version does not.
LEMMA ReversedHeader == Reversed(SyncByte) = SyncByte /\ Reversed(Version) = 128
<1>1. ASSUME NEW u \in Octets, NEW v \in Octets, \A k \in 1 .. 8 : v[k] = u[9 - k]
      PROVE  Reversed(ByteOf(u)) = ByteOf(v)
  <2>1. Bits(ByteOf(u)) = u
    BY BitsOfByte
  <2>2. v = [k \in 1 .. 8 |-> u[9 - k]]
    BY <1>1 DEF Octets
  <2> QED
    BY <2>1, <2>2 DEF Reversed
<1> DEFINE sync == <<1, 0, 1, 0, 0, 1, 0, 1>>
           version == <<0, 0, 0, 0, 0, 0, 0, 1>>
           turned == <<1, 0, 0, 0, 0, 0, 0, 0>>
<1>2. sync \in Octets /\ version \in Octets /\ turned \in Octets
  BY OctetOf DEF Bit
<1>3. ByteOf(sync) = SyncByte /\ ByteOf(version) = Version /\ ByteOf(turned) = 128
  BY DEF ByteOf, SyncByte, Version
<1>4. \A k \in 1 .. 8 : k = 1 \/ k = 2 \/ k = 3 \/ k = 4 \/ k = 5 \/ k = 6 \/ k = 7 \/ k = 8
  OBVIOUS
<1>5. \A k \in 1 .. 8 : sync[k] = sync[9 - k]
  BY <1>4
<1>6. \A k \in 1 .. 8 : turned[k] = version[9 - k]
  BY <1>4
<1> HIDE DEF sync, version, turned
<1>7. Reversed(ByteOf(sync)) = ByteOf(sync)
  BY <1>1, <1>2, <1>5
<1>8. Reversed(ByteOf(version)) = ByteOf(turned)
  BY <1>1, <1>2, <1>6
<1> QED
  BY <1>3, <1>7, <1>8

\* No command reaches the dispatcher, whatever its type, index and data: its
\* version byte arrives as 128.
THEOREM CommandsAreTurnedAround == Spec => []EveryCommandIsBadVersion
<1>1. WireInv => EveryCommandIsBadVersion
  <2> SUFFICES ASSUME WireInv, FrameDone, McmSpiPacketIsValid(frame.request)
               PROVE  Validate(received) = "BadVersion"
    BY DEF EveryCommandIsBadVersion
  <2>1. Len(received) = 8 /\ \A n \in 1 .. Len(received) : received[n] = Reversed(frame.request[n])
    BY DEF WireInv, RegistersOK, ReversedOK, FrameDone, PacketLength
  <2>2. frame.request[1] = SyncByte /\ frame.request[2] = Version
    BY DEF McmSpiPacketIsValid
  <2>3. received[1] = Reversed(SyncByte) /\ received[2] = Reversed(Version)
    BY <2>1, <2>2
  <2>4. received[1] = SyncByte /\ received[2] # Version
    BY <2>3, ReversedHeader DEF Version
  <2> QED
    BY <2>4 DEF Validate
<1> QED
  BY <1>1, WireInvariant, PTL
=============================================================================
