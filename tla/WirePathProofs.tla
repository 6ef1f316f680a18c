--------------------------- MODULE WirePathProofs ---------------------------
(***************************************************************************)
(* Proofs about WirePath, for any command lines clap lets through, any     *)
(* faults and any number of commands: the bytes of every request, report   *)
(* and frame are followed from the operator to the chip and back.          *)
(*                                                                         *)
(* The multi-part conclusions of some lemmas have names of their own       *)
(* (Laid, Taken, Carries, ...): the provers then match one fact.           *)
(***************************************************************************)
EXTENDS WirePathInv, SequenceTheorems, WellFoundedInduction, TLAPS

(***************************************************************************)
(* The CRC-16 of the chip's frames.  What one byte does to the register    *)
(* is followed bit by bit, what a buffer does byte by byte; both are       *)
(* functions of a number, and the induction is over a least exception.     *)
(***************************************************************************)
(* A set of numbers has a least one.                                       *)
LEMMA Least ==
  ASSUME NEW T \in SUBSET Nat, T # {}
  PROVE  \E x \in T : \A y \in T : x <= y
<1>1. IsWellFoundedOn(OpToRel(<, Nat), Nat)
  BY Zenon, NatLessThanWellFounded
<1>2. PICK x \in T : \A y \in T : ~ (<<y, x>> \in OpToRel(<, Nat))
  BY <1>1, WFMin, Zenon
<1>3. \A y \in T : ~(y < x)
  BY <1>2, Zenon DEF OpToRel
<1>4. \A y \in T : y \in Nat
  OBVIOUS
<1> QED BY <1>3, <1>4

(* Induction, with a set in the place of the predicate. *)
LEMMA Climb ==
  ASSUME NEW T \in SUBSET Nat, 0 \in T, \A n \in T : n + 1 \in T
  PROVE  T = Nat
<1> DEFINE Rest == Nat \ T
<1>1. SUFFICES ASSUME Rest # {} PROVE FALSE
  OBVIOUS
<1>2. PICK x \in Rest : \A y \in Rest : x <= y
  BY <1>1, Least
<1>3. x \in Nat /\ x # 0
  OBVIOUS
<1>4. x - 1 \in T
  BY <1>2, <1>3
<1>5. (x - 1) + 1 = x
  BY <1>3
<1> QED BY <1>4, <1>5

(* u8 by its bounds, which the solver takes better than a range. *)
LEMMA ByteRange == \A w : w \in Byte <=> w \in Nat /\ w <= 255
BY SMT DEF Byte

(* u16 by its bounds. *)
LEMMA WordRange == \A w : w \in Word <=> w \in Nat /\ w <= 65535
BY SMT DEF Word

(* Flipping bit 2 of the CRC register (the polynomial's x^2) stays in the  *)
(* register and leaves bit 0 alone.                                        *)
LEMMA FlipBit2 ==
  ASSUME NEW w \in Nat, w <= 65535
  PROVE  /\ Flip(w, 2) \in Nat /\ Flip(w, 2) <= 65535 /\ Flip(w, 2) % 2 = w % 2
BY SMT DEF Flip, Bits

(* The same of bit 15. *)
LEMMA FlipBit15 ==
  ASSUME NEW w \in Nat, w <= 65535
  PROVE  /\ Flip(w, 15) \in Nat /\ Flip(w, 15) <= 65535 /\ Flip(w, 15) % 2 = w % 2
BY SMT DEF Flip, Bits

(* Flipping bit 2 loses nothing. *)
LEMMA Flip2Injective ==
  ASSUME NEW w \in Nat, w <= 65535, NEW v \in Nat, v <= 65535, Flip(w, 2) = Flip(v, 2)
  PROVE  w = v
BY SMT DEF Flip, Bits

(* Flipping bit 15 loses nothing. *)
LEMMA Flip15Injective ==
  ASSUME NEW w \in Nat, w <= 65535, NEW v \in Nat, v <= 65535, Flip(w, 15) = Flip(v, 15)
  PROVE  w = v
BY SMT DEF Flip, Bits

Up(c) == (2 * c) % 65536
Poly(c) == Flip(Flip(Up(c), 15), 2)

Same(b, c) == (b = 1 /\ c >= 32768) \/ (b = 0 /\ c < 32768)

(* What one data bit does to the register: a shift, or a shift and the     *)
(* polynomial, and bit 0 tells which.                                      *)
LEMMA ShiftInCases ==
  ASSUME NEW c \in Word, NEW b \in 0..1
  PROVE  /\ Up(c) \in Nat /\ Up(c) % 2 = 0 /\ Up(c) <= 65535
         /\ Poly(c) \in Nat /\ Poly(c) % 2 = 0 /\ Poly(c) <= 65535
         /\ Same(b, c) => ShiftIn(c, b) = Up(c)
         /\ ~Same(b, c) => ShiftIn(c, b) = Poly(c) + 1
<1>0. c \in Nat /\ c <= 65535
  BY WordRange
<1>1. (c >= 32768 => Bits(c, 15, 1) = 1) /\ (c < 32768 => Bits(c, 15, 1) = 0)
  BY <1>0 DEF Bits
<1>2. Up(c) \in Nat /\ Up(c) <= 65535 /\ Up(c) % 2 = 0
  BY <1>0 DEF Up
<1>3. Flip(Up(c), 15) \in Nat /\ Flip(Up(c), 15) <= 65535 /\ Flip(Up(c), 15) % 2 = 0
  BY <1>2, FlipBit15
<1>4. Poly(c) \in Nat /\ Poly(c) <= 65535 /\ Poly(c) % 2 = 0
  BY <1>3, FlipBit2 DEF Poly
<1>5. /\ b # Bits(c, 15, 1) => ShiftIn(c, b) = Poly(c) + 1
      /\ b = Bits(c, 15, 1) => ShiftIn(c, b) = Up(c)
  <2>1. 2^16 = 65536
    OBVIOUS
  <2> QED BY <2>1 DEF ShiftIn, Poly, Up
<1>6. b = Bits(c, 15, 1) <=> Same(b, c)
  BY <1>0, <1>1 DEF Same
<1> QED BY <1>2, <1>4, <1>5, <1>6

(* The register stays a u16. *)
LEMMA ShiftInType ==
  ASSUME NEW c \in Word, NEW b \in 0..1
  PROVE  ShiftIn(c, b) \in Word
<1>1. \A x \in Nat : x <= 65535 /\ x % 2 = 0 => x + 1 <= 65535
  OBVIOUS
<1> QED BY ShiftInCases, WordRange, <1>1

(* A shift with the same data bit keeps two registers apart. *)
LEMMA ShiftInInjective ==
  ASSUME NEW c \in Word, NEW d \in Word, NEW b \in 0..1, ShiftIn(c, b) = ShiftIn(d, b)
  PROVE  c = d
<1>0. c \in Nat /\ c <= 65535 /\ d \in Nat /\ d <= 65535
  BY WordRange
<1>1. /\ Up(c) \in Nat /\ Up(c) <= 65535 /\ Up(c) % 2 = 0 /\ Poly(c) \in Nat /\ Poly(c) % 2 = 0
      /\ Same(b, c) => ShiftIn(c, b) = Up(c)
      /\ ~Same(b, c) => ShiftIn(c, b) = Poly(c) + 1
  BY ShiftInCases
<1>2. /\ Up(d) \in Nat /\ Up(d) <= 65535 /\ Up(d) % 2 = 0 /\ Poly(d) \in Nat /\ Poly(d) % 2 = 0
      /\ Same(b, d) => ShiftIn(d, b) = Up(d)
      /\ ~Same(b, d) => ShiftIn(d, b) = Poly(d) + 1
  BY ShiftInCases
<1>3. Poly(c) = Poly(d) => Up(c) = Up(d)
  BY <1>1, <1>2, FlipBit15, Flip2Injective, Flip15Injective DEF Poly
<1>4. \A x, y \in Nat : x % 2 = 0 /\ y % 2 = 0 => x # y + 1 /\ (x + 1 = y + 1 => x = y)
  OBVIOUS
<1>5. Up(c) # Poly(d) + 1 /\ Up(d) # Poly(c) + 1 /\ (Poly(c) + 1 = Poly(d) + 1 => Up(c) = Up(d))
  BY <1>1, <1>2, <1>3, <1>4
<1>6. (Same(b, c) <=> Same(b, d)) /\ Up(c) = Up(d)
  BY <1>1, <1>2, <1>5
<1>7. c >= 32768 <=> d >= 32768
  BY <1>0, <1>6 DEF Same
<1> QED BY <1>0, <1>6, <1>7 DEF Up

(* The two data bits lead to different registers. *)
LEMMA ShiftInSees ==
  ASSUME NEW c \in Word
  PROVE  ShiftIn(c, 0) # ShiftIn(c, 1)
<1>1. \A x, y \in Nat : x % 2 = 0 /\ y % 2 = 0 => x # y + 1
  OBVIOUS
<1>2. 0 \in 0..1 /\ 1 \in 0..1 /\ c \in Nat
  BY WordRange
<1>3. Same(0, c) <=> ~Same(1, c)
  BY <1>2 DEF Same
<1>4. {ShiftIn(c, 0), ShiftIn(c, 1)} = {Up(c), Poly(c) + 1}
  BY <1>2, <1>3, ShiftInCases
<1>5. Up(c) # Poly(c) + 1
  BY <1>1, <1>2, ShiftInCases
<1> QED BY <1>4, <1>5

Shifts(crc, byte) ==
  CHOOSE c : c = [n \in 0..8 |-> IF n = 0 THEN crc ELSE ShiftIn(c[n - 1], Bits(byte, n - 1, 1))]

(* A bit is 0 or 1. *)
LEMMA BitType ==
  ASSUME NEW b \in Byte, NEW n \in 0..7
  PROVE  Bits(b, n, 1) \in 0..1
<1>1. /\ Bits(b, 0, 1) \in 0..1 /\ Bits(b, 1, 1) \in 0..1 /\ Bits(b, 2, 1) \in 0..1
      /\ Bits(b, 3, 1) \in 0..1 /\ Bits(b, 4, 1) \in 0..1 /\ Bits(b, 5, 1) \in 0..1
      /\ Bits(b, 6, 1) \in 0..1 /\ Bits(b, 7, 1) \in 0..1
  BY ByteRange, SMTT(60) DEF Bits
<1> QED BY <1>1

(* The register after each bit of a byte: the inner loop of crc16. *)
LEMMA ShiftsDefined ==
  ASSUME NEW crc \in Word, NEW b \in Byte
  PROVE  /\ Shifts(crc, b) = [n \in 0..8 |-> IF n = 0 THEN crc
                                ELSE ShiftIn(Shifts(crc, b)[n - 1], Bits(b, n - 1, 1))]
         /\ OneByte(b)[crc] = Shifts(crc, b)[8]
<1> DEFINE Def(f, m) == f = [n \in 0..m |-> IF n = 0 THEN crc ELSE ShiftIn(f[n - 1], Bits(b, n - 1, 1))]
           T == {m \in Nat : \E f : Def(f, m)}
<1>1. 0 \in T
  <2>1. Def([n \in 0..0 |-> crc], 0)
    OBVIOUS
  <2> QED BY <2>1
<1>2. ASSUME NEW m \in T PROVE m + 1 \in T
  <2>1. PICK f : Def(f, m)
    OBVIOUS
  <2> DEFINE g == [n \in 0..m + 1 |-> IF n = 0 THEN crc ELSE ShiftIn(f[n - 1], Bits(b, n - 1, 1))]
  <2>2. m \in Nat
    OBVIOUS
  <2>3. \A n \in 0..m : f[n] = IF n = 0 THEN crc ELSE ShiftIn(f[n - 1], Bits(b, n - 1, 1))
    BY <2>1, Zenon
  <2>4. \A n \in 0..m + 1 : g[n] = IF n = 0 THEN crc ELSE ShiftIn(f[n - 1], Bits(b, n - 1, 1))
    BY Zenon
  <2> HIDE DEF g
  <2>5. \A n \in 0..m : n \in 0..m + 1
    BY <2>2
  <2>6. \A n \in 0..m : g[n] = f[n]
    BY <2>3, <2>4, <2>5, Zenon
  <2>7. \A n \in 0..m + 1 : n # 0 => n - 1 \in 0..m
    BY <2>2
  <2>8. \A n \in 0..m + 1 : n # 0 => g[n - 1] = f[n - 1]
    BY <2>6, <2>7, Zenon
  <2>9. Def(g, m + 1)
    BY <2>8, Zenon DEF g
  <2>10. m + 1 \in Nat
    BY <2>2
  <2> QED BY <2>9, <2>10, Zenon
<1>3. 8 \in T
  <2>1. T = Nat
    BY <1>1, <1>2, Climb
  <2> QED BY <2>1
<1>4. \E f : Def(f, 8)
  BY <1>3
<1>5. Def(Shifts(crc, b), 8)
  BY <1>4, Zenon DEF Shifts
<1>6. OneByte(b)[crc] = Shifts(crc, b)[8]
  BY Zenon DEF OneByte, Shifts
<1> QED BY <1>5, <1>6

(* One turn of the inner loop. *)
LEMMA ShiftsStep ==
  ASSUME NEW crc \in Word, NEW b \in Byte
  PROVE  /\ Shifts(crc, b)[0] = crc
         /\ \A n \in Nat : n < 8 =>
              Shifts(crc, b)[n + 1] = ShiftIn(Shifts(crc, b)[n], Bits(b, n, 1))
<1> DEFINE s == Shifts(crc, b)
<1>1. s = [n \in 0..8 |-> IF n = 0 THEN crc ELSE ShiftIn(s[n - 1], Bits(b, n - 1, 1))]
  BY ShiftsDefined
<1> HIDE DEF s
<1>2. \A n \in 0..8 : s[n] = IF n = 0 THEN crc ELSE ShiftIn(s[n - 1], Bits(b, n - 1, 1))
  BY <1>1, Zenon
<1>3. s[0] = crc
  BY <1>2
<1>4. ASSUME NEW n \in Nat, n < 8
      PROVE  s[n + 1] = ShiftIn(s[n], Bits(b, n, 1))
  <2>1. n + 1 \in 0..8 /\ n + 1 # 0 /\ (n + 1) - 1 = n
    BY <1>4
  <2> HIDE <1>4
  <2> QED BY <1>2, <2>1
<1> QED BY <1>3, <1>4 DEF s

(* The register is a u16 after every bit. *)
LEMMA ShiftsType ==
  ASSUME NEW crc \in Word, NEW b \in Byte, NEW n \in 0..8
  PROVE  Shifts(crc, b)[n] \in Word
<1> DEFINE T == {m \in Nat : m <= 8 => Shifts(crc, b)[m] \in Word}
<1>1. 0 \in T
  BY ShiftsStep
<1>2. ASSUME NEW m \in T PROVE m + 1 \in T
  <2>1. CASE m < 8
    <3>1. m \in 0..7 /\ m \in Nat
      BY <2>1
    <3>2. Shifts(crc, b)[m] \in Word
      BY <3>1
    <3>3. Bits(b, m, 1) \in 0..1
      BY <3>1, BitType
    <3>4. Shifts(crc, b)[m + 1] = ShiftIn(Shifts(crc, b)[m], Bits(b, m, 1))
      BY <2>1, <3>1, ShiftsStep
    <3> QED BY <3>1, <3>2, <3>3, <3>4, ShiftInType
  <2>2. CASE ~(m < 8)
    BY <2>2
  <2> QED BY <2>1, <2>2
<1>3. T = Nat
  BY <1>1, <1>2, Climb
<1> QED BY <1>3

(* The register is a u16 after every byte. *)
LEMMA OneByteType ==
  ASSUME NEW crc \in Word, NEW b \in Byte
  PROVE  OneByte(b)[crc] \in Word
<1>1. 8 \in 0..8
  OBVIOUS
<1> QED BY <1>1, ShiftsDefined, ShiftsType

(* Two registers that differ go on differing. *)
LEMMA OneByteInjective ==
  ASSUME NEW c \in Word, NEW d \in Word, NEW b \in Byte, c # d
  PROVE  OneByte(b)[c] # OneByte(b)[d]
<1> DEFINE T == {m \in Nat : m <= 8 => Shifts(c, b)[m] # Shifts(d, b)[m]}
<1>1. 0 \in T
  BY ShiftsStep
<1>2. ASSUME NEW m \in T PROVE m + 1 \in T
  <2>1. CASE m < 8
    <3>1. m \in 0..7 /\ m \in 0..8 /\ m \in Nat
      BY <2>1
    <3>2. Shifts(c, b)[m] # Shifts(d, b)[m]
      BY <3>1
    <3>3. Bits(b, m, 1) \in 0..1 /\ Shifts(c, b)[m] \in Word /\ Shifts(d, b)[m] \in Word
      BY <3>1, BitType, ShiftsType
    <3>4. /\ Shifts(c, b)[m + 1] = ShiftIn(Shifts(c, b)[m], Bits(b, m, 1))
          /\ Shifts(d, b)[m + 1] = ShiftIn(Shifts(d, b)[m], Bits(b, m, 1))
      BY <2>1, <3>1, ShiftsStep
    <3> QED BY <3>1, <3>2, <3>3, <3>4, ShiftInInjective
  <2>2. CASE ~(m < 8)
    BY <2>2
  <2> QED BY <2>1, <2>2
<1>3. T = Nat
  BY <1>1, <1>2, Climb
<1>4. Shifts(c, b)[8] # Shifts(d, b)[8]
  BY <1>3
<1> QED BY <1>4, ShiftsDefined

(* A flipped bit of a byte is the only one that changes. *)
LEMMA FlipBits ==
  ASSUME NEW b \in Byte, NEW k \in 0..7
  PROVE  /\ Flip(b, k) \in Byte
         /\ \A j \in 0..7 : j # k => Bits(Flip(b, k), j, 1) = Bits(b, j, 1)
         /\ Bits(Flip(b, k), k, 1) # Bits(b, k, 1)
<1>0. b \in Nat /\ b <= 255
  BY ByteRange
<1> DEFINE P(i) == /\ Flip(b, i) \in Nat /\ Flip(b, i) <= 255
                   /\ \A j \in 0..7 : j # i => Bits(Flip(b, i), j, 1) = Bits(b, j, 1)
                   /\ Bits(Flip(b, i), i, 1) # Bits(b, i, 1)
<1>1. P(0)
  BY <1>0 DEF Flip, Bits
<1>2. P(1)
  BY <1>0, SMTT(60) DEF Flip, Bits
<1>3. P(2)
  BY <1>0 DEF Flip, Bits
<1>4. P(3)
  BY <1>0 DEF Flip, Bits
<1>5. P(4)
  BY <1>0 DEF Flip, Bits
<1>6. P(5)
  BY <1>0 DEF Flip, Bits
<1>7. P(6)
  BY <1>0 DEF Flip, Bits
<1>8. P(7)
  BY <1>0 DEF Flip, Bits
<1> HIDE DEF P
<1>9. P(k)
  BY <1>1, <1>2, <1>3, <1>4, <1>5, <1>6, <1>7, <1>8
<1> QED BY <1>9, ByteRange DEF P

(* A flipped bit of the byte makes the registers differ. *)
LEMMA OneByteSees ==
  ASSUME NEW c \in Word, NEW b \in Byte, NEW k \in 0..7
  PROVE  OneByte(Flip(b, k))[c] # OneByte(b)[c]
<1> DEFINE f == Flip(b, k)
<1>0. /\ f \in Byte /\ k \in Nat /\ k < 8
      /\ \A j \in 0..7 : j # k => Bits(f, j, 1) = Bits(b, j, 1)
      /\ Bits(f, k, 1) # Bits(b, k, 1)
  BY FlipBits
<1> HIDE DEF f
<1> DEFINE T == {m \in Nat : m <= 8 =>
                   IF m <= k THEN Shifts(c, f)[m] = Shifts(c, b)[m]
                             ELSE Shifts(c, f)[m] # Shifts(c, b)[m]}
<1>1. 0 \in T
  BY <1>0, ShiftsStep
<1>2. ASSUME NEW m \in T PROVE m + 1 \in T
  <2>1. CASE m < 8
    <3>1. m \in 0..7 /\ m \in 0..8 /\ m \in Nat
      BY <2>1
    <3>2. IF m <= k THEN Shifts(c, f)[m] = Shifts(c, b)[m] ELSE Shifts(c, f)[m] # Shifts(c, b)[m]
      BY <3>1
    <3>3. /\ Bits(b, m, 1) \in 0..1 /\ Bits(f, m, 1) \in 0..1
          /\ Shifts(c, f)[m] \in Word /\ Shifts(c, b)[m] \in Word
      BY <1>0, <3>1, BitType, ShiftsType
    <3>4. /\ Shifts(c, f)[m + 1] = ShiftIn(Shifts(c, f)[m], Bits(f, m, 1))
          /\ Shifts(c, b)[m + 1] = ShiftIn(Shifts(c, b)[m], Bits(b, m, 1))
      BY <1>0, <2>1, <3>1, ShiftsStep
    <3>5. CASE m < k
      <4>1. m <= k /\ m # k /\ m + 1 <= k
        BY <1>0, <3>1, <3>5
      <4>2. Shifts(c, f)[m + 1] = Shifts(c, b)[m + 1]
        BY <1>0, <3>1, <3>2, <3>4, <4>1
      <4> QED BY <3>1, <4>1, <4>2
    <3>6. CASE m = k
      <4>1. Shifts(c, f)[m] = Shifts(c, b)[m] /\ ~(m + 1 <= k)
        BY <1>0, <3>2, <3>6
      <4>2. Bits(f, m, 1) # Bits(b, m, 1)
        BY <1>0, <3>6
      <4>3. {Bits(f, m, 1), Bits(b, m, 1)} = {0, 1}
        BY <3>3, <4>2
      <4>4. Shifts(c, f)[m + 1] # Shifts(c, b)[m + 1]
        BY <3>3, <3>4, <4>1, <4>2, <4>3, ShiftInSees
      <4> QED BY <3>1, <4>1, <4>4
    <3>7. CASE m > k
      <4>1. Shifts(c, f)[m] # Shifts(c, b)[m] /\ ~(m + 1 <= k) /\ m # k
        BY <1>0, <3>1, <3>2, <3>7
      <4>2. Bits(f, m, 1) = Bits(b, m, 1)
        BY <1>0, <3>1, <4>1
      <4>3. Shifts(c, f)[m + 1] # Shifts(c, b)[m + 1]
        BY <3>3, <3>4, <4>1, <4>2, ShiftInInjective
      <4> QED BY <3>1, <4>1, <4>3
    <3> QED BY <1>0, <3>1, <3>5, <3>6, <3>7
  <2>2. CASE ~(m < 8)
    BY <2>2
  <2> QED BY <2>1, <2>2
<1>3. T = Nat
  BY <1>1, <1>2, Climb
<1>4. Shifts(c, f)[8] # Shifts(c, b)[8]
  BY <1>0, <1>3
<1>5. OneByte(f)[c] # OneByte(b)[c]
  BY <1>0, <1>4, ShiftsDefined
<1> QED BY <1>5 DEF f

Prefixes(data) ==
  CHOOSE c : c = [n \in 0..Len(data) |-> IF n = 0 THEN 0 ELSE OneByte(data[n])[c[n - 1]]]

(* The CRC of each prefix of a buffer: the outer loop of crc16. *)
LEMMA PrefixesDefined ==
  ASSUME NEW data, Len(data) \in Nat
  PROVE  /\ Prefixes(data) = [n \in 0..Len(data) |->
                               IF n = 0 THEN 0 ELSE OneByte(data[n])[Prefixes(data)[n - 1]]]
         /\ crc16(data) = Prefixes(data)[Len(data)]
<1> DEFINE Def(f, m) == f = [n \in 0..m |-> IF n = 0 THEN 0 ELSE OneByte(data[n])[f[n - 1]]]
           T == {m \in Nat : \E f : Def(f, m)}
<1>1. 0 \in T
  <2>1. Def([n \in 0..0 |-> 0], 0)
    OBVIOUS
  <2> QED BY <2>1
<1>2. ASSUME NEW m \in T PROVE m + 1 \in T
  <2>1. PICK f : Def(f, m)
    OBVIOUS
  <2> DEFINE g == [n \in 0..m + 1 |-> IF n = 0 THEN 0 ELSE OneByte(data[n])[f[n - 1]]]
  <2>2. m \in Nat
    OBVIOUS
  <2>3. \A n \in 0..m : f[n] = IF n = 0 THEN 0 ELSE OneByte(data[n])[f[n - 1]]
    BY <2>1, Zenon
  <2>4. \A n \in 0..m + 1 : g[n] = IF n = 0 THEN 0 ELSE OneByte(data[n])[f[n - 1]]
    BY Zenon
  <2> HIDE DEF g
  <2>5. \A n \in 0..m : n \in 0..m + 1
    BY <2>2
  <2>6. \A n \in 0..m : g[n] = f[n]
    BY <2>3, <2>4, <2>5, Zenon
  <2>7. \A n \in 0..m + 1 : n # 0 => n - 1 \in 0..m
    BY <2>2
  <2>8. \A n \in 0..m + 1 : n # 0 => g[n - 1] = f[n - 1]
    BY <2>6, <2>7, Zenon
  <2>9. Def(g, m + 1)
    BY <2>8, Zenon DEF g
  <2>10. m + 1 \in Nat
    BY <2>2
  <2> QED BY <2>9, <2>10, Zenon
<1>3. Len(data) \in T
  <2>1. T = Nat
    BY <1>1, <1>2, Climb
  <2> QED BY <2>1
<1>4. \E f : Def(f, Len(data))
  BY <1>3
<1>5. Def(Prefixes(data), Len(data))
  BY <1>4, Zenon DEF Prefixes
<1>6. crc16(data) = Prefixes(data)[Len(data)]
  BY Zenon DEF crc16, Prefixes
<1> QED BY <1>5, <1>6

(* One turn of the outer loop. *)
LEMMA PrefixesStep ==
  ASSUME NEW data \in Seq(Byte)
  PROVE  /\ Prefixes(data)[0] = 0
         /\ \A n \in Nat : n < Len(data) =>
              Prefixes(data)[n + 1] = OneByte(data[n + 1])[Prefixes(data)[n]]
<1> DEFINE s == Prefixes(data)
<1>0. Len(data) \in Nat
  OBVIOUS
<1>1. s = [n \in 0..Len(data) |-> IF n = 0 THEN 0 ELSE OneByte(data[n])[s[n - 1]]]
  BY <1>0, PrefixesDefined
<1> HIDE DEF s
<1>2. \A n \in 0..Len(data) : s[n] = IF n = 0 THEN 0 ELSE OneByte(data[n])[s[n - 1]]
  BY <1>1, Zenon
<1>3. s[0] = 0
  BY <1>0, <1>2
<1>4. ASSUME NEW n \in Nat, n < Len(data)
      PROVE  s[n + 1] = OneByte(data[n + 1])[s[n]]
  <2>1. n + 1 \in 0..Len(data) /\ n + 1 # 0 /\ (n + 1) - 1 = n
    BY <1>0, <1>4
  <2> HIDE <1>4
  <2> QED BY <1>2, <2>1
<1> QED BY <1>3, <1>4 DEF s

(* The CRC of a prefix is a u16. *)
LEMMA PrefixesType ==
  ASSUME NEW data \in Seq(Byte), NEW n \in 0..Len(data)
  PROVE  Prefixes(data)[n] \in Word
<1> DEFINE T == {m \in Nat : m <= Len(data) => Prefixes(data)[m] \in Word}
<1>0. Len(data) \in Nat
  OBVIOUS
<1>1. 0 \in T
  BY PrefixesStep, WordRange
<1>2. ASSUME NEW m \in T PROVE m + 1 \in T
  <2>1. CASE m < Len(data)
    <3>1. m \in Nat /\ m <= Len(data) /\ m + 1 \in 1..Len(data)
      BY <1>0, <2>1
    <3>2. Prefixes(data)[m] \in Word
      BY <3>1
    <3>3. data[m + 1] \in Byte
      BY <3>1
    <3>4. Prefixes(data)[m + 1] = OneByte(data[m + 1])[Prefixes(data)[m]]
      BY <2>1, <3>1, PrefixesStep
    <3> QED BY <3>1, <3>2, <3>3, <3>4, OneByteType
  <2>2. CASE ~(m < Len(data))
    BY <1>0, <2>2
  <2> QED BY <2>1, <2>2
<1>3. T = Nat
  BY <1>1, <1>2, Climb
<1> QED BY <1>0, <1>3

(* crc16 returns a u16. *)
LEMMA CrcType ==
  ASSUME NEW data \in Seq(Byte)
  PROVE  crc16(data) \in Word
<1>1. Len(data) \in Nat /\ Len(data) \in 0..Len(data)
  OBVIOUS
<1> QED BY <1>1, PrefixesDefined, PrefixesType

(* crc16 (crc.rs) tells apart any two messages, of whatever length, that   *)
(* differ in one bit.                                                      *)
THEOREM CrcSeesAFlip ==
  ASSUME NEW data \in Seq(Byte), NEW i \in 1..Len(data), NEW k \in 0..7
  PROVE  crc16([data EXCEPT ![i] = Flip(@, k)]) # crc16(data)
<1> DEFINE other == [data EXCEPT ![i] = Flip(@, k)]
<1>0. Len(data) \in Nat /\ i \in Nat /\ i >= 1 /\ i <= Len(data) /\ data[i] \in Byte
  OBVIOUS
<1>1. Flip(data[i], k) \in Byte
  BY <1>0, FlipBits
<1>2. /\ other \in Seq(Byte) /\ Len(other) = Len(data)
      /\ other[i] = Flip(data[i], k)
      /\ \A j \in 1..Len(data) : j # i => other[j] = data[j]
  BY <1>0, <1>1
<1> HIDE DEF other
<1> DEFINE T == {m \in Nat : m <= Len(data) =>
                   IF m < i THEN Prefixes(other)[m] = Prefixes(data)[m]
                            ELSE Prefixes(other)[m] # Prefixes(data)[m]}
<1>3. 0 \in T
  BY <1>0, <1>2, PrefixesStep
<1>4. ASSUME NEW m \in T PROVE m + 1 \in T
  <2>1. CASE m < Len(data)
    <3>1. m \in Nat /\ m <= Len(data) /\ m + 1 \in 1..Len(data) /\ m \in 0..Len(data)
      BY <1>0, <2>1
    <3>2. IF m < i THEN Prefixes(other)[m] = Prefixes(data)[m]
                   ELSE Prefixes(other)[m] # Prefixes(data)[m]
      BY <3>1
    <3>3. /\ data[m + 1] \in Byte /\ other[m + 1] \in Byte
          /\ Prefixes(data)[m] \in Word /\ Prefixes(other)[m] \in Word
      BY <1>2, <3>1, PrefixesType
    <3>4. /\ Prefixes(data)[m + 1] = OneByte(data[m + 1])[Prefixes(data)[m]]
          /\ Prefixes(other)[m + 1] = OneByte(other[m + 1])[Prefixes(other)[m]]
      BY <1>2, <2>1, <3>1, PrefixesStep
    <3>5. CASE m + 1 < i
      <4>1. m < i /\ m + 1 # i
        BY <1>0, <3>1, <3>5
      <4>2. Prefixes(other)[m + 1] = Prefixes(data)[m + 1]
        BY <1>2, <3>1, <3>2, <3>4, <4>1
      <4> QED BY <3>1, <3>5, <4>2
    <3>6. CASE m + 1 = i
      <4>1. m < i /\ ~(m + 1 < i)
        BY <1>0, <3>1, <3>6
      <4>2. Prefixes(other)[m] = Prefixes(data)[m] /\ other[m + 1] = Flip(data[m + 1], k)
        BY <1>2, <3>2, <3>6, <4>1
      <4>3. Prefixes(other)[m + 1] # Prefixes(data)[m + 1]
        BY <3>3, <3>4, <4>2, OneByteSees
      <4> QED BY <3>1, <4>1, <4>3
    <3>7. CASE m + 1 > i
      <4>1. ~(m < i) /\ ~(m + 1 < i) /\ m + 1 # i
        BY <1>0, <3>1, <3>7
      <4>2. Prefixes(other)[m] # Prefixes(data)[m] /\ other[m + 1] = data[m + 1]
        BY <1>2, <3>1, <3>2, <4>1
      <4>3. Prefixes(other)[m + 1] # Prefixes(data)[m + 1]
        BY <3>3, <3>4, <4>2, OneByteInjective
      <4> QED BY <3>1, <4>1, <4>3
    <3> QED BY <1>0, <3>1, <3>5, <3>6, <3>7
  <2>2. CASE ~(m < Len(data))
    BY <1>0, <2>2
  <2> QED BY <2>1, <2>2
<1>5. T = Nat
  BY <1>3, <1>4, Climb
<1>6. Prefixes(other)[Len(data)] # Prefixes(data)[Len(data)]
  BY <1>0, <1>5
<1>7. crc16(other) # crc16(data)
  BY <1>0, <1>2, <1>6, PrefixesDefined
<1> QED BY <1>7 DEF other

(***************************************************************************)
(* Buffers of bytes: what joining and cutting them gives; the report.      *)
(***************************************************************************)
(* Two buffers one after the other: lengths and bytes.                     *)
LEMMA Joined ==
  ASSUME NEW s \in Bytes, NEW t \in Bytes
  PROVE  /\ s \o t \in Bytes /\ Len(s \o t) = Len(s) + Len(t)
         /\ Len(s) \in Nat /\ Len(t) \in Nat
         /\ \A i \in 1..Len(s) : (s \o t)[i] = s[i]
         /\ \A i \in 1..Len(t) : (s \o t)[Len(s) + i] = t[i]
<1>1. /\ s \o t \in Bytes /\ Len(s \o t) = Len(s) + Len(t)
      /\ \A i \in 1..Len(s) + Len(t) :
           (s \o t)[i] = IF i <= Len(s) THEN s[i] ELSE t[i - Len(s)]
  BY ConcatProperties DEF Bytes
<1>2. Len(s) \in Nat /\ Len(t) \in Nat
  BY DEF Bytes
<1> DEFINE w == s \o t
<1>3. \A i \in 1..Len(s) + Len(t) : w[i] = IF i <= Len(s) THEN s[i] ELSE t[i - Len(s)]
  BY <1>1
<1> HIDE DEF w
<1>4. \A i \in 1..Len(s) : w[i] = s[i]
  BY <1>2, <1>3
<1>5. \A i \in 1..Len(t) : w[Len(s) + i] = t[i]
  BY <1>2, <1>3
<1> QED BY <1>1, <1>2, <1>4, <1>5 DEF w

(* A slice of a buffer: its length and its bytes. *)
LEMMA Cut ==
  ASSUME NEW s \in Bytes, NEW m \in Nat, NEW n \in Nat, m + n <= Len(s)
  PROVE  /\ SubSeq(s, m + 1, m + n) \in Bytes /\ Len(SubSeq(s, m + 1, m + n)) = n
         /\ \A i \in 1..n : SubSeq(s, m + 1, m + n)[i] = s[m + i]
<1>1. Len(s) \in Nat /\ \A i \in 1..Len(s) : s[i] \in Byte
  BY DEF Bytes
<1>2. \A i \in m + 1..m + n : s[i] \in Byte
  BY <1>1
<1>3. m + 1 \in Int /\ m + n \in Int
  OBVIOUS
<1>4. /\ SubSeq(s, m + 1, m + n) \in Bytes
      /\ Len(SubSeq(s, m + 1, m + n)) = IF m + 1 <= m + n THEN (m + n) - (m + 1) + 1 ELSE 0
      /\ \A i \in 1 .. (m + n) - (m + 1) + 1 : SubSeq(s, m + 1, m + n)[i] = s[(m + 1) + i - 1]
  BY <1>2, <1>3, SubSeqProperties DEF Bytes
<1> DEFINE v == SubSeq(s, m + 1, m + n)
<1>5. /\ v \in Bytes
      /\ Len(v) = IF m + 1 <= m + n THEN (m + n) - (m + 1) + 1 ELSE 0
      /\ \A i \in 1 .. (m + n) - (m + 1) + 1 : v[i] = s[(m + 1) + i - 1]
  BY <1>4
<1> HIDE DEF v
<1>6. v \in Bytes /\ Len(v) = n /\ \A i \in 1..n : v[i] = s[m + i]
  BY <1>5
<1> QED BY <1>6 DEF v

(* Buffers with the same bytes are equal. *)
LEMMA BytesEqual ==
  ASSUME NEW s \in Bytes, NEW t \in Bytes, Len(s) = Len(t), \A i \in 1..Len(s) : s[i] = t[i]
  PROVE  s = t
BY SeqEqual DEF Bytes

(* The slice of everything. *)
LEMMA CutAll ==
  ASSUME NEW s \in Bytes
  PROVE  SubSeq(s, 1, Len(s)) = s
BY SubSeqFull DEF Bytes

(* A slice of the first of two joined buffers. *)
LEMMA CutLeft ==
  ASSUME NEW s \in Bytes, NEW t \in Bytes, NEW m \in Nat, NEW n \in Nat, m + n <= Len(s)
  PROVE  SubSeq(s \o t, m + 1, m + n) = SubSeq(s, m + 1, m + n)
<1> DEFINE w == s \o t
<1>1. /\ w \in Bytes /\ Len(w) = Len(s) + Len(t) /\ Len(s) \in Nat /\ Len(t) \in Nat
      /\ \A i \in 1..Len(s) : w[i] = s[i]
  BY Joined
<1> HIDE DEF w
<1>2. m + n <= Len(w)
  BY <1>1
<1> DEFINE a == SubSeq(w, m + 1, m + n)
           b == SubSeq(s, m + 1, m + n)
<1>3. a \in Bytes /\ Len(a) = n /\ \A i \in 1..n : a[i] = w[m + i]
  BY <1>1, <1>2, Cut
<1>4. b \in Bytes /\ Len(b) = n /\ \A i \in 1..n : b[i] = s[m + i]
  BY Cut
<1> HIDE DEF a, b
<1>5. \A i \in 1..n : a[i] = b[i]
  BY <1>1, <1>3, <1>4
<1>6. a = b
  BY <1>3, <1>4, <1>5, BytesEqual
<1> QED BY <1>6 DEF a, b, w

(* A slice of the second of two joined buffers. *)
LEMMA CutRight ==
  ASSUME NEW s \in Bytes, NEW t \in Bytes, NEW m \in Nat, NEW n \in Nat, m + n <= Len(t)
  PROVE  SubSeq(s \o t, Len(s) + m + 1, Len(s) + m + n) = SubSeq(t, m + 1, m + n)
<1> DEFINE w == s \o t
<1>1. /\ w \in Bytes /\ Len(w) = Len(s) + Len(t) /\ Len(s) \in Nat /\ Len(t) \in Nat
      /\ \A i \in 1..Len(t) : w[Len(s) + i] = t[i]
  BY Joined
<1> HIDE DEF w
<1> DEFINE k == Len(s) + m
<1>2. k \in Nat /\ k + n <= Len(w)
  BY <1>1
<1>3. \A i \in 1..n : w[k + i] = t[m + i]
  <2> TAKE i \in 1..n
  <2>1. m + i \in 1..Len(t) /\ k + i = Len(s) + (m + i)
    BY <1>1
  <2> HIDE DEF k
  <2> QED BY <1>1, <2>1
<1> HIDE DEF k
<1> DEFINE a == SubSeq(w, k + 1, k + n)
           b == SubSeq(t, m + 1, m + n)
<1>4. a \in Bytes /\ Len(a) = n /\ \A i \in 1..n : a[i] = w[k + i]
  BY <1>1, <1>2, Cut
<1>5. b \in Bytes /\ Len(b) = n /\ \A i \in 1..n : b[i] = t[m + i]
  BY Cut
<1> HIDE DEF a, b
<1>6. \A i \in 1..n : a[i] = b[i]
  BY <1>3, <1>4, <1>5
<1>7. a = b
  BY <1>4, <1>5, <1>6, BytesEqual
<1> QED BY <1>7 DEF a, b, w, k

(* to_le_bytes of a u16, and back. *)
LEMMA LowHighWord ==
  ASSUME NEW w \in Word
  PROVE  /\ LowHigh(w) \in Bytes /\ Len(LowHigh(w)) = 2
         /\ LowHigh(w)[1] \in Byte /\ LowHigh(w)[2] \in Byte
         /\ FromLowHigh(LowHigh(w)[1], LowHigh(w)[2]) = w
<1>1. w \in Nat /\ w <= 65535
  BY WordRange
<1>2. w % 256 \in Nat /\ w % 256 <= 255 /\ w \div 256 \in Nat /\ w \div 256 <= 255
      /\ (w % 256) + 256 * (w \div 256) = w
  BY <1>1
<1>3. w % 256 \in Byte /\ w \div 256 \in Byte
  BY <1>2, ByteRange
<1> QED BY <1>2, <1>3 DEF LowHigh, FromLowHigh, Bytes

(* from_le_bytes of two bytes is a u16, and of no other two. *)
LEMMA FromBytes ==
  ASSUME NEW lo \in Byte, NEW hi \in Byte
  PROVE  /\ FromLowHigh(lo, hi) \in Word
         /\ \A l, h \in Byte : FromLowHigh(l, h) = FromLowHigh(lo, hi) => l = lo /\ h = hi
<1>1. lo \in Nat /\ lo <= 255 /\ hi \in Nat /\ hi <= 255
  BY ByteRange
<1>2. lo + 256 * hi \in Nat /\ lo + 256 * hi <= 65535
  BY <1>1
<1>3. ASSUME NEW l \in Byte, NEW h \in Byte, l + 256 * h = lo + 256 * hi
      PROVE  l = lo /\ h = hi
  <2>1. l \in Nat /\ l <= 255 /\ h \in Nat /\ h <= 255
    BY ByteRange
  <2> QED BY <1>1, <1>3, <2>1
<1> QED BY <1>2, <1>3, WordRange DEF FromLowHigh

(* Padding is bytes. *)
LEMMA ZerosType ==
  ASSUME NEW n \in Nat
  PROVE  Zeros(n) \in Bytes /\ Len(Zeros(n)) = n
<1>1. 0 \in Byte
  BY ByteRange
<1>2. Zeros(n) \in [1..n -> Byte]
  BY <1>1 DEF Zeros
<1>3. Zeros(n) \in Bytes
  BY <1>2, SeqDef, Zenon DEF Bytes
<1>4. DOMAIN Zeros(n) = 1..n
  BY <1>2
<1>5. Len(Zeros(n)) \in Nat /\ DOMAIN Zeros(n) = 1..Len(Zeros(n))
  BY <1>3, LenProperties DEF Bytes
<1> QED BY <1>3, <1>4, <1>5

(* hsm-host's report and the token's reading of it, and the other way     *)
(* round: nothing is lost and the padding is not looked at.               *)
LEMMA ReportRead ==
  ASSUME NEW op \in Byte, NEW p \in Bytes, Len(p) <= 125
  PROVE  /\ to_report(op, p).ok
         /\ to_report(op, p).value \in Bytes /\ Len(to_report(op, p).value) = 128
         /\ FrameParse(to_report(op, p).value) = Ok([opcode |-> op, payload |-> p])
<1>0. Len(p) \in Nat /\ Len(p) \in Word
  BY WordRange DEF Bytes
<1> DEFINE h == <<op>> \o LowHigh(Len(p))
           z == Zeros(125 - Len(p))
           r == h \o p \o z
<1>1. /\ h \in Bytes /\ Len(h) = 3
      /\ h[1] = op /\ h[2] = LowHigh(Len(p))[1] /\ h[3] = LowHigh(Len(p))[2]
  <2> DEFINE a == <<op>>
             b == LowHigh(Len(p))
             u == a \o b
  <2>1. a \in Bytes /\ Len(a) = 1 /\ a[1] = op
    BY DEF Bytes
  <2>2. b \in Bytes /\ Len(b) = 2
    BY <1>0, LowHighWord
  <2> HIDE DEF a, b
  <2>3. /\ u \in Bytes /\ Len(u) = Len(a) + Len(b)
        /\ \A i \in 1..Len(a) : u[i] = a[i]
        /\ \A i \in 1..Len(b) : u[Len(a) + i] = b[i]
    BY <2>1, <2>2, Joined, Zenon
  <2> HIDE DEF u
  <2>4. u \in Bytes /\ Len(u) = 3 /\ u[1] = op /\ u[2] = b[1] /\ u[3] = b[2]
    <3>1. 1 \in 1..1 /\ 1 \in 1..2 /\ 2 \in 1..2 /\ 1 + 1 = 2 /\ 1 + 2 = 3
      OBVIOUS
    <3> QED BY <2>1, <2>2, <2>3, <3>1
  <2> QED BY <2>4 DEF a, b, u, h
<1>2. z \in Bytes /\ Len(z) = 125 - Len(p)
  <2>1. 125 - Len(p) \in Nat
    BY <1>0
  <2> QED BY <2>1, ZerosType
<1> HIDE DEF h, z
<1>3. /\ h \o p \in Bytes /\ Len(h \o p) = 3 + Len(p)
      /\ \A i \in 1..3 : (h \o p)[i] = h[i]
  <2> DEFINE u == h \o p
  <2>1. u \in Bytes /\ Len(u) = Len(h) + Len(p) /\ \A i \in 1..Len(h) : u[i] = h[i]
    BY <1>1, Joined, Zenon
  <2> HIDE DEF u
  <2>2. u \in Bytes /\ Len(u) = 3 + Len(p) /\ \A i \in 1..3 : u[i] = h[i]
    BY <1>1, <2>1
  <2> QED BY <2>2 DEF u
<1>4. r \in Bytes /\ Len(r) = (3 + Len(p)) + (125 - Len(p))
      /\ \A i \in 1..3 + Len(p) : r[i] = (h \o p)[i]
  <2> DEFINE u == h \o p
             w == u \o z
  <2>0. u \in Bytes /\ Len(u) = 3 + Len(p)
    BY <1>3
  <2> HIDE DEF u
  <2>1. w \in Bytes /\ Len(w) = Len(u) + Len(z) /\ \A i \in 1..Len(u) : w[i] = u[i]
    BY <1>2, <2>0, Joined, Zenon
  <2> HIDE DEF w
  <2>2. /\ w \in Bytes /\ Len(w) = (3 + Len(p)) + (125 - Len(p))
        /\ \A i \in 1..3 + Len(p) : w[i] = u[i]
    BY <1>2, <2>0, <2>1
  <2> QED BY <2>2 DEF u, w, r
<1>5. Len(r) = 128
  BY <1>0, <1>4
<1>6. r[1] = op /\ FromLowHigh(r[2], r[3]) = Len(p)
  BY <1>0, <1>1, <1>3, <1>4, LowHighWord
<1>7. SubSeq(r, 4, 3 + Len(p)) = p
  <2>1. SubSeq(r, 3 + 1, 3 + Len(p)) = SubSeq(h \o p, 3 + 1, 3 + Len(p))
    BY <1>0, <1>2, <1>3, CutLeft
  <2>2. SubSeq(h \o p, Len(h) + 0 + 1, Len(h) + 0 + Len(p)) = SubSeq(p, 0 + 1, 0 + Len(p))
    <3>1. 0 \in Nat /\ 0 + Len(p) <= Len(p)
      BY <1>0
    <3> QED BY <1>0, <1>1, <3>1, CutRight, Zenon
  <2>3. SubSeq(p, 1, Len(p)) = p
    BY CutAll
  <2>4. 3 + 1 = 4 /\ Len(h) + 0 + 1 = 4 /\ Len(h) + 0 + Len(p) = 3 + Len(p)
        /\ 0 + 1 = 1 /\ 0 + Len(p) = Len(p)
    BY <1>0, <1>1
  <2> HIDE DEF r
  <2> QED BY <2>1, <2>2, <2>3, <2>4
<1>8. to_report(op, p) = Ok(r)
  <2>1. MAX_PAYLOAD_SIZE = 125
    BY DEF MAX_PAYLOAD_SIZE, HID_REPORT_SIZE, HEADER_SIZE
  <2>2. ~(Len(p) > 125)
    BY <1>0
  <2> QED BY <2>1, <2>2, Zenon DEF to_report, r, h, z
<1> HIDE DEF r
<1>9. FrameParse(r) = Ok([opcode |-> op, payload |-> p])
  <2>1. MAX_PAYLOAD_SIZE = 125 /\ HEADER_SIZE = 3 /\ HID_REPORT_SIZE = 128 /\ HEADER_SIZE + 1 = 4
    BY DEF MAX_PAYLOAD_SIZE, HID_REPORT_SIZE, HEADER_SIZE
  <2>2. ~(Len(p) > 125)
    BY <1>0
  <2> QED BY <1>5, <1>6, <1>7, <2>1, <2>2 DEF FrameParse
<1> QED BY <1>4, <1>5, <1>8, <1>9 DEF Ok

(***************************************************************************)
(* Codes and their names, there and back.                                  *)
(***************************************************************************)
(* A command's opcode is a byte that names this command and no other.      *)
LEMMA CommandRoundTrip ==
  ASSUME NEW c \in Commands
  PROVE  CommandOpcode[c] \in Byte /\ CommandFrom(CommandOpcode[c]) = c
<1>1. \A d \in Commands : CommandOpcode[d] = CommandOpcode[c] => d = c
  BY DEF Commands, CommandOpcode, RuntimeOpcodes, ProvisioningOpcodes, LockOpcodes
<1>2. CommandOpcode[c] \in Nat /\ CommandOpcode[c] <= 255
  BY DEF Commands, CommandOpcode, RuntimeOpcodes, ProvisioningOpcodes, LockOpcodes
<1>3. CommandFrom(CommandOpcode[c]) = c
  BY <1>1, Zenon DEF CommandFrom
<1> QED BY <1>2, <1>3, ByteRange

(* A response status is a byte that names this status and no other. *)
LEMMA StatusRoundTrip ==
  ASSUME NEW s \in DOMAIN ResponseStatus
  PROVE  ResponseStatus[s] \in Byte /\ StatusFrom(ResponseStatus[s]) = s
<1>1. \A d \in DOMAIN ResponseStatus : ResponseStatus[d] = ResponseStatus[s] => d = s
  BY DEF ResponseStatus
<1>2. ResponseStatus[s] \in Nat /\ ResponseStatus[s] <= 255
  BY DEF ResponseStatus
<1>3. StatusFrom(ResponseStatus[s]) = s
  BY <1>1, Zenon DEF StatusFrom
<1> QED BY <1>2, <1>3, ByteRange

(* A driver error's sub-code is a byte that names this error. *)
LEMMA SubCodeRoundTrip ==
  ASSUME NEW k \in DOMAIN SubCodes
  PROVE  as_sub_code(k) \in Byte /\ from_sub_code(as_sub_code(k)) = k
<1>1. \A d \in DOMAIN SubCodes : SubCodes[d] = SubCodes[k] => d = k
  BY DEF SubCodes
<1>2. SubCodes[k] \in Nat /\ SubCodes[k] <= 255
  BY DEF SubCodes
<1>3. from_sub_code(SubCodes[k]) = k
  BY <1>1, Zenon DEF from_sub_code
<1> QED BY <1>2, <1>3, ByteRange DEF as_sub_code

(* from_status_byte keeps the chip's byte, and as_status_byte finds it     *)
(* again, an unknown one too.                                              *)
LEMMA ChipErrorRoundTrip ==
  ASSUME NEW b \in Byte, b # 0
  PROVE  /\ from_status_byte(b).kind = "Chip"
         /\ as_status_byte(from_status_byte(b)) = b
<1>1. from_status_byte(b).raw = b /\ from_status_byte(b).kind = "Chip"
  BY DEF from_status_byte
<1>2. CASE \E e \in DOMAIN ChipErrors : ChipErrors[e] = b
  <2>1. from_status_byte(b).chip = CHOOSE e \in DOMAIN ChipErrors : ChipErrors[e] = b
    BY <1>2 DEF from_status_byte
  <2>2. from_status_byte(b).chip \in DOMAIN ChipErrors /\ ChipErrors[from_status_byte(b).chip] = b
    BY <1>2, <2>1, Zenon
  <2> QED BY <1>1, <2>2 DEF as_status_byte
<1>3. CASE ~\E e \in DOMAIN ChipErrors : ChipErrors[e] = b
  <2>1. from_status_byte(b).chip = "Unknown"
    BY <1>3 DEF from_status_byte
  <2>2. "Unknown" \notin DOMAIN ChipErrors
    BY DEF ChipErrors
  <2> QED BY <1>1, <2>1, <2>2 DEF as_status_byte
<1> QED BY <1>2, <1>3

(* What hsm-host's send_command makes of each status write_status can      *)
(* send.                                                                   *)
LEMMA StatusRead ==
  ASSUME NEW s \in DOMAIN ResponseStatus, NEW p \in Bytes, Len(p) <= 125
  PROVE  /\ Whole(write_status(s, p))
         /\ s = "Ok" => receive(write_status(s, p)) = Ok(p)
         /\ s = "AteccChipError" /\ Len(p) = 1 =>
              receive(write_status(s, p)) = Err(from_status_byte(p[1]))
         /\ s = "AteccCommunicationError" /\ Len(p) = 1 =>
              receive(write_status(s, p)) = Failure(from_sub_code(p[1]))
         /\ s \notin {"Ok", "AteccChipError", "AteccCommunicationError"} =>
              receive(write_status(s, p)) = Err([kind |-> s, data |-> p])
<1> DEFINE r == to_report(ResponseStatus[s], p)
           w == write_status(s, p)
<1>1. ResponseStatus[s] \in Byte /\ StatusFrom(ResponseStatus[s]) = s
  BY StatusRoundTrip
<1>2. /\ r.ok /\ r.value \in Bytes /\ Len(r.value) = 128
      /\ FrameParse(r.value) = Ok([opcode |-> ResponseStatus[s], payload |-> p])
  BY <1>1, ReportRead
<1> HIDE DEF r
<1>3. w = r.value
  BY <1>2 DEF write_status, r
<1>4. Whole(w)
  BY <1>2, <1>3, Zenon DEF Whole
<1> DEFINE f == FrameParse(w)
<1>5. f.ok /\ f.value.opcode = ResponseStatus[s] /\ f.value.payload = p
  BY <1>2, <1>3 DEF Ok
<1> HIDE DEF w
<1>6. /\ s = "Ok" => receive(w) = Ok(p)
      /\ s = "AteccChipError" /\ Len(p) = 1 => receive(w) = Err(from_status_byte(p[1]))
      /\ s = "AteccCommunicationError" /\ Len(p) = 1 => receive(w) = Failure(from_sub_code(p[1]))
      /\ s \notin {"Ok", "AteccChipError", "AteccCommunicationError"} =>
           receive(w) = Err([kind |-> s, data |-> p])
  <2> HIDE DEF f
  <2> QED BY <1>1, <1>5 DEF receive, f
<1> QED BY <1>4, <1>6, Zenon DEF w

(***************************************************************************)
(* A response frame, and one flipped bit of it.                            *)
(***************************************************************************)
(* Joined buffers taken apart again.                                       *)
LEMMA Parts ==
  ASSUME NEW s \in Bytes, NEW t \in Bytes
  PROVE  /\ SubSeq(s \o t, 1, Len(s)) = s
         /\ SubSeq(s \o t, Len(s) + 1, Len(s) + Len(t)) = t
<1> DEFINE m == Len(s)
           n == Len(t)
           w == s \o t
<1>0. m \in Nat /\ n \in Nat /\ 0 \in Nat /\ 0 + m <= m /\ 0 + n <= n
  BY DEF Bytes
<1>1. SubSeq(w, 0 + 1, 0 + m) = SubSeq(s, 0 + 1, 0 + m)
  BY <1>0, CutLeft, Zenon
<1>2. SubSeq(w, m + 0 + 1, m + 0 + n) = SubSeq(t, 0 + 1, 0 + n)
  BY <1>0, CutRight, Zenon
<1>3. SubSeq(s, 1, m) = s /\ SubSeq(t, 1, n) = t
  BY CutAll
<1> HIDE DEF w, m, n
<1>4. SubSeq(w, 1, m) = s /\ SubSeq(w, m + 1, m + n) = t
  BY <1>0, <1>1, <1>2, <1>3
<1> QED BY <1>4 DEF w, m, n

(* A CRC put after a buffer is found there by verify_trailing_crc. *)
LEMMA Sealed ==
  ASSUME NEW body \in Bytes, NEW m \in Nat, Len(body) = m, m >= 1
  PROVE  LET f == body \o crc16_to_bytes(crc16(body))
         IN  /\ f \in Bytes /\ Len(f) = m + 2 /\ \A i \in 1..m : f[i] = body[i]
             /\ SubSeq(f, 1, m) = body
             /\ verify_trailing_crc(f)
<1> DEFINE w == crc16(body)
           t == LowHigh(w)
           f == body \o t
<1>1. w \in Word
  BY CrcType DEF Bytes
<1>2. /\ t \in Bytes /\ Len(t) = 2 /\ FromLowHigh(t[1], t[2]) = w
  <2> HIDE DEF w
  <2> QED BY <1>1, LowHighWord
<1> HIDE DEF w, t
<1>4. /\ f \in Bytes /\ Len(f) = m + 2
      /\ \A i \in 1..m : f[i] = body[i]
      /\ \A i \in 1..2 : f[m + i] = t[i]
      /\ SubSeq(f, 1, m) = body
  <2>1. /\ f \in Bytes /\ Len(f) = Len(body) + Len(t)
        /\ \A i \in 1..Len(body) : f[i] = body[i]
        /\ \A i \in 1..Len(t) : f[Len(body) + i] = t[i]
    BY <1>2, Joined, Zenon
  <2>2. SubSeq(f, 1, Len(body)) = body
    BY <1>2, Parts, Zenon
  <2> HIDE DEF f
  <2> QED BY <1>2, <2>1, <2>2
<1> HIDE DEF f
<1>5. f[m + 1] = t[1] /\ f[m + 2] = t[2]
  BY <1>4
<1>6. (m + 2) - 2 = m /\ (m + 2) - 1 = m + 1 /\ m + 2 >= 3
  OBVIOUS
<1>7. verify_trailing_crc(f)
  BY <1>2, <1>4, <1>5, <1>6 DEF verify_trailing_crc, w
<1> QED BY <1>4, <1>7 DEF w, t, f, crc16_to_bytes

(* One flipped bit of a buffer with its CRC, in either of them, is noticed *)
(* by verify_trailing_crc.                                                 *)
LEMMA SealedFlip ==
  ASSUME NEW f \in Bytes, NEW m \in Nat, Len(f) = m + 2, m >= 1, verify_trailing_crc(f),
         NEW i \in 1..(m + 2), NEW k \in 0..7
  PROVE  LET g == [f EXCEPT ![i] = Flip(@, k)]
         IN  /\ g \in Bytes /\ Len(g) = m + 2
             /\ g[i] = Flip(f[i], k) /\ \A j \in 1..(m + 2) : j # i => g[j] = f[j]
             /\ ~verify_trailing_crc(g)
<1> DEFINE g == [f EXCEPT ![i] = Flip(@, k)]
           body == SubSeq(f, 1, m)
           b == SubSeq(g, 1, m)
<1>0. (m + 2) - 2 = m /\ (m + 2) - 1 = m + 1 /\ 0 \in Nat /\ 0 + 1 = 1 /\ 0 + m = m
  OBVIOUS
<1>1. crc16(body) = FromLowHigh(f[m + 1], f[m + 2])
  BY <1>0 DEF verify_trailing_crc
<1>2. f[i] \in Byte /\ f[m + 1] \in Byte /\ f[m + 2] \in Byte
  BY DEF Bytes
<1>3. Flip(f[i], k) \in Byte /\ Flip(f[i], k) # f[i]
  <2>1. /\ Flip(f[i], k) \in Byte /\ Bits(Flip(f[i], k), k, 1) # Bits(f[i], k, 1)
    BY <1>2, FlipBits
  <2> QED BY <2>1
<1>4. g \in Bytes /\ Len(g) = m + 2
  BY <1>3 DEF Bytes
<1>5. g[i] = Flip(f[i], k) /\ \A j \in 1..(m + 2) : j # i => g[j] = f[j]
  BY DEF Bytes
<1> HIDE DEF g
<1>6. /\ b \in Bytes /\ Len(b) = m /\ \A j \in 1..m : b[j] = g[j]
      /\ body \in Bytes /\ Len(body) = m /\ \A j \in 1..m : body[j] = f[j]
  <2>1. m + 0 <= Len(g) /\ m + 0 <= Len(f) /\ 0 + m <= Len(g) /\ 0 + m <= Len(f)
    BY <1>4
  <2>2. /\ SubSeq(g, 0 + 1, 0 + m) \in Bytes /\ Len(SubSeq(g, 0 + 1, 0 + m)) = m
        /\ \A j \in 1..m : SubSeq(g, 0 + 1, 0 + m)[j] = g[0 + j]
    BY <1>0, <1>4, <2>1, Cut, Zenon
  <2>3. /\ SubSeq(f, 0 + 1, 0 + m) \in Bytes /\ Len(SubSeq(f, 0 + 1, 0 + m)) = m
        /\ \A j \in 1..m : SubSeq(f, 0 + 1, 0 + m)[j] = f[0 + j]
    BY <1>0, <2>1, Cut, Zenon
  <2>4. \A j \in 1..m : 0 + j = j
    OBVIOUS
  <2> QED BY <1>0, <2>2, <2>3, <2>4
<1> HIDE DEF b, body
<1>7. crc16(b) # FromLowHigh(g[m + 1], g[m + 2])
  <2>1. CASE i <= m
    <3> DEFINE c == [body EXCEPT ![i] = Flip(@, k)]
    <3>1. i \in 1..Len(body) /\ i \in 1..m
      BY <1>6, <2>1
    <3>2. crc16(c) # crc16(body)
      BY <1>6, <3>1, CrcSeesAFlip DEF Bytes
    <3>3. c \in Bytes /\ Len(c) = m /\ c[i] = Flip(body[i], k) /\ \A j \in 1..m : j # i => c[j] = body[j]
      <4>1. body[i] = f[i]
        BY <1>6, <3>1
      <4> QED BY <1>3, <1>6, <3>1, <4>1 DEF Bytes
    <3> HIDE DEF c
    <3>4. \A j \in 1..m : b[j] = c[j]
      <4> TAKE j \in 1..m
      <4>1. j \in 1..(m + 2)
        OBVIOUS
      <4>2. CASE j = i
        BY <1>5, <1>6, <3>1, <3>3, <4>2
      <4>3. CASE j # i
        BY <1>5, <1>6, <3>3, <4>1, <4>3
      <4> QED BY <4>2, <4>3
    <3>5. b = c
      BY <1>6, <3>3, <3>4, BytesEqual
    <3>6. g[m + 1] = f[m + 1] /\ g[m + 2] = f[m + 2]
      <4>1. m + 1 \in 1..(m + 2) /\ m + 2 \in 1..(m + 2) /\ m + 1 # i /\ m + 2 # i
        BY <2>1
      <4> QED BY <1>5, <4>1
    <3> QED BY <1>1, <3>2, <3>5, <3>6
  <2>2. CASE i > m
    <3>1. \A j \in 1..m : b[j] = body[j]
      <4> TAKE j \in 1..m
      <4>1. j \in 1..(m + 2) /\ j # i
        BY <2>2
      <4> QED BY <1>5, <1>6, <4>1
    <3>2. b = body
      BY <1>6, <3>1, BytesEqual
    <3>3. g[m + 1] \in Byte /\ g[m + 2] \in Byte
      BY <1>4 DEF Bytes
    <3>4. g[m + 1] # f[m + 1] \/ g[m + 2] # f[m + 2]
      <4>1. i = m + 1 \/ i = m + 2
        BY <2>2
      <4> QED BY <1>3, <1>5, <4>1
    <3>5. FromLowHigh(g[m + 1], g[m + 2]) # FromLowHigh(f[m + 1], f[m + 2])
      <4> DEFINE lo == f[m + 1]
                 hi == f[m + 2]
                 l == g[m + 1]
                 h == g[m + 2]
      <4>1. lo \in Byte /\ hi \in Byte /\ l \in Byte /\ h \in Byte /\ (l # lo \/ h # hi)
        BY <1>2, <3>3, <3>4
      <4> HIDE DEF lo, hi, l, h
      <4>2. FromLowHigh(l, h) # FromLowHigh(lo, hi)
        BY <4>1, FromBytes
      <4> QED BY <4>2 DEF lo, hi, l, h
    <3> QED BY <1>1, <3>2, <3>5
  <2> QED BY <2>1, <2>2
<1>8. ~verify_trailing_crc(g)
  BY <1>0, <1>4, <1>7 DEF verify_trailing_crc, b
<1> QED BY <1>4, <1>5, <1>8 DEF g

(* The frame of a reply: count byte, payload and CRC. *)
LEMMA FramedShape ==
  ASSUME NEW reply \in Bytes, NEW n \in Nat, Len(reply) = n, n >= 1, n <= 252
  PROVE  LET f == Framed(reply)
         IN  /\ f \in Bytes /\ Len(f) = n + 3 /\ f[1] = n + 3 /\ f[2] = reply[1]
             /\ SubSeq(f, 2, n + 1) = reply
             /\ verify_trailing_crc(f)
<1> DEFINE h == <<n + 3>>
           body == h \o reply
           f == body \o crc16_to_bytes(crc16(body))
<1>1. h \in Bytes /\ Len(h) = 1 /\ h[1] = n + 3
  <2>1. n + 3 \in Byte
    BY ByteRange
  <2> QED BY <2>1 DEF Bytes
<1> HIDE DEF h
<1>2. /\ body \in Bytes /\ Len(body) = Len(h) + Len(reply)
      /\ \A i \in 1..Len(h) : body[i] = h[i]
      /\ \A i \in 1..Len(reply) : body[Len(h) + i] = reply[i]
  BY <1>1, Joined, Zenon
<1>3. SubSeq(body, Len(h) + 1, Len(h) + Len(reply)) = reply
  BY <1>1, Parts, Zenon
<1> HIDE DEF body
<1>4. Len(body) = n + 1 /\ body[1] = n + 3 /\ body[2] = reply[1] /\ n + 1 \in Nat /\ n + 1 >= 1
  <2>1. 1 \in 1..1 /\ 1 \in 1..n /\ 1 + 1 = 2
    OBVIOUS
  <2> QED BY <1>1, <1>2, <2>1
<1>5. /\ f \in Bytes /\ Len(f) = Len(body) + 2 /\ \A i \in 1..Len(body) : f[i] = body[i]
      /\ SubSeq(f, 1, Len(body)) = body
      /\ verify_trailing_crc(f)
  BY <1>2, <1>4, Sealed
<1> DEFINE t == crc16_to_bytes(crc16(body))
<1>6. t \in Bytes
  BY <1>2, CrcType, LowHighWord DEF Bytes, crc16_to_bytes
<1>7. SubSeq(f, 2, n + 1) = reply
  <2>1. 1 \in Nat /\ n \in Nat /\ 1 + n <= Len(body)
    BY <1>4
  <2> HIDE DEF t
  <2>2. SubSeq(body \o t, 1 + 1, 1 + n) = SubSeq(body, 1 + 1, 1 + n)
    BY <1>2, <1>6, <2>1, CutLeft
  <2>3. SubSeq(body, 1 + 1, 1 + n) = reply
    BY <1>1, <1>3
  <2>4. 1 + 1 = 2 /\ 1 + n = n + 1
    OBVIOUS
  <2>5. f = body \o t
    BY DEF t
  <2> HIDE DEF f
  <2>6. SubSeq(f, 1 + 1, 1 + n) = reply
    BY <2>2, <2>3, <2>5, Zenon
  <2> QED BY <2>4, <2>6
<1>8. f = Framed(reply)
  BY DEF Framed, f, body, h
<1> HIDE DEF f
<1>9. Len(f) = n + 3 /\ f[1] = n + 3 /\ f[2] = reply[1]
  <2>1. 1 \in 1..n + 1 /\ 2 \in 1..n + 1
    OBVIOUS
  <2> QED BY <1>4, <1>5, <2>1
<1> QED BY <1>5, <1>7, <1>8, <1>9

(* poll_for_response returns a frame that says its own length and fits the *)
(* buffer.                                                                 *)
LEMMA Polled ==
  ASSUME NEW sent \in Bytes, NEW n \in Nat, Len(sent) = n, sent[1] = n, n >= 4,
         NEW room \in Nat, n <= room, room <= 155
  PROVE  poll_for_response(sent, room) = Ok(sent)
<1> DEFINE read == [i \in 1..n |-> IF i <= Len(sent) THEN sent[i] ELSE 255]
<1>1. read = sent
  <2>1. \A i \in 1..n : read[i] = sent[i]
    OBVIOUS
  <2>2. DOMAIN read = 1..n /\ DOMAIN sent = 1..n
    BY DEF Bytes
  <2> QED BY <2>1, <2>2 DEF Bytes
<1>2. (IF room < MAX_RESPONSE_SIZE THEN room ELSE MAX_RESPONSE_SIZE) = room
  BY DEF MAX_RESPONSE_SIZE
<1>3. ~(n < 4 \/ n > room)
  OBVIOUS
<1> HIDE DEF read
<1> QED BY <1>1, <1>2, <1>3 DEF poll_for_response, read

(* execute_command returns the data of a good reply. *)
LEMMA DataRead ==
  ASSUME NEW want \in {4, 32, 64}, NEW reply \in Bytes, Len(reply) = want
  PROVE  execute_command(Framed(reply), want) = Ok(reply)
<1> DEFINE f == Framed(reply)
<1>0. want \in Nat /\ want >= 4 /\ want <= 64
  OBVIOUS
<1>1. /\ f \in Bytes /\ Len(f) = want + 3 /\ f[1] = want + 3
      /\ SubSeq(f, 2, want + 1) = reply /\ verify_trailing_crc(f)
  BY <1>0, FramedShape
<1> HIDE DEF f
<1>2. poll_for_response(f, 1 + want + 2) = Ok(f)
  <2>1. /\ 1 + want + 2 \in Nat /\ want + 3 \in Nat /\ want + 3 >= 4 /\ want + 3 <= 1 + want + 2
        /\ 1 + want + 2 <= 155
    BY <1>0
  <2> QED BY <1>1, <2>1, Polled
<1>3. parse_response_frame(f) = Ok([payload |-> reply])
  <2>1. (want + 3) - 2 = want + 1 /\ ~(want + 3 < 4) /\ want + 3 # 4
    BY <1>0
  <2> QED BY <1>1, <2>1 DEF parse_response_frame
<1>4. execute_command(f, want) = Ok(reply)
  <2> DEFINE read == poll_for_response(f, 1 + want + 2)
             parsed == parse_response_frame(read.value)
  <2>1. read.ok = TRUE /\ read.value = f
    BY <1>2 DEF Ok
  <2>2. parsed.ok = TRUE /\ parsed.value = [payload |-> reply]
    BY <1>3, <2>1 DEF Ok
  <2>3. "payload" \in DOMAIN parsed.value /\ parsed.value.payload = reply
    BY <2>2
  <2> HIDE DEF read, parsed
  <2> QED BY <2>1, <2>2, <2>3 DEF execute_command, read, parsed
<1> QED BY <1>4 DEF f

(* A status frame, parsed. *)
LEMMA StatusFrame ==
  ASSUME NEW s \in Byte
  PROVE  LET f == Framed(<<s>>)
         IN  /\ f \in Bytes /\ Len(f) = 4 /\ f[1] = 4 /\ verify_trailing_crc(f)
             /\ parse_response_frame(f) = Ok([status |-> s])
<1> DEFINE r == <<s>>
           f == Framed(r)
<1>1. r \in Bytes /\ Len(r) = 1 /\ r[1] = s
  BY DEF Bytes
<1> HIDE DEF r
<1>2. /\ f \in Bytes /\ Len(f) = 4 /\ f[1] = 4 /\ f[2] = s /\ verify_trailing_crc(f)
  <2>1. 1 \in Nat /\ 1 >= 1 /\ 1 <= 252 /\ 1 + 3 = 4
    OBVIOUS
  <2> QED BY <1>1, <2>1, FramedShape, ZenonT(60)
<1> HIDE DEF f
<1>3. parse_response_frame(f) = Ok([status |-> s])
  BY <1>2 DEF parse_response_frame
<1> QED BY <1>2, <1>3 DEF f, r

(* A status in the place of data is an error, success included. *)
LEMMA StatusToData ==
  ASSUME NEW want \in {4, 32, 64}, NEW s \in Byte
  PROVE  execute_command(Framed(<<s>>), want) =
           IF s = 0 THEN Failure("MalformedResponse") ELSE Err(from_status_byte(s))
<1> DEFINE f == Framed(<<s>>)
<1>1. f \in Bytes /\ Len(f) = 4 /\ f[1] = 4 /\ parse_response_frame(f) = Ok([status |-> s])
  BY StatusFrame
<1> HIDE DEF f
<1>2. poll_for_response(f, 1 + want + 2) = Ok(f)
  <2> DEFINE room == 1 + want + 2
  <2>1. room \in Nat /\ 4 <= room /\ room <= 155 /\ 4 \in Nat /\ 4 >= 4
    OBVIOUS
  <2> HIDE DEF room
  <2>2. poll_for_response(f, room) = Ok(f)
    BY <1>1, <2>1, Polled, ZenonT(60)
  <2> QED BY <2>2 DEF room
<1>3. "payload" \notin DOMAIN [status |-> s]
  OBVIOUS
<1>4. [status |-> s] = [status |-> 0] <=> s = 0
  OBVIOUS
<1>5. execute_command(f, want) =
           IF s = 0 THEN Failure("MalformedResponse") ELSE Err(from_status_byte(s))
  BY <1>1, <1>2, <1>3, <1>4 DEF execute_command, Ok
<1> QED BY <1>5 DEF f

(* execute_command_status takes 0 for success and names the other          *)
(* statuses.                                                               *)
LEMMA StatusToStatus ==
  ASSUME NEW s \in Byte
  PROVE  execute_command_status(Framed(<<s>>)) = IF s = 0 THEN Ok(<<>>) ELSE Err(from_status_byte(s))
<1> DEFINE f == Framed(<<s>>)
<1>1. f \in Bytes /\ Len(f) = 4 /\ f[1] = 4 /\ parse_response_frame(f) = Ok([status |-> s])
  BY StatusFrame
<1> HIDE DEF f
<1>2. poll_for_response(f, STATUS_RESPONSE_LEN) = Ok(f)
  <2>1. STATUS_RESPONSE_LEN = 4 /\ 4 \in Nat /\ 4 <= 4 /\ 4 <= 155 /\ 4 >= 4
    BY DEF STATUS_RESPONSE_LEN
  <2> QED BY <1>1, <2>1, Polled
<1>4. [status |-> s] = [status |-> 0] <=> s = 0
  OBVIOUS
<1>5. execute_command_status(f) = IF s = 0 THEN Ok(<<>>) ELSE Err(from_status_byte(s))
  BY <1>1, <1>2, <1>4 DEF execute_command_status, Ok
<1> QED BY <1>5 DEF f

(* The length of a buffer by its indices. *)
LEMMA DomainLen ==
  ASSUME NEW x \in Bytes, NEW n \in Nat, DOMAIN x = 1..n
  PROVE  Len(x) = n
<1>1. Len(x) \in Nat /\ DOMAIN x = 1..Len(x)
  BY LenProperties DEF Bytes
<1> QED BY <1>1

(* A frame with the right count and a wrong CRC is BadCrc. *)
LEMMA BadCrcFrame ==
  ASSUME NEW x \in Bytes, NEW n \in Nat, Len(x) = n, x[1] = n, n >= 4, ~verify_trailing_crc(x)
  PROVE  parse_response_frame(x) = Failure("BadCrc")
<1>1. ~(n < 4)
  OBVIOUS
<1> QED BY <1>1, Zenon DEF parse_response_frame

(* A frame with the right count and CRC is data. *)
LEMMA DataFrame ==
  ASSUME NEW x \in Bytes, NEW n \in Nat, Len(x) = n, x[1] = n, n > 4, verify_trailing_crc(x)
  PROVE  /\ parse_response_frame(x) = Ok([payload |-> SubSeq(x, 2, n - 2)])
         /\ Len(SubSeq(x, 2, n - 2)) = n - 3
<1>1. ~(n < 4) /\ n # 4
  OBVIOUS
<1>2. parse_response_frame(x) = Ok([payload |-> SubSeq(x, 2, n - 2)])
  BY <1>1, Zenon DEF parse_response_frame
<1> DEFINE q == n - 3
<1>3. 1 \in Nat /\ q \in Nat /\ 1 + q <= Len(x) /\ 1 + 1 = 2 /\ 1 + q = n - 2
  OBVIOUS
<1> HIDE DEF q
<1>4. Len(SubSeq(x, 1 + 1, 1 + q)) = q
  BY <1>3, Cut
<1>5. Len(SubSeq(x, 2, n - 2)) = q
  BY <1>3, <1>4
<1> QED BY <1>2, <1>5 DEF q

(* Noise flips one bit of one byte of the frame. *)
LEMMA FlipPlace ==
  ASSUME NEW f \in Bytes, NEW where \in Noise, FlipIn(f, where) # f
  PROVE  \E i \in 1..Len(f), k \in 0..7 : FlipIn(f, where) = [f EXCEPT ![i] = Flip(@, k)]
<1> DEFINE i == IF where[1] = 0 THEN Len(f) ELSE where[1]
           k == where[2]
<1>1. where[1] \in Nat /\ k \in 0..7
  BY WirePathAssumption
<1>2. Len(f) \in Nat
  BY DEF Bytes
<1>3. i \in Nat /\ (where[1] # 0 => i >= 1)
  BY <1>1, <1>2
<1>4. i <= Len(f) /\ FlipIn(f, where) = [f EXCEPT ![i] = Flip(@, k)]
  BY Zenon DEF FlipIn
<1>5. i \in 1..Len(f)
  <2>1. CASE Len(f) = 0
    <3>1. f = <<>>
      BY <2>1 DEF Bytes
    <3>2. i \notin DOMAIN f
      BY <3>1
    <3>3. [f EXCEPT ![i] = Flip(@, k)] = f
      BY <3>1, <3>2
    <3> QED BY <1>4, <3>3
  <2>2. CASE Len(f) # 0
    BY <1>1, <1>2, <1>3, <1>4, <2>2
  <2> QED BY <2>1, <2>2
<1> QED BY <1>1, <1>4, <1>5, Zenon

(* A flipped count byte is not the count of another frame the command      *)
(* could have had.                                                         *)
LEMMA CountFlip ==
  ASSUME NEW k \in 0..7
  PROVE  /\ Flip(4, k) \notin {4, 7, 35, 67} /\ Flip(7, k) \notin {4, 7}
         /\ Flip(35, k) \notin {4, 35} /\ Flip(67, k) \notin {4, 67}
<1>1. CASE k = 0 BY <1>1 DEF Flip, Bits
<1>2. CASE k = 1 BY <1>2 DEF Flip, Bits
<1>3. CASE k = 2 BY <1>3 DEF Flip, Bits
<1>4. CASE k = 3 BY <1>4 DEF Flip, Bits
<1>5. CASE k = 4 BY <1>5 DEF Flip, Bits
<1>6. CASE k = 5 BY <1>6 DEF Flip, Bits
<1>7. CASE k = 6 BY <1>7 DEF Flip, Bits
<1>8. CASE k = 7 BY <1>8 DEF Flip, Bits
<1> QED BY <1>1, <1>2, <1>3, <1>4, <1>5, <1>6, <1>7, <1>8

(* poll_for_response fails, or returns as many bytes as the count byte     *)
(* says.                                                                   *)
LEMMA PolledSome ==
  ASSUME NEW sent \in Bytes, Len(sent) >= 1, NEW room \in Nat, room <= 155
  PROVE  \/ poll_for_response(sent, room) = Failure("MalformedResponse")
         \/ /\ sent[1] >= 4 /\ sent[1] <= room
            /\ \E x \in Bytes : /\ poll_for_response(sent, room) = Ok(x)
                                /\ Len(x) = sent[1] /\ x[1] = sent[1]
<1>0. Len(sent) \in Nat /\ sent[1] \in Byte /\ \A i \in 1..Len(sent) : sent[i] \in Byte
  BY DEF Bytes
<1> DEFINE total == sent[1]
           x == [i \in 1..total |-> IF i <= Len(sent) THEN sent[i] ELSE 255]
<1>1. total \in Nat /\ 255 \in Byte
  BY <1>0, ByteRange
<1>2. (IF room < MAX_RESPONSE_SIZE THEN room ELSE MAX_RESPONSE_SIZE) = room
  BY DEF MAX_RESPONSE_SIZE
<1>3. CASE total < 4 \/ total > room
  BY <1>2, <1>3 DEF poll_for_response
<1>4. CASE ~(total < 4 \/ total > room)
  <2>1. poll_for_response(sent, room) = Ok(x)
    BY <1>2, <1>4 DEF poll_for_response
  <2>2. \A i \in 1..total : x[i] \in Byte
    <3> TAKE i \in 1..total
    <3>1. CASE i <= Len(sent)
      <4>1. i \in 1..Len(sent)
        BY <1>0, <1>1, <3>1
      <4> QED BY <1>0, <3>1, <4>1
    <3>2. CASE ~(i <= Len(sent))
      BY <1>1, <3>2
    <3> QED BY <3>1, <3>2
  <2>3. x \in [1..total -> Byte]
    BY <2>2, Zenon
  <2>4. x \in Bytes
    BY <1>1, <2>3, SeqDef DEF Bytes
  <2>5. Len(x) = total
    <3>1. DOMAIN x = 1..total
      BY <2>3
    <3> HIDE DEF x, total
    <3> QED BY <1>1, <2>4, <3>1, DomainLen
  <2>6. x[1] = total /\ total >= 4 /\ total <= room
    BY <1>0, <1>1, <1>4
  <2> QED BY <2>1, <2>4, <2>5, <2>6
<1> QED BY <1>3, <1>4

(* A status reply with a flipped bit is refused by the driver. *)
LEMMA FlippedStatus ==
  ASSUME NEW s \in Byte, NEW i \in 1..4, NEW k \in 0..7
  PROVE  execute_command_status([Framed(<<s>>) EXCEPT ![i] = Flip(@, k)]) \in Refused
<1> DEFINE f == Framed(<<s>>)
           g == [f EXCEPT ![i] = Flip(@, k)]
           read == poll_for_response(g, STATUS_RESPONSE_LEN)
           parsed == parse_response_frame(read.value)
<1> SUFFICES execute_command_status(g) \in Refused
  OBVIOUS
<1>1. f \in Bytes /\ Len(f) = 4 /\ f[1] = 4 /\ verify_trailing_crc(f)
  BY StatusFrame
<1> HIDE DEF f
<1>2. /\ g \in Bytes /\ Len(g) = 4 /\ ~verify_trailing_crc(g)
      /\ g[i] = Flip(f[i], k) /\ \A j \in 1..4 : j # i => g[j] = f[j]
  <2>1. PICK m \in Nat : m = 2
    OBVIOUS
  <2>2. m >= 1 /\ i \in 1..(m + 2) /\ Len(f) = m + 2
    BY <1>1, <2>1
  <2>3. g \in Bytes /\ Len(g) = m + 2
    <3>1. Len(g) = m + 2
      BY <1>1, <2>2, SealedFlip
    <3>2. g \in Bytes
      BY <1>1, <2>2, SealedFlip, Zenon
    <3> QED BY <3>1, <3>2
  <2>4. ~verify_trailing_crc(g)
    BY <1>1, <2>2, SealedFlip, Zenon
  <2>5. g[i] = Flip(f[i], k) /\ \A j \in 1..(m + 2) : j # i => g[j] = f[j]
    BY <1>1, <2>2, SealedFlip
  <2> HIDE DEF g
  <2>6. m + 2 = 4
    BY <2>1
  <2> QED BY <2>3, <2>4, <2>5, <2>6, Zenon
<1> HIDE DEF g
<1>3. 4 \in Nat /\ 4 <= 155 /\ 4 <= 4 /\ 4 >= 4 /\ STATUS_RESPONSE_LEN = 4
  BY DEF STATUS_RESPONSE_LEN
<1>5. CASE i = 1
  <2>1. g[1] # 4
    BY <1>1, <1>2, <1>5, CountFlip
  <2>2. read = Failure("MalformedResponse")
    <3>1. g[1] \in Nat
      <4>1. 1 \in 1..Len(g)
        BY <1>2
      <4>2. g[1] \in Byte
        BY <1>2, <4>1 DEF Bytes
      <4> QED BY <4>2, ByteRange
    <3>2. Len(g) >= 1
      BY <1>2
    <3> QED BY <1>2, <1>3, <2>1, <3>1, <3>2, PolledSome
  <2>3. read.ok = FALSE
    BY <2>2 DEF Failure, Err
  <2> HIDE DEF read, parsed
  <2>4. execute_command_status(g) = read
    BY <2>3 DEF execute_command_status, read
  <2> QED BY <2>2, <2>4 DEF Refused
<1>6. CASE i # 1
  <2>1. g[1] = 4
    BY <1>1, <1>2, <1>6
  <2>2. read = Ok(g)
    BY <1>2, <1>3, <2>1, Polled
  <2>3. parse_response_frame(g) = Failure("BadCrc")
    BY <1>2, <1>3, <2>1, BadCrcFrame
  <2>4. read.ok = TRUE /\ parsed = Failure("BadCrc") /\ parsed.ok = FALSE
    BY <2>2, <2>3 DEF Ok, Failure, Err
  <2> HIDE DEF read, parsed
  <2>5. execute_command_status(g) = parsed
    BY <2>4 DEF execute_command_status, read, parsed
  <2> QED BY <2>4, <2>5 DEF Refused
<1> QED BY <1>5, <1>6

(* A reply the driver waits for: a status, or as many bytes as it wants. *)
Due(reply, n, want) == want \in {4, 32, 64} /\ Len(reply) = n /\ (n = 1 \/ n = want)

(* Data, or a status in its place, with a flipped bit is refused by the    *)
(* driver.                                                                 *)
LEMMA FlippedData ==
  ASSUME NEW reply \in Bytes, NEW n \in Nat, NEW want, Due(reply, n, want),
         NEW i \in 1..(n + 3), NEW k \in 0..7
  PROVE  execute_command([Framed(reply) EXCEPT ![i] = Flip(@, k)], want) \in Refused
<1> SUFFICES ASSUME want \in {4, 32, 64}, Len(reply) = n, n = 1 \/ n = want
             PROVE  execute_command([Framed(reply) EXCEPT ![i] = Flip(@, k)], want) \in Refused
  BY DEF Due
<1> DEFINE f == Framed(reply)
           g == [f EXCEPT ![i] = Flip(@, k)]
           room == 1 + want + 2
           read == poll_for_response(g, room)
           parsed == parse_response_frame(read.value)
<1> SUFFICES execute_command(g, want) \in Refused
  OBVIOUS
<1>0. n >= 1 /\ n <= 252 /\ n + 1 \in Nat /\ n + 1 >= 1 /\ n + 3 = (n + 1) + 2
      /\ room \in Nat /\ room <= 155 /\ n + 3 <= room /\ room = want + 3 /\ n + 3 \in Nat /\ n + 3 >= 4
  OBVIOUS
<1>1. f \in Bytes /\ Len(f) = n + 3 /\ f[1] = n + 3 /\ verify_trailing_crc(f)
  BY <1>0, FramedShape
<1> HIDE DEF f
<1>2. /\ g \in Bytes /\ Len(g) = n + 3 /\ ~verify_trailing_crc(g)
      /\ g[i] = Flip(f[i], k) /\ \A j \in 1..(n + 3) : j # i => g[j] = f[j]
  <2>1. PICK m \in Nat : m = n + 1
    BY <1>0
  <2>2. m >= 1 /\ i \in 1..(m + 2) /\ Len(f) = m + 2
    BY <1>0, <1>1, <2>1
  <2>3. g \in Bytes /\ Len(g) = m + 2
    <3>1. Len(g) = m + 2
      BY <1>1, <2>2, SealedFlip
    <3>2. g \in Bytes
      BY <1>1, <2>2, SealedFlip, Zenon
    <3> QED BY <3>1, <3>2
  <2>4. ~verify_trailing_crc(g)
    BY <1>1, <2>2, SealedFlip, Zenon
  <2>5. g[i] = Flip(f[i], k) /\ \A j \in 1..(m + 2) : j # i => g[j] = f[j]
    BY <1>1, <2>2, SealedFlip
  <2> HIDE DEF g
  <2>6. m + 2 = n + 3
    BY <2>1
  <2> QED BY <2>3, <2>4, <2>5, <2>6, Zenon
<1> HIDE DEF g
<1> HIDE DEF room
<1>4. CASE i = 1
  <2>1. g[1] # 4 /\ g[1] # want + 3
    <3>1. g[1] = Flip(n + 3, k)
      BY <1>1, <1>2, <1>4
    <3>2. CASE n = 1
      BY <3>1, <3>2, CountFlip
    <3>3. CASE n = want
      BY <3>1, <3>3, CountFlip
    <3> QED BY <3>2, <3>3
  <2>2. Len(g) >= 1
    BY <1>0, <1>2
  <2>3. CASE read = Failure("MalformedResponse")
    <3>1. read.ok = FALSE
      BY <2>3 DEF Failure, Err
    <3> HIDE DEF read, parsed
    <3>2. execute_command(g, want) = read
      BY <3>1 DEF execute_command, read, room
    <3> QED BY <2>3, <3>2 DEF Refused
  <2>4. ASSUME NEW x \in Bytes, read = Ok(x), Len(x) = g[1], x[1] = g[1], g[1] >= 4
        PROVE  execute_command(g, want) \in Refused
    <3>1. read.ok = TRUE /\ read.value = x
      BY <2>4 DEF Ok
    <3>2. PICK total \in Nat : total = Len(x)
      BY DEF Bytes
    <3>3. Len(x) = total /\ x[1] = total /\ total > 4 /\ total # want + 3 /\ total >= 4
      BY <2>1, <2>4, <3>2
    <3>4. CASE ~verify_trailing_crc(x)
      <4>1. parsed = Failure("BadCrc")
        BY <3>1, <3>3, <3>4, BadCrcFrame, Zenon
      <4>2. parsed.ok = FALSE
        BY <4>1 DEF Failure, Err
      <4> HIDE DEF read, parsed
      <4>3. execute_command(g, want) = parsed
        BY <3>1, <4>2 DEF execute_command, read, parsed, room
      <4> QED BY <4>1, <4>3 DEF Refused
    <3>5. CASE verify_trailing_crc(x)
      <4> DEFINE p == SubSeq(x, 2, total - 2)
      <4>1. parsed = Ok([payload |-> p]) /\ Len(p) = total - 3
        BY <3>1, <3>3, <3>5, DataFrame, Zenon
      <4>3. Len(p) # want
        BY <3>3, <4>1
      <4> HIDE DEF p, read
      <4>4. parsed.ok = TRUE /\ "payload" \in DOMAIN parsed.value /\ parsed.value.payload = p
        BY <4>1 DEF Ok
      <4> HIDE DEF parsed
      <4>5. execute_command(g, want) = Failure("MalformedResponse")
        BY <3>1, <4>3, <4>4 DEF execute_command, read, parsed, room
      <4> QED BY <4>5 DEF Refused
    <3> QED BY <3>4, <3>5
  <2>5. \/ read = Failure("MalformedResponse")
        \/ \E x \in Bytes : read = Ok(x) /\ Len(x) = g[1] /\ x[1] = g[1] /\ g[1] >= 4
    BY <1>0, <1>2, <2>2, PolledSome, Zenon
  <2> QED BY <2>3, <2>4, <2>5, Zenon
<1>5. CASE i # 1
  <2>1. g[1] = n + 3
    <3>1. 1 \in 1..(n + 3)
      BY <1>0
    <3> QED BY <1>1, <1>2, <1>5, <3>1
  <2>2. read = Ok(g)
    BY <1>0, <1>2, <2>1, Polled
  <2>3. parse_response_frame(g) = Failure("BadCrc")
    BY <1>0, <1>2, <2>1, BadCrcFrame
  <2>4. read.ok = TRUE /\ parsed = Failure("BadCrc") /\ parsed.ok = FALSE
    BY <2>2, <2>3 DEF Ok, Failure, Err
  <2> HIDE DEF read, parsed
  <2>5. execute_command(g, want) = parsed
    BY <2>4 DEF execute_command, read, parsed, room
  <2> QED BY <2>4, <2>5 DEF Refused
<1> QED BY <1>4, <1>5

(***************************************************************************)
(* The chip hears the command the driver sent, and serves it.              *)
(***************************************************************************)
(* The chip takes the frame build_command_frame made apart into the        *)
(* opcode, parameters and data it was made from.                           *)
LEMMA CommandHeard ==
  ASSUME NEW op \in Byte, NEW p1 \in Byte, NEW p2 \in Word, NEW data \in Bytes,
         NEW n \in Nat, Len(data) = n, n <= 155, NEW c
  PROVE  ChipAnswer(build_command_frame(op, p1, p2, data).value, c) = Execute(op, p1, p2, data, c)
<1> DEFINE a == <<7 + n, op, p1>>
           b == LowHigh(p2)
           h == a \o b
           body == h \o data
           t == crc16_to_bytes(crc16(body))
           f == body \o t
<1>1. a \in Bytes /\ Len(a) = 3 /\ a[1] = 7 + n /\ a[2] = op /\ a[3] = p1
  <2>1. 7 + n \in Byte
    BY ByteRange
  <2> QED BY <2>1 DEF Bytes
<1>2. b \in Bytes /\ Len(b) = 2 /\ FromLowHigh(b[1], b[2]) = p2
  BY LowHighWord
<1> HIDE DEF a, b
<1>3. /\ h \in Bytes /\ Len(h) = Len(a) + Len(b)
      /\ \A i \in 1..Len(a) : h[i] = a[i]
      /\ \A i \in 1..Len(b) : h[Len(a) + i] = b[i]
  BY <1>1, <1>2, Joined, Zenon
<1> HIDE DEF h
<1>4. Len(h) = 5 /\ h[1] = 7 + n /\ h[2] = op /\ h[3] = p1 /\ h[4] = b[1] /\ h[5] = b[2]
  <2>1. 1 \in 1..3 /\ 2 \in 1..3 /\ 3 \in 1..3 /\ 1 \in 1..2 /\ 2 \in 1..2 /\ 3 + 1 = 4 /\ 3 + 2 = 5
    OBVIOUS
  <2> QED BY <1>1, <1>2, <1>3, <2>1
<1>5. /\ body \in Bytes /\ Len(body) = Len(h) + Len(data)
      /\ \A i \in 1..Len(h) : body[i] = h[i]
  BY <1>3, Joined, Zenon
<1>6. SubSeq(body, Len(h) + 1, Len(h) + Len(data)) = data
  BY <1>3, Parts, Zenon
<1> HIDE DEF body
<1>7. Len(body) = 5 + n /\ 5 + n \in Nat /\ 5 + n >= 1 /\ SubSeq(body, 5 + 1, 5 + n) = data
      /\ body[1] = h[1] /\ body[2] = h[2] /\ body[3] = h[3] /\ body[4] = h[4] /\ body[5] = h[5]
  BY <1>4, <1>5, <1>6
<1>8. t \in Bytes
  BY <1>5, CrcType, LowHighWord DEF Bytes, crc16_to_bytes
<1>9. /\ f \in Bytes /\ Len(f) = Len(body) + 2 /\ \A i \in 1..Len(body) : f[i] = body[i]
      /\ verify_trailing_crc(f)
  BY <1>5, <1>7, Sealed
<1>10. SubSeq(f, 5 + 1, 5 + n) = data
  <2>1. 5 \in Nat /\ 5 + n <= Len(body)
    BY <1>7
  <2> HIDE DEF t
  <2>2. SubSeq(f, 5 + 1, 5 + n) = SubSeq(body, 5 + 1, 5 + n)
    BY <1>5, <1>8, <2>1, CutLeft
  <2> HIDE DEF f
  <2> QED BY <1>7, <2>2
<1>11. build_command_frame(op, p1, p2, data) = Ok(f)
  <2>1. MAX_COMMAND_DATA_LEN = 155 /\ COMMAND_FRAME_OVERHEAD = 7
    BY DEF MAX_COMMAND_DATA_LEN, MAX_PACKET_SIZE, COMMAND_FRAME_OVERHEAD
  <2>2. ~(n > 155)
    OBVIOUS
  <2> QED BY <2>1, <2>2, Zenon DEF build_command_frame, f, t, body, h, a, b
<1>12. build_command_frame(op, p1, p2, data).value = f
  <2> HIDE DEF f
  <2> QED BY <1>11 DEF Ok
<1> HIDE DEF t, f
<1>13. Len(f) = 7 + n /\ f[1] = 7 + n /\ f[2] = op /\ f[3] = p1 /\ FromLowHigh(f[4], f[5]) = p2
  <2>1. 1 \in 1..5 + n /\ 2 \in 1..5 + n /\ 3 \in 1..5 + n /\ 4 \in 1..5 + n /\ 5 \in 1..5 + n
    OBVIOUS
  <2> QED BY <1>2, <1>4, <1>7, <1>9, <2>1
<1>14. SubSeq(f, 6, Len(f) - 2) = data
  <2>1. 5 + 1 = 6 /\ Len(f) - 2 = 5 + n
    BY <1>13
  <2> QED BY <1>10, <2>1
<1>15. ChipAnswer(f, c) = Execute(op, p1, p2, data, c)
  BY <1>9, <1>13, <1>14, Zenon DEF ChipAnswer
<1> QED BY <1>12, <1>15

(* The chip's values are bytes. *)
LEMMA SampleType ==
  ASSUME NEW seed \in Int, NEW n \in Nat
  PROVE  Sample(seed, n) \in Bytes /\ Len(Sample(seed, n)) = n
<1>1. \A i \in 1..n : (37 * seed + 11 * i) % 256 \in Byte
  <2> TAKE i \in 1..n
  <2>1. 37 * seed + 11 * i \in Int
    OBVIOUS
  <2>2. \A z \in Int : z % 256 \in Nat /\ z % 256 <= 255
    OBVIOUS
  <2>3. (37 * seed + 11 * i) % 256 \in Nat /\ (37 * seed + 11 * i) % 256 <= 255
    BY <2>1, <2>2, Zenon
  <2> QED BY <2>3, ByteRange
<1>2. Sample(seed, n) \in [1..n -> Byte]
  BY <1>1, Zenon DEF Sample
<1>3. Sample(seed, n) \in Bytes
  BY <1>2, SeqDef, Zenon DEF Bytes
<1>4. DOMAIN Sample(seed, n) = 1..n
  BY <1>2
<1> QED BY <1>3, <1>4, DomainLen

(* A field of a buffer: its length and its bytes. *)
LEMMA FieldType ==
  ASSUME NEW s \in Bytes, NEW m \in Nat, NEW n \in Nat, m + n <= Len(s)
  PROVE  /\ Field(s, m, n) \in Bytes /\ Len(Field(s, m, n)) = n
         /\ \A i \in 1..n : Field(s, m, n)[i] = s[m + i]
BY Cut DEF Field

(* A block of a slot is 32 bytes. *)
LEMMA SlotBlockType ==
  ASSUME NEW c, ChipOk(c), NEW s \in Nat, NEW b \in Nat
  PROVE  SlotBlock(c, s, b) \in Bytes /\ Len(SlotBlock(c, s, b)) = 32
<1>1. 16 * s + b \in Int /\ 32 \in Nat
  OBVIOUS
<1>2. Sample(16 * s + b, 32) \in Bytes /\ Len(Sample(16 * s + b, 32)) = 32
  BY <1>1, SampleType, Zenon
<1> QED BY <1>2, Zenon DEF SlotBlock, ChipOk

(* A public key is 64 bytes. *)
LEMMA PublicKeyType ==
  ASSUME NEW c, ChipOk(c), NEW s \in Slots
  PROVE  PublicKey(c, s) \in Bytes /\ Len(PublicKey(c, s)) = 64
<1> DEFINE seed == 90 + s + 16 * c.keys[s]
<1>1. seed \in Int /\ 64 \in Nat
  <2>1. c.keys[s] \in 0..2 /\ s \in Nat
    BY DEF ChipOk, Slots, Byte
  <2> QED BY <2>1
<1>2. PublicKey(c, s) = Sample(seed, 64)
  BY DEF PublicKey
<1> HIDE DEF seed
<1> QED BY <1>1, <1>2, SampleType

Patch(n, zone, at, data) ==
  [i \in 1..n |-> IF i \in (at + 1)..(at + Len(data)) THEN data[i - at] ELSE zone[i]]

(* A buffer with a part overwritten is a buffer of the same length. *)
LEMMA Patched ==
  ASSUME NEW n \in Nat, NEW zone \in Bytes, Len(zone) = n,
         NEW at \in Nat, NEW data \in Bytes, at + Len(data) <= n
  PROVE  Patch(n, zone, at, data) \in Bytes /\ Len(Patch(n, zone, at, data)) = n
<1> DEFINE z == [i \in 1..n |-> IF i \in (at + 1)..(at + Len(data)) THEN data[i - at] ELSE zone[i]]
<1>2. Len(data) \in Nat
  BY DEF Bytes
<1>4. ASSUME NEW i \in 1..n
      PROVE  (IF i \in (at + 1)..(at + Len(data)) THEN data[i - at] ELSE zone[i]) \in Byte
  <2>1. zone[i] \in Byte
    BY DEF Bytes
  <2>2. CASE i \in (at + 1)..(at + Len(data))
    <3>1. i - at \in 1..Len(data)
      BY <1>2, <2>2
    <3>2. data[i - at] \in Byte
      BY <3>1 DEF Bytes
    <3> QED BY <2>2, <3>2
  <2> QED BY <2>1, <2>2
<1>5. z \in [1..n -> Byte]
  BY <1>4, Zenon
<1>6. DOMAIN z = 1..n
  OBVIOUS
<1> HIDE DEF z
<1>7. z \in Bytes
  BY <1>5, SeqDef, Zenon DEF Bytes
<1>8. Len(z) = n
  BY <1>6, <1>7, DomainLen
<1> QED BY <1>7, <1>8 DEF z, Patch

(* A zone with a part overwritten is a zone. *)
LEMMA OverwriteType ==
  ASSUME NEW zone \in Bytes, Len(zone) = 128, NEW at \in Nat, NEW data \in Bytes, at + Len(data) <= 128
  PROVE  /\ Overwrite(zone, at, data) \in Bytes /\ Len(Overwrite(zone, at, data)) = 128
<1>1. PICK n \in Nat : n = 128
  OBVIOUS
<1>2. Len(zone) = n /\ at + Len(data) <= n
  BY <1>1
<1>3. Patch(n, zone, at, data) \in Bytes /\ Len(Patch(n, zone, at, data)) = n
  BY <1>2, Patched
<1>4. Overwrite(zone, at, data) = Patch(n, zone, at, data)
  BY <1>1, Zenon DEF Overwrite, Patch
<1> QED BY <1>1, <1>3, <1>4

(* The same in one piece. *)
LEMMA OverwriteWhole ==
  ASSUME NEW zone, Whole(zone), NEW at \in Nat, NEW data \in Bytes, at + Len(data) <= 128
  PROVE  Whole(Overwrite(zone, at, data))
BY OverwriteType DEF Whole

(* What a method may ask of the chip. *)
IsCommand(x) ==
  \/ x = info_revision \/ x = lock_data_zone
  \/ \E b \in 1..4 : x = read_config_zone[b]
  \/ \E s \in Slots : x \in {genkey_public(s), genkey_create(s), lock_slot(s)}
  \/ \E s \in Slots, b \in Byte : x = read_slot_block(s, b)
  \/ \E s \in Slots, b \in Byte, o \in Byte : x = read_slot_word(s, b, o)
  \/ \E b \in 0..3, d \in Bytes : Len(d) = 32 /\ x = write_32("Config", config_or_otp_address(b, 0), d)
  \/ \E b \in 0..3, w \in 0..7, d \in Bytes :
       Len(d) = 4 /\ x = write_4("Config", config_or_otp_address(b, w), d)
  \/ \E s \in Slots, d \in Bytes : Len(d) = 32 /\ x = write_slot_block(s, 0, d)
  \/ \E i \in 0..1 : x = counter_read(i)
  \/ \E w \in Word : x = lock_config_zone(w)

(* The fields of a command fit its frame; the answer has the length asked *)
(* for or is a status; the memory stays well-formed.                      *)
Fits(x) ==
  /\ x.op \in Byte /\ x.p1 \in Byte /\ x.p2 \in Word
  /\ x.data \in Bytes /\ Len(x.data) <= 155
  /\ x.want \in {0, 4, 32, 64}

Serves(x, e) ==
  /\ ChipOk(e.chip) /\ e.reply \in Bytes
  /\ Len(e.reply) = 1 \/ (Len(e.reply) = x.want /\ x.want # 0)

(* A status is an answer to any command. *)
LEMMA StatusServes ==
  ASSUME NEW x, NEW s \in Byte, NEW c, ChipOk(c)
  PROVE  Serves(x, Says(<<s>>, c))
<1>1. <<s>> \in Bytes /\ Len(<<s>>) = 1
  BY DEF Bytes
<1> QED BY <1>1 DEF Serves, Says

(* Some bytes and buffers. *)
LEMMA SmallBytes ==
  /\ 0 \in Byte /\ 3 \in Byte /\ 15 \in Byte /\ <<>> \in Bytes /\ Len(<<>>) = 0 /\ 0 \in Word
BY ByteRange, WordRange DEF Bytes

(* Info is served with the revision. *)
LEMMA InfoServed ==
  ASSUME NEW c, ChipOk(c)
  PROVE  /\ Fits(info_revision) /\ Serves(info_revision, Does(info_revision, c))
         /\ Does(info_revision, c) = Says(Revision, c)
<1>1. Fits(info_revision)
  BY SmallBytes, ByteRange DEF Fits, info_revision, ChipCommand, OP
<1>2. Does(info_revision, c) = Says(Revision, c)
  BY DEF Does, Execute, info_revision, ChipCommand, OP
<1>3. Revision \in Bytes /\ Len(Revision) = 4
  <2>1. 0 \in Byte /\ 96 \in Byte /\ 3 \in Byte
    BY ByteRange
  <2> QED BY <2>1 DEF Revision, Bytes
<1> QED BY <1>1, <1>2, <1>3 DEF Serves, Says, info_revision, ChipCommand

(* The read of a configuration block is served with that block, and        *)
(* changes nothing.                                                        *)
LEMMA ConfigReadServed ==
  ASSUME NEW c, ChipOk(c), NEW b \in 1..4, NEW x, x = read_config_zone[b]
  PROVE  /\ Fits(x) /\ Serves(x, Does(x, c)) /\ x.want = 32
         /\ Does(x, c) = Says(Field(c.zone, 32 * (b - 1), 32), c)
<1>0. x = [op |-> 2, p1 |-> 128, p2 |-> 8 * ((b - 1) % 4) + (0 % 8), data |-> <<>>, want |-> 32]
  BY DEF read_config_zone, read_32, read_param1, ZoneBits, config_or_otp_address, ChipCommand,
         OP, BLOCK_SIZE
<1>1. x.op = 2 /\ x.p1 = 128 /\ x.p2 = 8 * (b - 1) /\ x.data = <<>> /\ x.want = 32
  BY <1>0
<1>2. Fits(x)
  <2>1. 8 * (b - 1) \in Nat /\ 8 * (b - 1) <= 65535
    OBVIOUS
  <2>2. 2 \in Byte /\ 128 \in Byte /\ 8 * (b - 1) \in Word
    BY <2>1, ByteRange, WordRange
  <2> QED BY <1>1, <2>2, SmallBytes DEF Fits
<1>3. Does(x, c) = Says(Field(c.zone, 32 * (b - 1), 32), c)
  <2>1. Bits(8 * (b - 1), 3, 2) = b - 1
    BY DEF Bits
  <2>2. Execute(2, 128, 8 * (b - 1), <<>>, c) = Says(Field(c.zone, 32 * (b - 1) + 0, 32), c)
    BY <2>1 DEF Execute, OP
  <2>3. 32 * (b - 1) + 0 = 32 * (b - 1)
    OBVIOUS
  <2> QED BY <1>1, <2>2, <2>3 DEF Does
<1>4. Field(c.zone, 32 * (b - 1), 32) \in Bytes /\ Len(Field(c.zone, 32 * (b - 1), 32)) = 32
  <2>1. 32 * (b - 1) \in Nat /\ 32 \in Nat /\ 32 * (b - 1) + 32 <= Len(c.zone) /\ c.zone \in Bytes
    BY DEF ChipOk
  <2> QED BY <2>1, FieldType, ZenonT(60)
<1> QED BY <1>1, <1>2, <1>3, <1>4 DEF Serves, Says

(* A slot by its bounds. *)
LEMMA SlotRange == \A s : s \in Slots <=> s \in Nat /\ s <= 15
BY DEF Slots

(* data_address, taken apart by the chip: slot, block and word are the     *)
(* ones it was made from.                                                  *)
LEMMA SlotAddress ==
  ASSUME NEW s \in Nat, s <= 15, NEW b \in Nat, b <= 255, NEW o \in Nat, o <= 255
  PROVE  /\ data_address(s, b, o) \in Nat /\ data_address(s, b, o) <= 65535
         /\ Bits(data_address(s, b, o), 3, 4) = s
         /\ data_address(s, b, o) \div 256 = b
         /\ Bits(data_address(s, b, o), 0, 3) = o % 8
<1> DEFINE r == o % 8
<1>0. r \in Nat /\ r <= 7
  OBVIOUS
<1> HIDE DEF r
<1>1. data_address(s, b, o) = 256 * b + 8 * s + r
  <2>1. s % 32 = s
    OBVIOUS
  <2> QED BY <2>1 DEF data_address, r
<1> DEFINE p == 256 * b + 8 * s + r
<1>2. p \in Nat /\ p <= 65535 /\ p \div 256 = b
  BY <1>0
<1>3. p \div 8 = 32 * b + s
  BY <1>0
<1>4. (32 * b + s) % 16 = s
  OBVIOUS
<1>5. p % 8 = r /\ p \div 1 = p
  BY <1>0
<1>6. 2^3 = 8 /\ 2^4 = 16 /\ 2^0 = 1
  OBVIOUS
<1> HIDE DEF p
<1>7. Bits(p, 3, 4) = s /\ Bits(p, 0, 3) = r
  BY <1>3, <1>4, <1>5, <1>6 DEF Bits
<1>8. data_address(s, b, o) = p
  BY <1>1 DEF p
<1> QED BY <1>2, <1>7, <1>8 DEF r

(* The read of a slot's block is served with that block, unless the slot   *)
(* is secret.                                                              *)
LEMMA SlotBlockServed ==
  ASSUME NEW c, ChipOk(c), NEW s \in Slots, NEW b \in Byte, NEW x, x = read_slot_block(s, b)
  PROVE  /\ Fits(x) /\ Serves(x, Does(x, c))
         /\ Does(x, c) = IF Secret(c, s) THEN Says(<<15>>, c) ELSE Says(SlotBlock(c, s, b), c)
<1> DEFINE p == data_address(s, b, 0)
<1>0. s \in Nat /\ s <= 15 /\ b \in Nat /\ b <= 255
  BY SlotRange, ByteRange
<1>1. p \in Nat /\ p <= 65535 /\ Bits(p, 3, 4) = s /\ p \div 256 = b
  <2>1. 0 \in Nat /\ 0 <= 255
    OBVIOUS
  <2> QED BY <1>0, <2>1, SlotAddress
<1>2. x.op = 2 /\ x.p1 = 130 /\ x.p2 = p /\ x.data = <<>> /\ x.want = 32
  BY DEF read_slot_block, read_32, read_param1, ZoneBits, ChipCommand, OP, BLOCK_SIZE
<1> HIDE DEF p
<1>3. Fits(x)
  <2>1. 2 \in Byte /\ 130 \in Byte /\ p \in Word
    BY <1>1, ByteRange, WordRange
  <2> QED BY <1>2, <2>1, SmallBytes DEF Fits
<1>4. CASE Secret(c, s)
  <2>1. Execute(2, 130, p, <<>>, c) = Says(<<15>>, c)
    BY <1>1, <1>4 DEF Execute, OP
  <2> QED BY <1>2, <1>3, <1>4, <2>1, StatusServes, SmallBytes DEF Does
<1>5. CASE ~Secret(c, s)
  <2> DEFINE d == SlotBlock(c, s, b)
             at == 32 * Bits(p, 3, 2) + 0
  <2>0. at % 32 = 0
    BY <1>1 DEF Bits
  <2> HIDE DEF at
  <2>1. Execute(2, 130, p, <<>>, c) = Says(Field(d, at % 32, 32), c)
    BY <1>1, <1>5 DEF Execute, OP, at
  <2>2. d \in Bytes /\ Len(d) = 32
    BY <1>0, SlotBlockType
  <2> HIDE DEF d
  <2>3. Field(d, 0, 32) = d
    <3>1. SubSeq(d, 1, Len(d)) = d
      BY <2>2, CutAll
    <3> QED BY <2>2, <3>1 DEF Field
  <2>4. Does(x, c) = Says(d, c)
    BY <1>2, <2>0, <2>1, <2>3 DEF Does
  <2> QED BY <1>2, <1>3, <1>5, <2>2, <2>4 DEF Serves, Says, d
<1> QED BY <1>4, <1>5

(* The read of a slot's word is served with that word, unless the slot is  *)
(* secret; of the offset only the low three bits count.                    *)
LEMMA SlotWordServed ==
  ASSUME NEW c, ChipOk(c), NEW s \in Slots, NEW b \in Byte, NEW o \in Byte,
         NEW x, x = read_slot_word(s, b, o)
  PROVE  /\ Fits(x) /\ Serves(x, Does(x, c))
         /\ Does(x, c) = IF Secret(c, s) THEN Says(<<15>>, c)
                         ELSE Says(Field(SlotBlock(c, s, b), 4 * (o % 8), 4), c)
<1> DEFINE p == data_address(s, b, o)
<1>0. s \in Nat /\ s <= 15 /\ b \in Nat /\ b <= 255 /\ o \in Nat /\ o <= 255
  BY SlotRange, ByteRange
<1>1. p \in Nat /\ p <= 65535 /\ Bits(p, 3, 4) = s /\ p \div 256 = b /\ Bits(p, 0, 3) = o % 8
  BY <1>0, SlotAddress
<1>2. x.op = 2 /\ x.p1 = 2 /\ x.p2 = p /\ x.data = <<>> /\ x.want = 4
  BY DEF read_slot_word, read_4, read_param1, ZoneBits, ChipCommand, OP, WORD_SIZE
<1> HIDE DEF p
<1>3. Fits(x)
  <2>1. 2 \in Byte /\ p \in Word
    BY <1>1, ByteRange, WordRange
  <2> QED BY <1>2, <2>1, SmallBytes DEF Fits
<1>4. CASE Secret(c, s)
  <2>1. Execute(2, 2, p, <<>>, c) = Says(<<15>>, c)
    BY <1>1, <1>4 DEF Execute, OP
  <2> QED BY <1>2, <1>3, <1>4, <2>1, StatusServes, SmallBytes DEF Does
<1>5. CASE ~Secret(c, s)
  <2> DEFINE d == SlotBlock(c, s, b)
             at == 32 * Bits(p, 3, 2) + 4 * Bits(p, 0, 3)
             r == at % 32
  <2>0. r = 4 * (o % 8)
    <3> DEFINE u == Bits(p, 3, 2)
               v == o % 8
    <3>1. u \in Nat
      BY <1>1 DEF Bits
    <3>2. v \in Nat /\ v <= 7
      BY <1>0
    <3> HIDE DEF u, v
    <3>3. (32 * u + 4 * v) % 32 = 4 * v
      BY <3>1, <3>2
    <3> QED BY <1>1, <3>3 DEF u, v
  <2>00. r \in Nat /\ r + 4 <= 32
    <3>1. o % 8 \in Nat /\ o % 8 <= 7
      BY <1>0
    <3> HIDE DEF r
    <3> QED BY <2>0, <3>1
  <2> HIDE DEF at
  <2>1. Execute(2, 2, p, <<>>, c) = Says(Field(d, r, 4), c)
    BY <1>1, <1>5 DEF Execute, OP, at
  <2>2. d \in Bytes /\ Len(d) = 32
    BY <1>0, SlotBlockType
  <2> HIDE DEF d, r
  <2>3. Field(d, r, 4) \in Bytes /\ Len(Field(d, r, 4)) = 4
    <3>1. 4 \in Nat /\ r + 4 <= Len(d)
      BY <2>00, <2>2
    <3> QED BY <2>00, <2>2, <3>1, FieldType
  <2>4. Does(x, c) = Says(Field(d, r, 4), c)
    BY <1>2, <2>1 DEF Does
  <2>5. Serves(x, Does(x, c))
    BY <1>2, <2>3, <2>4 DEF Serves, Says
  <2> QED BY <1>3, <1>5, <2>0, <2>4, <2>5 DEF d
<1> QED BY <1>4, <1>5

(* A chip with a new key pair in a slot is well-formed. *)
LEMMA RenewedOk ==
  ASSUME NEW c, ChipOk(c), NEW s \in Slots
  PROVE  ChipOk(Renewed(c, s)) /\ Renewed(c, s).zone = c.zone
<1> DEFINE keys == [c.keys EXCEPT ![s] = IF @ = 1 THEN 2 ELSE 1]
           next == [c EXCEPT !.keys = keys]
<1>1. keys \in [Slots -> 0..2]
  BY DEF ChipOk
<1> HIDE DEF keys
<1>2. next = [zone |-> c.zone, data |-> c.data, keys |-> keys]
  BY DEF ChipOk
<1>3. Renewed(c, s) = next
  BY DEF Renewed, keys
<1> HIDE DEF next
<1>4. next.zone = c.zone /\ next.data = c.data /\ next.keys = keys
  BY <1>2
<1> QED BY <1>1, <1>2, <1>3, <1>4 DEF ChipOk

(* GenKey, of the public key or of a new pair, is served with the public   *)
(* key of the pair the slot then has, or refused by the slot's policy.     *)
LEMMA KeysServed ==
  ASSUME NEW c, ChipOk(c), NEW s \in Slots, NEW x, x \in {genkey_public(s), genkey_create(s)}
  PROVE  /\ Fits(x) /\ Serves(x, Does(x, c))
         /\ x = genkey_public(s) =>
              Does(x, c) = IF Published(c, s) THEN Says(PublicKey(c, s), c) ELSE Says(<<15>>, c)
         /\ x = genkey_create(s) =>
              Does(x, c) = IF Renewable(c, s) THEN Says(PublicKey(Renewed(c, s), s), Renewed(c, s))
                           ELSE Says(<<15>>, c)
<1> DEFINE e == Renewed(c, s)
<1>0. s \in Nat /\ s <= 15 /\ s \in Word
  BY SlotRange, WordRange
<1>1. x.op = 64 /\ x.p1 \in {0, 4} /\ x.p2 = s /\ x.data = <<>> /\ x.want = 64
  BY DEF genkey_public, genkey_create, ChipCommand, OP
<1>10. (x = genkey_public(s) => x.p1 = 0) /\ (x = genkey_create(s) => x.p1 = 4) /\ 0 # 4
  BY DEF genkey_public, genkey_create, ChipCommand
<1>2. Fits(x)
  <2>1. 64 \in Byte /\ 0 \in Byte /\ 4 \in Byte
    BY ByteRange
  <2> QED BY <1>0, <1>1, <2>1, SmallBytes DEF Fits
<1>3. ASSUME NEW v \in Bytes, Len(v) = 64, NEW d, ChipOk(d), Does(x, c) = Says(v, d)
      PROVE  Serves(x, Does(x, c))
  BY <1>1, <1>3 DEF Serves, Says
<1>4. Does(x, c) = Says(<<15>>, c) => Serves(x, Does(x, c))
  BY StatusServes, SmallBytes
<1>5. ChipOk(e)
  BY RenewedOk
<1>6. /\ PublicKey(c, s) \in Bytes /\ Len(PublicKey(c, s)) = 64
      /\ PublicKey(e, s) \in Bytes /\ Len(PublicKey(e, s)) = 64
  BY <1>5, PublicKeyType
<1>7. x.p1 = 0 =>
        Does(x, c) = IF Published(c, s) THEN Says(PublicKey(c, s), c) ELSE Says(<<15>>, c)
  <2>1. Execute(64, 0, s, <<>>, c) =
          IF Published(c, s) THEN Says(PublicKey(c, s), c) ELSE Says(<<15>>, c)
    BY DEF Execute, OP
  <2> QED BY <1>1, <2>1 DEF Does
<1>8. x.p1 = 4 =>
        Does(x, c) = IF Renewable(c, s) THEN Says(PublicKey(e, s), e) ELSE Says(<<15>>, c)
  <2>1. Execute(64, 4, s, <<>>, c) =
          IF Renewable(c, s) THEN Says(PublicKey(e, s), e) ELSE Says(<<15>>, c)
    BY DEF Execute, OP
  <2> HIDE DEF e
  <2> QED BY <1>1, <2>1 DEF Does
<1> HIDE DEF e
<1>9. Serves(x, Does(x, c))
  <2>1. CASE x.p1 = 0
    BY <1>3, <1>4, <1>6, <1>7, <2>1
  <2>2. CASE x.p1 = 4
    BY <1>3, <1>4, <1>5, <1>6, <1>8, <2>2
  <2> QED BY <1>1, <2>1, <2>2
<1> QED BY <1>2, <1>7, <1>8, <1>9, <1>10 DEF e

(* The read of a counter is served with its count. *)
LEMMA CounterServed ==
  ASSUME NEW c, ChipOk(c), NEW i \in 0..1, NEW x, x = counter_read(i)
  PROVE  /\ Fits(x) /\ Serves(x, Does(x, c))
         /\ Does(x, c) = Says(CountOf(i), c) /\ CountOf(i) \in Bytes /\ Len(CountOf(i)) = 4
<1>1. x.op = 36 /\ x.p1 = 0 /\ x.p2 = i /\ x.data = <<>> /\ x.want = 4
  BY DEF counter_read, ChipCommand, OP
<1>2. Fits(x)
  <2>1. 36 \in Byte /\ 0 \in Byte /\ i \in Word
    BY ByteRange, WordRange
  <2> QED BY <1>1, <2>1, SmallBytes DEF Fits
<1>3. Execute(36, 0, i, <<>>, c) = Says(CountOf(i), c)
  BY DEF Execute, OP
<1>4. CountOf(i) \in Bytes /\ Len(CountOf(i)) = 4
  <2>1. 5 + i \in Byte /\ 2 \in Byte /\ 1 \in Byte /\ 0 \in Byte
    BY ByteRange
  <2> QED BY <2>1 DEF CountOf, Bytes
<1> QED BY <1>1, <1>2, <1>3, <1>4 DEF Does, Serves, Says

(* A chip with another zone is well-formed. *)
LEMMA ZoneChanged ==
  ASSUME NEW c, ChipOk(c), NEW z \in Bytes, Len(z) = 128
  PROVE  ChipOk([c EXCEPT !.zone = z])
<1> DEFINE e == [c EXCEPT !.zone = z]
<1>1. e = [zone |-> z, data |-> c.data, keys |-> c.keys]
  BY DEF ChipOk
<1> HIDE DEF e
<1>2. e.zone = z /\ e.data = c.data /\ e.keys = c.keys
  BY <1>1
<1>3. ChipOk(e)
  BY <1>1, <1>2 DEF ChipOk
<1> QED BY <1>3 DEF e

(* A buffer with one byte replaced. *)
LEMMA OneChanged ==
  ASSUME NEW s \in Bytes, NEW n \in Nat, Len(s) = n, NEW i \in 1..n, NEW v \in Byte
  PROVE  [s EXCEPT ![i] = v] \in Bytes /\ Len([s EXCEPT ![i] = v]) = n
BY DEF Bytes

(* A lock byte cleared leaves the chip well-formed. *)
LEMMA ByteCleared ==
  ASSUME NEW c, ChipOk(c), NEW i \in {87, 88}
  PROVE  ChipOk([c EXCEPT !.zone[i] = 0])
<1> DEFINE z == [c.zone EXCEPT ![i] = 0]
<1>1. c.zone \in Bytes /\ Len(c.zone) = 128 /\ 0 \in Byte
  BY SmallBytes DEF ChipOk
<1>2. z \in Bytes /\ Len(z) = 128
  <2>1. PICK n \in Nat : n = 128
    OBVIOUS
  <2>2. Len(c.zone) = n /\ i \in 1..n
    BY <1>1, <2>1
  <2>3. z \in Bytes /\ Len(z) = n
    BY <1>1, <2>2, OneChanged
  <2> HIDE DEF z
  <2> QED BY <2>1, <2>3
<1>3. [c EXCEPT !.zone[i] = 0] = [c EXCEPT !.zone = z]
  BY DEF ChipOk
<1> HIDE DEF z
<1> QED BY <1>2, <1>3, ZoneChanged

(* What a write of data at byte at of the zone comes to. *)
Barred(at, n) == (at \div 4)..((at + n - 1) \div 4) \cap ReadOnlyWords # {}

Stored(c, at, data) ==
  IF ConfigLocked(c) \/ Barred(at, Len(data))
    THEN Says(<<3>>, c)
    ELSE Says(<<0>>, [c EXCEPT !.zone = Overwrite(@, at, data)])

(* A write of a configuration block or word stays inside the zone. *)
LEMMA ConfigWrite ==
  ASSUME NEW c, ChipOk(c), NEW x, x.op = 18, x.p1 \in {0, 128}, x.p2 \in Nat, x.p2 <= 31,
         x.p1 = 128 => x.p2 % 8 = 0,
         x.data \in Bytes, Len(x.data) = IF x.p1 = 128 THEN 32 ELSE 4, x.want = 0
  PROVE  /\ Fits(x) /\ Serves(x, Does(x, c))
         /\ Does(x, c) = Stored(c, 4 * x.p2, x.data)
<1> DEFINE p == x.p2
           at == 32 * Bits(p, 3, 2) + (IF x.p1 >= 128 THEN 0 ELSE 4 * Bits(p, 0, 3))
           z == Overwrite(c.zone, at, x.data)
<1>1. Fits(x)
  <2>1. 18 \in Byte /\ 0 \in Byte /\ 128 \in Byte /\ p \in Word
    BY ByteRange, WordRange
  <2>2. Len(x.data) <= 155
    OBVIOUS
  <2> QED BY <2>1, <2>2 DEF Fits
<1>2. at \in Nat /\ at + Len(x.data) <= 128 /\ at = 4 * p
  <2> DEFINE u == Bits(p, 3, 2)
             v == Bits(p, 0, 3)
  <2>1. u \in Nat /\ u <= 3 /\ v \in Nat /\ v <= 7
    BY DEF Bits
  <2> HIDE DEF u, v
  <2>10. u = p \div 8 /\ v = p % 8
    BY DEF Bits, u, v
  <2>2. CASE x.p1 = 128
    <3>1. at = 32 * u
      BY <2>1, <2>2 DEF u
    <3> QED BY <2>1, <2>10, <2>2, <3>1
  <2>3. CASE x.p1 = 0
    <3>1. at = 32 * u + 4 * v
      BY <2>3 DEF u, v
    <3> QED BY <2>1, <2>10, <2>3, <3>1
  <2> QED BY <2>2, <2>3
<1>3. c.zone \in Bytes /\ Len(c.zone) = 128
  BY DEF ChipOk
<1> HIDE DEF at
<1>4. z \in Bytes /\ Len(z) = 128
  BY <1>2, <1>3, OverwriteType
<1>5. Does(x, c) = Stored(c, at, x.data)
  BY DEF Does, Execute, OP, at, Stored, Barred
<1>6. Does(x, c) = Says(<<3>>, c) \/ Does(x, c) = Says(<<0>>, [c EXCEPT !.zone = z])
  BY <1>5 DEF Stored
<1> HIDE DEF z
<1>7. Serves(x, Does(x, c))
  BY <1>4, <1>6, ZoneChanged, StatusServes, SmallBytes
<1> QED BY <1>1, <1>2, <1>5, <1>7

(* The write of a whole configuration block is served. *)
LEMMA BlockWriteServed ==
  ASSUME NEW c, ChipOk(c), NEW b \in 0..3, NEW d \in Bytes, Len(d) = 32,
         NEW x, x = write_32("Config", config_or_otp_address(b, 0), d)
  PROVE  Fits(x) /\ Serves(x, Does(x, c)) /\ Does(x, c) = Stored(c, 32 * b, d)
<1>0. config_or_otp_address(b, 0) = 8 * b
  BY DEF config_or_otp_address
<1>1. x = [op |-> 18, p1 |-> 128, p2 |-> 8 * b, data |-> d, want |-> 0]
  BY <1>0 DEF write_32, write_param1, read_param1, ZoneBits, ChipCommand, OP
<1>2. x.op = 18 /\ x.p1 = 128 /\ x.p2 = 8 * b /\ x.data = d /\ x.want = 0
  BY <1>1
<1>3. 8 * b \in Nat /\ 8 * b <= 31 /\ (8 * b) % 8 = 0 /\ 4 * (8 * b) = 32 * b
  OBVIOUS
<1>4. Fits(x) /\ Serves(x, Does(x, c)) /\ Does(x, c) = Stored(c, 4 * x.p2, x.data)
  <2>1. x.p1 \in {0, 128} /\ x.p2 \in Nat /\ x.p2 <= 31 /\ (x.p1 = 128 => x.p2 % 8 = 0)
    BY <1>2, <1>3
  <2>2. x.data \in Bytes /\ Len(x.data) = IF x.p1 = 128 THEN 32 ELSE 4
    BY <1>2
  <2> QED BY <1>2, <2>1, <2>2, ConfigWrite, Zenon
<1> QED BY <1>2, <1>3, <1>4

(* The write of a configuration word is served. *)
LEMMA WordWriteServed ==
  ASSUME NEW c, ChipOk(c), NEW b \in 0..3, NEW w \in 0..7, NEW d \in Bytes, Len(d) = 4,
         NEW x, x = write_4("Config", config_or_otp_address(b, w), d)
  PROVE  Fits(x) /\ Serves(x, Does(x, c)) /\ Does(x, c) = Stored(c, 32 * b + 4 * w, d)
<1>0. config_or_otp_address(b, w) = 8 * b + w
  BY DEF config_or_otp_address
<1>1. x = [op |-> 18, p1 |-> 0, p2 |-> 8 * b + w, data |-> d, want |-> 0]
  BY <1>0 DEF write_4, write_param1, read_param1, ZoneBits, ChipCommand, OP
<1>2. x.op = 18 /\ x.p1 = 0 /\ x.p2 = 8 * b + w /\ x.data = d /\ x.want = 0
  BY <1>1
<1>3. 8 * b + w \in Nat /\ 8 * b + w <= 31 /\ 0 # 128
  OBVIOUS
<1>4. Len(x.data) = IF x.p1 = 128 THEN 32 ELSE 4
  BY <1>2, <1>3
<1>5. x.p1 = 128 => x.p2 % 8 = 0
  BY <1>2, <1>3
<1>6. Fits(x) /\ Serves(x, Does(x, c)) /\ Does(x, c) = Stored(c, 4 * (8 * b + w), d)
  BY <1>2, <1>3, <1>4, <1>5, ConfigWrite
<1>7. 4 * (8 * b + w) = 32 * b + 4 * w
  OBVIOUS
<1> QED BY <1>6, <1>7

(* The write of a slot is served. *)
LEMMA SlotWriteServed ==
  ASSUME NEW c, ChipOk(c), NEW s \in Slots, NEW d \in Bytes, Len(d) = 32,
         NEW x, x = write_slot_block(s, 0, d)
  PROVE  /\ Fits(x) /\ Serves(x, Does(x, c))
         /\ Does(x, c) = IF Writable(c, s) THEN Says(<<0>>, [c EXCEPT !.data = Put(@, s, d)])
                         ELSE Says(<<15>>, c)
<1> DEFINE p == data_address(s, 0, 0)
           data == Put(c.data, s, d)
           e == [c EXCEPT !.data = data]
<1>0. s \in Nat /\ s <= 15 /\ 0 \in Nat /\ 0 <= 255
  BY SlotRange
<1>1. p \in Nat /\ p <= 65535 /\ Bits(p, 3, 4) = s
  BY <1>0, SlotAddress
<1>2. x.op = 18 /\ x.p1 = 130 /\ x.p2 = p /\ x.data = d /\ x.want = 0
  BY DEF write_slot_block, write_32, write_param1, read_param1, ZoneBits, ChipCommand, OP
<1> HIDE DEF p
<1>3. Fits(x)
  <2>1. 18 \in Byte /\ 130 \in Byte /\ p \in Word
    BY <1>1, ByteRange, WordRange
  <2>2. d \in Bytes /\ Len(d) <= 155
    OBVIOUS
  <2> QED BY <1>2, <2>1, <2>2 DEF Fits
<1>4. Execute(18, 130, p, d, c) = IF Writable(c, s) THEN Says(<<0>>, e) ELSE Says(<<15>>, c)
  BY <1>1 DEF Execute, OP
<1>5. ChipOk(e)
  <2>1. /\ DOMAIN data = DOMAIN c.data \cup {s}
        /\ \A y \in DOMAIN data : data[y] = IF y = s THEN d ELSE c.data[y]
    BY DEF Put
  <2> HIDE DEF data
  <2>2. \A y \in DOMAIN data : data[y] \in Bytes /\ Len(data[y]) = 32
    BY <2>1 DEF ChipOk
  <2>3. e = [zone |-> c.zone, data |-> data, keys |-> c.keys]
    BY DEF ChipOk
  <2> HIDE DEF e
  <2>4. e.zone = c.zone /\ e.data = data /\ e.keys = c.keys
    BY <2>3
  <2> QED BY <2>2, <2>3, <2>4 DEF ChipOk
<1> HIDE DEF e
<1>6. CASE ~Writable(c, s)
  <2>1. Does(x, c) = Says(<<15>>, c)
    BY <1>2, <1>4, <1>6 DEF Does
  <2> QED BY <1>3, <1>6, <2>1, StatusServes, SmallBytes
<1>7. CASE Writable(c, s)
  <2>1. Does(x, c) = Says(<<0>>, e)
    BY <1>2, <1>4, <1>7 DEF Does
  <2>2. Serves(x, Does(x, c))
    BY <1>5, <2>1, StatusServes, SmallBytes
  <2> QED BY <1>3, <1>7, <2>1, <2>2 DEF e
<1> QED BY <1>6, <1>7

(* The lock of the configuration zone is served. *)
LEMMA LockConfigServed ==
  ASSUME NEW c, ChipOk(c), NEW w \in Word, NEW x, x = lock_config_zone(w)
  PROVE  /\ Fits(x) /\ Serves(x, Does(x, c))
         /\ Does(x, c) = IF ConfigLocked(c) \/ w # crc16(c.zone) THEN Says(<<15>>, c)
                         ELSE Says(<<0>>, [c EXCEPT !.zone[88] = 0])
<1>1. x.op = 23 /\ x.p1 = 0 /\ x.p2 = w /\ x.data = <<>> /\ x.want = 0
  BY DEF lock_config_zone, ChipCommand, OP
<1>2. Fits(x)
  <2>1. 23 \in Byte
    BY ByteRange
  <2> QED BY <1>1, <2>1, SmallBytes DEF Fits
<1> DEFINE e == [c EXCEPT !.zone[88] = 0]
<1>3. Does(x, c) = IF ConfigLocked(c) \/ w # crc16(c.zone) THEN Says(<<15>>, c)
                   ELSE Says(<<0>>, e)
  BY <1>1 DEF Does, Execute, OP
<1>4. ChipOk(e)
  BY ByteCleared
<1> HIDE DEF e
<1>5. Serves(x, Does(x, c))
  BY <1>3, <1>4, StatusServes, SmallBytes
<1> QED BY <1>2, <1>3, <1>5 DEF e

(* The lock of the data zone is served. *)
LEMMA LockDataServed ==
  ASSUME NEW c, ChipOk(c), NEW x, x = lock_data_zone
  PROVE  /\ Fits(x) /\ Serves(x, Does(x, c))
         /\ Does(x, c) = IF DataLocked(c) \/ ~ConfigLocked(c) THEN Says(<<15>>, c)
                         ELSE Says(<<0>>, [c EXCEPT !.zone[87] = 0])
<1>1. x.op = 23 /\ x.p1 = 129 /\ x.p2 = 0 /\ x.data = <<>> /\ x.want = 0
  BY DEF lock_data_zone, ChipCommand, OP
<1>2. Fits(x)
  <2>1. 23 \in Byte /\ 129 \in Byte
    BY ByteRange
  <2> QED BY <1>1, <2>1, SmallBytes DEF Fits
<1> DEFINE e == [c EXCEPT !.zone[87] = 0]
<1>3. Does(x, c) = IF DataLocked(c) \/ ~ConfigLocked(c) THEN Says(<<15>>, c)
                   ELSE Says(<<0>>, e)
  BY <1>1 DEF Does, Execute, OP
<1>4. ChipOk(e)
  BY ByteCleared
<1> HIDE DEF e
<1>5. Serves(x, Does(x, c))
  BY <1>3, <1>4, StatusServes, SmallBytes
<1> QED BY <1>2, <1>3, <1>5 DEF e

(* Clearing a bit that is set leaves a u16. *)
LEMMA BitCleared ==
  ASSUME NEW w \in Word, NEW k \in 0..15, Bits(w, k, 1) # 0
  PROVE  w - 2^k \in Word
<1>0. w \in Nat /\ w <= 65535
  BY WordRange
<1>1. \A z \in Int : (z \in Nat /\ z <= 65535) => z \in Word
  BY WordRange
<1> DEFINE P(j) == Bits(w, j, 1) # 0 => w - 2^j \in Nat /\ w - 2^j <= 65535
<1>2. P(0) /\ P(1) /\ P(2) /\ P(3) /\ P(4) /\ P(5) /\ P(6) /\ P(7)
  BY <1>0 DEF Bits
<1>3. P(8) /\ P(9) /\ P(10) /\ P(11) /\ P(12) /\ P(13) /\ P(14) /\ P(15)
  BY <1>0 DEF Bits
<1>4. P(k)
  <2> HIDE DEF P
  <2>1. k \in {0, 1, 2, 3, 4, 5, 6, 7, 8, 9, 10, 11, 12, 13, 14, 15}
    OBVIOUS
  <2> QED BY <1>2, <1>3, <2>1
<1> QED BY <1>1, <1>4

(* The chip with a slot locked. *)
SlotClosed(c, s) ==
  [c EXCEPT !.zone = Overwrite(@, 88, LowHigh(ZoneWord(@, 88) - 2^s))]

(* The lock of a slot is served, and clears one bit of SlotLocked. *)
LEMMA LockSlotServed ==
  ASSUME NEW c, ChipOk(c), NEW s \in Slots, NEW x, x = lock_slot(s)
  PROVE  /\ Fits(x) /\ Serves(x, Does(x, c))
         /\ Does(x, c) = IF ~Lockable(c, s) THEN Says(<<15>>, c)
                         ELSE Says(<<0>>, SlotClosed(c, s))
<1>0. s \in Nat /\ s <= 15
  BY SlotRange
<1> DEFINE p == 130 + 4 * s
           w == ZoneWord(c.zone, 88)
           z == Overwrite(c.zone, 88, LowHigh(w - 2^s))
           e == [c EXCEPT !.zone = z]
<1>1. x.op = 23 /\ x.p1 = p /\ x.p2 = 0 /\ x.data = <<>> /\ x.want = 0
  <2>1. s % 16 = s
    BY <1>0
  <2> QED BY <2>1 DEF lock_slot, ChipCommand, OP
<1>2. Fits(x)
  <2>1. 23 \in Byte /\ p \in Byte
    BY <1>0, ByteRange
  <2> QED BY <1>1, <2>1, SmallBytes DEF Fits
<1>3. p % 4 = 2 /\ p # 0 /\ p # 129 /\ Bits(p, 2, 4) = s
  BY <1>0 DEF Bits
<1> HIDE DEF p
<1>4. Execute(23, p, 0, <<>>, c) =
        IF ~Lockable(c, s) THEN Says(<<15>>, c) ELSE Says(<<0>>, e)
  <2> DEFINE mine == Bits(p, 2, 4)
  <2>1. Execute(23, p, 0, <<>>, c) =
          IF ~Lockable(c, mine)
            THEN Says(<<15>>, c)
            ELSE Says(<<0>>, [c EXCEPT !.zone =
                   Overwrite(@, 88, LowHigh(ZoneWord(@, 88) - 2^mine))])
    BY <1>3 DEF Execute, OP
  <2> QED BY <1>3, <2>1
<1>5. CASE ~Lockable(c, s)
  <2>1. Does(x, c) = Says(<<15>>, c)
    BY <1>1, <1>4, <1>5 DEF Does
  <2> QED BY <1>2, <1>5, <2>1, StatusServes, SmallBytes
<1>6. CASE Lockable(c, s)
  <2>1. Does(x, c) = Says(<<0>>, e)
    BY <1>1, <1>4, <1>6 DEF Does
  <2>2. c.zone \in Bytes /\ Len(c.zone) = 128
    BY DEF ChipOk
  <2>3. w \in Word
    <3>1. PICK n \in Nat : n = 128
      OBVIOUS
    <3>2. 88 + 1 \in 1..n /\ 88 + 2 \in 1..n /\ Len(c.zone) = n
      BY <2>2, <3>1
    <3>3. c.zone[88 + 1] \in Byte /\ c.zone[88 + 2] \in Byte
      BY <2>2, <3>2, ElementOfSeq DEF Bytes
    <3> QED BY <3>3, FromBytes DEF ZoneWord
  <2>4. Bits(w, s, 1) # 0
    BY <1>6 DEF Lockable, SlotLocked
  <2> HIDE DEF w
  <2>5. w - 2^s \in Word
    <3>1. s \in 0..15
      BY DEF Slots
    <3> QED BY <2>3, <2>4, <3>1, BitCleared, Zenon
  <2> DEFINE v == w - 2^s
             d == LowHigh(v)
  <2>6. v \in Word
    BY <2>5
  <2> HIDE DEF v
  <2>7. d \in Bytes /\ Len(d) = 2
    BY <2>6, LowHighWord
  <2> HIDE DEF d
  <2>8. 88 \in Nat /\ 88 + Len(d) <= 128
    BY <2>7
  <2>9. Overwrite(c.zone, 88, d) \in Bytes /\ Len(Overwrite(c.zone, 88, d)) = 128
    <3>1. Whole(c.zone)
      BY <2>2 DEF Whole
    <3>2. Whole(Overwrite(c.zone, 88, d))
      BY <2>7, <2>8, <3>1, OverwriteWhole
    <3> QED BY <3>2 DEF Whole
  <2>10. z \in Bytes /\ Len(z) = 128
    BY <2>9 DEF d, v
  <2> HIDE DEF z
  <2>11. ChipOk(e)
    BY <2>10, ZoneChanged
  <2>12. e = SlotClosed(c, s)
    BY DEF SlotClosed, z, w
  <2> HIDE DEF e
  <2>13. Serves(x, Does(x, c))
    BY <2>1, <2>11, StatusServes, SmallBytes
  <2> QED BY <1>2, <1>6, <2>1, <2>12, <2>13
<1> QED BY <1>5, <1>6

(* Every command of the driver fits its frame, is answered with the length *)
(* it expects or a status, and leaves the chip well-formed.                *)
LEMMA CommandServed ==
  ASSUME NEW c, ChipOk(c), NEW x, IsCommand(x)
  PROVE  Fits(x) /\ Serves(x, Does(x, c))
<1>1. CASE x = info_revision
  BY <1>1, InfoServed
<1>2. CASE x = lock_data_zone
  BY <1>2, LockDataServed
<1>3. ASSUME NEW b \in 1..4, x = read_config_zone[b] PROVE Fits(x) /\ Serves(x, Does(x, c))
  BY <1>3, ConfigReadServed
<1>4. ASSUME NEW s \in Slots, x \in {genkey_public(s), genkey_create(s), lock_slot(s)}
      PROVE  Fits(x) /\ Serves(x, Does(x, c))
  <2>1. CASE x = lock_slot(s)
    BY <2>1, LockSlotServed
  <2>2. CASE x \in {genkey_public(s), genkey_create(s)}
    BY <2>2, KeysServed
  <2> QED BY <1>4, <2>1, <2>2, Zenon
<1>5. ASSUME NEW s \in Slots, NEW b \in Byte, x = read_slot_block(s, b)
      PROVE  Fits(x) /\ Serves(x, Does(x, c))
  BY <1>5, SlotBlockServed
<1>6. ASSUME NEW s \in Slots, NEW b \in Byte, NEW o \in Byte, x = read_slot_word(s, b, o)
      PROVE  Fits(x) /\ Serves(x, Does(x, c))
  BY <1>6, SlotWordServed
<1>7. ASSUME NEW b \in 0..3, NEW d \in Bytes, Len(d) = 32,
             x = write_32("Config", config_or_otp_address(b, 0), d)
      PROVE  Fits(x) /\ Serves(x, Does(x, c))
  BY <1>7, BlockWriteServed
<1>8. ASSUME NEW b \in 0..3, NEW w \in 0..7, NEW d \in Bytes, Len(d) = 4,
             x = write_4("Config", config_or_otp_address(b, w), d)
      PROVE  Fits(x) /\ Serves(x, Does(x, c))
  BY <1>8, WordWriteServed
<1>9. ASSUME NEW s \in Slots, NEW d \in Bytes, Len(d) = 32, x = write_slot_block(s, 0, d)
      PROVE  Fits(x) /\ Serves(x, Does(x, c))
  BY <1>9, SlotWriteServed
<1>10. ASSUME NEW i \in 0..1, x = counter_read(i) PROVE Fits(x) /\ Serves(x, Does(x, c))
  BY <1>10, CounterServed
<1>11. ASSUME NEW w \in Word, x = lock_config_zone(w) PROVE Fits(x) /\ Serves(x, Does(x, c))
  BY <1>11, LockConfigServed
<1> QED BY <1>1, <1>2, <1>3, <1>4, <1>5, <1>6, <1>7, <1>8, <1>9, <1>10, <1>11, Zenon DEF IsCommand

(***************************************************************************)
(* The chip commands of every method.                                      *)
(***************************************************************************)
(* A table over 1..n is a sequence of length n.                            *)
LEMMA TableLen ==
  ASSUME NEW S, NEW n \in Nat, NEW f \in [1..n -> S]
  PROVE  f \in Seq(S) /\ Len(f) = n
<1>1. f \in Seq(S)
  BY SeqDef, Zenon
<1>2. Len(f) \in Nat /\ DOMAIN f = 1..Len(f)
  BY <1>1, LenProperties
<1>3. DOMAIN f = 1..n
  OBVIOUS
<1> QED BY <1>1, <1>2, <1>3

Records == [op : Byte, p1 : Byte, p2 : Word, data : Bytes, want : {0, 4, 32, 64}]

Commanded == Seq(Records)

(* Two lists of chip commands one after the other. *)
LEMMA JoinedRecords ==
  ASSUME NEW s \in Commanded, NEW t \in Commanded
  PROVE  /\ s \o t \in Commanded /\ Len(s \o t) = Len(s) + Len(t)
         /\ Len(s) \in Nat /\ Len(t) \in Nat
         /\ \A i \in 1..Len(s) : (s \o t)[i] = s[i]
         /\ \A i \in 1..Len(t) : (s \o t)[Len(s) + i] = t[i]
<1>1. /\ s \o t \in Commanded /\ Len(s \o t) = Len(s) + Len(t)
      /\ \A i \in 1..Len(s) + Len(t) :
           (s \o t)[i] = IF i <= Len(s) THEN s[i] ELSE t[i - Len(s)]
  BY ConcatProperties DEF Commanded
<1>2. Len(s) \in Nat /\ Len(t) \in Nat
  BY DEF Commanded
<1> DEFINE w == s \o t
<1>3. \A i \in 1..Len(s) + Len(t) : w[i] = IF i <= Len(s) THEN s[i] ELSE t[i - Len(s)]
  BY <1>1
<1> HIDE DEF w
<1>4. \A i \in 1..Len(s) : w[i] = s[i]
  BY <1>2, <1>3
<1>5. \A i \in 1..Len(t) : w[Len(s) + i] = t[i]
  BY <1>2, <1>3
<1> QED BY <1>1, <1>2, <1>4, <1>5 DEF w

(* read_config_zone is four reads of 32 bytes. *)
LEMMA ConfigReads ==
  /\ read_config_zone \in Commanded /\ Len(read_config_zone) = 4
  /\ \A b \in 1..4 : IsCommand(read_config_zone[b]) /\ read_config_zone[b].want = 32
<1>1. ASSUME NEW b \in 1..4
      PROVE  read_config_zone[b] \in Records /\ read_config_zone[b].want = 32
  <2> DEFINE p == 8 * ((b - 1) % 4) + (0 % 8)
  <2>1. p \in Nat /\ p <= 65535
    OBVIOUS
  <2>2. p \in Word /\ 2 \in Byte /\ 128 \in Byte
    BY <2>1, ByteRange, WordRange
  <2>3. read_config_zone[b] = [op |-> 2, p1 |-> 128, p2 |-> p, data |-> <<>>, want |-> 32]
    BY DEF read_config_zone, read_32, read_param1, ZoneBits, config_or_otp_address, ChipCommand,
         OP, BLOCK_SIZE
  <2> HIDE DEF p
  <2> QED BY <2>2, <2>3, SmallBytes DEF Records
<1>2. \A b \in 1..4 : IsCommand(read_config_zone[b])
  BY Zenon DEF IsCommand
<1> DEFINE f == read_config_zone
<1>3. PICK n \in Nat : n = 4
  OBVIOUS
<1>4. f = [b \in 1..n |-> f[b]]
  BY <1>3 DEF read_config_zone
<1>5. \A b \in 1..n : f[b] \in Records
  BY <1>1, <1>3
<1> HIDE DEF f
<1>6. f \in [1..n -> Records]
  BY <1>4, <1>5
<1>7. f \in Seq(Records) /\ Len(f) = n
  BY <1>6, TableLen
<1> QED BY <1>1, <1>2, <1>3, <1>7 DEF f, Commanded

(* info_revision is a chip command. *)
LEMMA InfoRecord == info_revision \in Records /\ info_revision.want = 4
<1>1. 48 \in Byte
  BY ByteRange
<1> QED BY <1>1, SmallBytes DEF info_revision, ChipCommand, OP, Records

(* info reads the revision, the zone for the serial unless it is cached,   *)
(* and the zone for the lock bytes.                                        *)
LEMMA InfoCommands ==
  ASSUME NEW k, k.cmd = "Info", NEW s
  PROVE  LET f == ChipCommands(k, s)
         IN  /\ Len(f) = (IF s = <<>> THEN 9 ELSE 5) /\ f[1] = info_revision
             /\ \A b \in 1..4 : f[1 + b] = read_config_zone[b]
             /\ s = <<>> => \A b \in 1..4 : f[5 + b] = read_config_zone[b]
<1> DEFINE z == read_config_zone
           a == <<info_revision>>
           m == IF s = <<>> THEN z ELSE <<>>
           h == a \o m
           f == h \o z
<1>1. z \in Commanded /\ Len(z) = 4
  BY ConfigReads
<1>2. a \in Commanded /\ Len(a) = 1 /\ a[1] = info_revision
  BY InfoRecord DEF Commanded
<1> HIDE DEF a, z
<1>3. m \in Commanded /\ (s = <<>> => Len(m) = 4 /\ m = z) /\ (s # <<>> => Len(m) = 0)
  <2>1. <<>> \in Commanded /\ Len(<<>>) = 0
    BY DEF Commanded
  <2> QED BY <1>1, <2>1
<1> HIDE DEF m
<1>4. /\ h \in Commanded /\ Len(h) = Len(a) + Len(m)
      /\ \A i \in 1..Len(a) : h[i] = a[i]
      /\ \A i \in 1..Len(m) : h[Len(a) + i] = m[i]
  BY <1>2, <1>3, JoinedRecords, Zenon
<1> HIDE DEF h
<1>5. /\ f \in Commanded /\ Len(f) = Len(h) + Len(z)
      /\ \A i \in 1..Len(h) : f[i] = h[i]
      /\ \A i \in 1..Len(z) : f[Len(h) + i] = z[i]
  BY <1>1, <1>4, JoinedRecords, Zenon
<1>6. ChipCommands(k, s) = f
  BY DEF ChipCommands, f, h, a, m, z
<1> HIDE DEF f
<1>7. CASE s = <<>>
  <2>1. Len(h) = 5 /\ Len(f) = 9
    <3>1. Len(m) = 4
      BY <1>3, <1>7
    <3> QED BY <1>1, <1>2, <1>4, <1>5, <3>1
  <2>2. f[1] = info_revision
    <3>1. 1 \in 1..1 /\ 1 \in 1..5
      OBVIOUS
    <3> QED BY <1>2, <1>4, <1>5, <2>1, <3>1
  <2>3. \A b \in 1..4 : f[1 + b] = z[b] /\ f[5 + b] = z[b]
    <3> TAKE b \in 1..4
    <3>1. 1 + b \in 1..5
      OBVIOUS
    <3>2. h[1 + b] = z[b]
      BY <1>2, <1>3, <1>4, <1>7
    <3> QED BY <1>1, <1>5, <2>1, <3>1, <3>2
  <2> QED BY <1>6, <1>7, <2>1, <2>2, <2>3 DEF z
<1>8. CASE s # <<>>
  <2>1. Len(h) = 1 /\ Len(f) = 5
    BY <1>1, <1>2, <1>3, <1>4, <1>5, <1>8
  <2>2. f[1] = info_revision
    <3>1. 1 \in 1..1
      OBVIOUS
    <3> QED BY <1>2, <1>4, <1>5, <2>1, <3>1
  <2>3. \A b \in 1..4 : f[1 + b] = z[b]
    BY <1>1, <1>5, <2>1
  <2> QED BY <1>6, <1>8, <2>1, <2>2, <2>3 DEF z
<1> QED BY <1>7, <1>8

(* The length of a sequence given by its elements. *)
LEMMA FunctionLen ==
  ASSUME NEW n \in Nat, NEW f, f = [i \in 1..n |-> f[i]]
  PROVE  Len(f) = n
<1> DEFINE S == {f[i] : i \in 1..n}
<1>1. \A i \in 1..n : f[i] \in S
  OBVIOUS
<1> HIDE DEF S
<1>2. f \in [1..n -> S]
  BY <1>1, Zenon
<1> QED BY <1>2, TableLen

(* write_config_block is a list of writes, however it is split. *)
LEMMA ConfigWrites ==
  ASSUME NEW b \in Nat, b <= 3, NEW d \in Bytes, Len(d) = 32
  PROVE  LET f == write_config_block(b, d)
         IN  Len(f) \in Nat /\ Len(f) >= 1 /\ \A i \in 1..Len(f) : IsCommand(f[i]) /\ f[i].want = 0
<1> DEFINE f == write_config_block(b, d)
<1>0. b \in 0..3
  OBVIOUS
<1>1. CASE can_write_block_in_one_transfer(b)
  <2> DEFINE x == write_32("Config", config_or_otp_address(b, 0), d)
  <2>1. f = <<x>>
    BY <1>1, Zenon DEF write_config_block
  <2>2. IsCommand(x)
    BY <1>0, Zenon DEF IsCommand
  <2>3. x.want = 0
    BY DEF write_32, ChipCommand
  <2> HIDE DEF x, f
  <2>4. Len(f) = 1 /\ f[1] = x
    BY <2>1
  <2>5. \A i \in 1..1 : i = 1
    OBVIOUS
  <2>6. Len(f) \in Nat /\ Len(f) >= 1 /\ \A i \in 1..Len(f) : IsCommand(f[i]) /\ f[i].want = 0
    BY <2>2, <2>3, <2>4, <2>5
  <2> QED BY <2>6 DEF f
<1>2. CASE ~can_write_block_in_one_transfer(b)
  <2> DEFINE words == writable_words_in_block(b)
             X(i) == write_4("Config", config_or_otp_address(b, words[i]), Field(d, 4 * words[i], 4))
             n == Len(words)
  <2>1. n \in Nat /\ n >= 1 /\ \A i \in 1..n : words[i] \in Nat /\ words[i] <= 7
    BY DEF writable_words_in_block
  <2>2. f = [i \in 1..n |-> X(i)]
    BY <1>2, Zenon DEF write_config_block
  <2> HIDE DEF words
  <2>3. ASSUME NEW i \in 1..n PROVE IsCommand(X(i)) /\ X(i).want = 0
    <3> DEFINE w == words[i]
               e == Field(d, 4 * w, 4)
    <3>1. w \in Nat /\ w <= 7 /\ w \in 0..7
      BY <2>1
    <3> HIDE DEF w
    <3>2. 4 * w \in Nat /\ 4 \in Nat /\ 4 * w + 4 <= Len(d)
      BY <3>1
    <3>3. e \in Bytes /\ Len(e) = 4
      BY <3>2, FieldType
    <3> HIDE DEF e
    <3>4. IsCommand(write_4("Config", config_or_otp_address(b, w), e))
      BY <1>0, <3>1, <3>3, Zenon DEF IsCommand
    <3>5. write_4("Config", config_or_otp_address(b, w), e).want = 0
      BY DEF write_4, ChipCommand
    <3> QED BY <3>4, <3>5 DEF e, w
  <2> HIDE DEF X, f, n
  <2>4. f = [i \in 1..n |-> f[i]] /\ \A i \in 1..n : f[i] = X(i)
    BY <2>2
  <2>5. Len(f) = n
    BY <2>1, <2>4, FunctionLen
  <2>6. Len(f) \in Nat /\ Len(f) >= 1 /\ \A i \in 1..Len(f) : IsCommand(f[i]) /\ f[i].want = 0
    BY <2>1, <2>3, <2>4, <2>5
  <2> QED BY <2>6 DEF f
<1> QED BY <1>1, <1>2

(* A method with one command. *)
LEMMA OneCommand ==
  ASSUME NEW x, IsCommand(x), NEW f, f = <<x>>
  PROVE  Len(f) \in Nat /\ Len(f) >= 1 /\ \A i \in 1..Len(f) : IsCommand(f[i])
<1>1. Len(f) = 1 /\ f[1] = x
  OBVIOUS
<1>2. \A i \in 1..1 : i = 1
  OBVIOUS
<1> QED BY <1>1, <1>2

(* Every method that reaches the chip has at least one command, and only   *)
(* commands of the driver.                                                 *)
LEMMA MethodCommands ==
  ASSUME NEW k, WellFormed(k), k.cmd \notin CredentialCalls, NEW s
  PROVE  LET f == ChipCommands(k, s)
         IN  Len(f) \in Nat /\ Len(f) >= 1 /\ \A i \in 1..Len(f) : IsCommand(f[i])
<1> DEFINE f == ChipCommands(k, s)
           a == k.args
<1> SUFFICES Len(f) \in Nat /\ Len(f) >= 1 /\ \A i \in 1..Len(f) : IsCommand(f[i])
  OBVIOUS
<1>0. k.cmd \in {"Info", "GetPubkey", "GenKey", "ReadConfigZone", "ReadConfigSlot", "WriteConfigZone",
                 "ProvisionSlot", "ReadSlotBlock", "ReadSlotWord", "ReadCounter", "LockConfigZone",
                 "LockDataZone", "LockSlot"}
  BY DEF WellFormed, CredentialCalls, Commands, RuntimeOpcodes, ProvisioningOpcodes, LockOpcodes
<1>1. CASE k.cmd = "Info"
  <2>1. /\ Len(f) \in {5, 9} /\ f[1] = info_revision
        /\ \A b \in 1..4 : f[1 + b] = read_config_zone[b]
        /\ Len(f) = 9 => \A b \in 1..4 : f[5 + b] = read_config_zone[b]
    BY <1>1, InfoCommands
  <2>0. Len(f) = 5 \/ Len(f) = 9
    BY <2>1
  <2>2. IsCommand(info_revision) /\ \A b \in 1..4 : IsCommand(read_config_zone[b])
    BY ConfigReads DEF IsCommand
  <2> HIDE DEF f
  <2>3. ASSUME NEW i \in 1..Len(f) PROVE IsCommand(f[i])
    <3>1. CASE i = 1
      BY <2>1, <2>2, <3>1
    <3>2. CASE i \in 2..5
      <4>1. i - 1 \in 1..4 /\ 1 + (i - 1) = i
        BY <3>2
      <4>2. f[1 + (i - 1)] = read_config_zone[i - 1]
        BY <2>1, <4>1
      <4> QED BY <2>2, <4>1, <4>2
    <3>3. CASE i \in 6..9
      <4>1. i - 5 \in 1..4 /\ 5 + (i - 5) = i
        BY <3>3
      <4>2. Len(f) = 9
        <5>1. CASE Len(f) = 5
          <6>1. i \in 1..5
            BY <5>1
          <6> QED BY <3>3, <6>1
        <5> QED BY <2>0, <5>1
      <4>3. f[5 + (i - 5)] = read_config_zone[i - 5]
        BY <2>1, <4>1, <4>2
      <4> QED BY <2>2, <4>1, <4>3
    <3> QED BY <2>1, <3>1, <3>2, <3>3, SMTT(60)
  <2> QED BY <2>1, <2>3
<1>2. CASE k.cmd \in {"ReadConfigZone", "ReadConfigSlot"}
  <2>1. f = read_config_zone
    BY <1>2 DEF ChipCommands
  <2> HIDE DEF f
  <2> QED BY <2>1, ConfigReads
<1>3. CASE k.cmd = "WriteConfigZone"
  <2>1. f = write_config_block(a[1], a[2])
    BY <1>3 DEF ChipCommands
  <2>2. a[1] \in Nat /\ a[1] <= 3 /\ a[2] \in Bytes /\ Len(a[2]) = 32
    BY <1>3 DEF WellFormed
  <2> HIDE DEF f, a
  <2> QED BY <2>1, <2>2, ConfigWrites
<1>4. CASE k.cmd \in {"GetPubkey", "GenKey", "LockSlot"}
  <2>1. \E x \in {genkey_public(a[1]), genkey_create(a[1]), lock_slot(a[1])} : f = <<x>>
    BY <1>4 DEF ChipCommands
  <2>2. a[1] \in Slots
    BY <1>4, SlotRange DEF WellFormed, TakesSlot
  <2>3. \A x \in {genkey_public(a[1]), genkey_create(a[1]), lock_slot(a[1])} : IsCommand(x)
    BY <2>2, Zenon DEF IsCommand
  <2> HIDE DEF f
  <2> QED BY <2>1, <2>3, OneCommand
<1>5. CASE k.cmd = "ProvisionSlot"
  <2>1. f = <<write_slot_block(a[1], 0, a[2])>>
    BY <1>5 DEF ChipCommands
  <2>2. a[1] \in Slots /\ a[2] \in Bytes /\ Len(a[2]) = 32
    BY <1>5, SlotRange DEF WellFormed, TakesSlot
  <2>3. IsCommand(write_slot_block(a[1], 0, a[2]))
    BY <2>2, Zenon DEF IsCommand
  <2> HIDE DEF f
  <2> QED BY <2>1, <2>3, OneCommand
<1>6. CASE k.cmd = "ReadSlotBlock"
  <2>1. f = <<read_slot_block(a[1], a[2])>>
    BY <1>6 DEF ChipCommands
  <2>2. a[1] \in Slots /\ a[2] \in Byte
    BY <1>6, SlotRange DEF WellFormed, TakesSlot
  <2>3. IsCommand(read_slot_block(a[1], a[2]))
    BY <2>2, Zenon DEF IsCommand
  <2> HIDE DEF f
  <2> QED BY <2>1, <2>3, OneCommand
<1>7. CASE k.cmd = "ReadSlotWord"
  <2>1. f = <<read_slot_word(a[1], a[2], a[3])>>
    BY <1>7 DEF ChipCommands
  <2>2. a[1] \in Slots /\ a[2] \in Byte /\ a[3] \in Byte
    BY <1>7, SlotRange DEF WellFormed, TakesSlot
  <2>3. IsCommand(read_slot_word(a[1], a[2], a[3]))
    BY <2>2, Zenon DEF IsCommand
  <2> HIDE DEF f
  <2> QED BY <2>1, <2>3, OneCommand
<1>8. CASE k.cmd = "ReadCounter"
  <2>1. f = <<counter_read(a[1])>>
    BY <1>8 DEF ChipCommands
  <2>2. a[1] \in 0..1
    BY <1>8 DEF WellFormed
  <2>3. IsCommand(counter_read(a[1]))
    BY <2>2, Zenon DEF IsCommand
  <2> HIDE DEF f
  <2> QED BY <2>1, <2>3, OneCommand
<1>9. CASE k.cmd = "LockConfigZone"
  <2>1. f = <<lock_config_zone(a[1])>>
    BY <1>9 DEF ChipCommands
  <2>2. a[1] \in Word
    BY <1>9 DEF WellFormed
  <2>3. IsCommand(lock_config_zone(a[1]))
    BY <2>2, Zenon DEF IsCommand
  <2> HIDE DEF f
  <2> QED BY <2>1, <2>3, OneCommand
<1>10. CASE k.cmd = "LockDataZone"
  <2>1. f = <<lock_data_zone>>
    BY <1>10 DEF ChipCommands
  <2>2. IsCommand(lock_data_zone)
    BY Zenon DEF IsCommand
  <2> HIDE DEF f
  <2> QED BY <2>1, <2>2, OneCommand
<1> QED BY <1>0, <1>1, <1>2, <1>3, <1>4, <1>5, <1>6, <1>7, <1>8, <1>9, <1>10, Zenon

(***************************************************************************)
(* The response report, and what hsm-host makes of it.                     *)
(***************************************************************************)
(* Frame::parse of a whole report fails or gives an opcode and a payload.  *)
LEMMA FrameType ==
  ASSUME NEW r, Whole(r)
  PROVE  \/ FrameParse(r).ok = FALSE
         \/ \E op \in Byte, p \in Bytes : FrameParse(r) = Ok([opcode |-> op, payload |-> p])
<1> DEFINE len == FromLowHigh(r[2], r[3])
           p == SubSeq(r, 4, 3 + len)
<1>0. MAX_PAYLOAD_SIZE = 125 /\ HEADER_SIZE = 3 /\ HID_REPORT_SIZE = 128 /\ HEADER_SIZE + 1 = 4
  BY DEF MAX_PAYLOAD_SIZE, HID_REPORT_SIZE, HEADER_SIZE
<1>1. r \in Bytes /\ Len(r) = 128
  BY DEF Whole
<1>2. r[1] \in Byte /\ r[2] \in Byte /\ r[3] \in Byte
  <2>1. 1 \in 1..Len(r) /\ 2 \in 1..Len(r) /\ 3 \in 1..Len(r)
    BY <1>1
  <2> QED BY <1>1, <2>1, ElementOfSeq DEF Bytes
<1>3. len \in Nat
  BY <1>2, FromBytes, WordRange
<1> HIDE DEF len
<1>4. CASE len > 125
  BY <1>0, <1>1, <1>4 DEF FrameParse, Err, len
<1>5. CASE ~(len > 125)
  <2>1. FrameParse(r) = Ok([opcode |-> r[1], payload |-> p])
    BY <1>0, <1>1, <1>5 DEF FrameParse, len
  <2>2. 3 \in Nat /\ 3 + len <= Len(r) /\ 3 + 1 = 4
    BY <1>1, <1>3, <1>5
  <2>3. SubSeq(r, 3 + 1, 3 + len) \in Bytes
    <3>1. \A m \in Nat, n \in Nat : m + n <= Len(r) => SubSeq(r, m + 1, m + n) \in Bytes
      BY <1>1, Cut, ZenonT(60)
    <3> QED BY <1>3, <2>2, <3>1, Zenon
  <2>4. p \in Bytes
    BY <2>2, <2>3
  <2> HIDE DEF p
  <2> QED BY <1>2, <2>1, <2>4
<1> QED BY <1>4, <1>5

(* send_command returns a payload of bytes or an error, whatever the       *)
(* report.                                                                 *)
LEMMA Received ==
  ASSUME NEW r, Whole(r)
  PROVE  (\E v \in Bytes : receive(r) = Ok(v)) \/ (\E e : receive(r) = Err(e))
<1> DEFINE f == FrameParse(r)
<1>1. CASE f.ok = FALSE
  BY <1>1 DEF receive, Failure
<1>2. ASSUME NEW op \in Byte, NEW p \in Bytes, f = Ok([opcode |-> op, payload |-> p])
      PROVE  (\E v \in Bytes : receive(r) = Ok(v)) \/ (\E e : receive(r) = Err(e))
  <2>1. f.ok = TRUE /\ f.value.opcode = op /\ f.value.payload = p
    BY <1>2 DEF Ok
  <2> HIDE DEF f
  <2> QED BY <2>1 DEF receive, Failure, f
<1>3. \/ f.ok = FALSE
      \/ \E op \in Byte, p \in Bytes : f = Ok([opcode |-> op, payload |-> p])
  BY FrameType
<1> QED BY <1>1, <1>2, <1>3, Zenon

(* write_status writes a whole report, also for a payload that is too      *)
(* long.                                                                   *)
LEMMA StatusWhole ==
  ASSUME NEW s \in DOMAIN ResponseStatus, NEW p \in Bytes
  PROVE  Whole(write_status(s, p))
<1>0. Len(p) \in Nat
  BY DEF Bytes
<1>1. CASE Len(p) <= 125
  BY <1>1, StatusRead
<1>2. CASE ~(Len(p) <= 125)
  <2>1. MAX_PAYLOAD_SIZE = 125
    BY DEF MAX_PAYLOAD_SIZE, HID_REPORT_SIZE, HEADER_SIZE
  <2>2. Len(p) > 125
    BY <1>0, <1>2
  <2>3. to_report(ResponseStatus[s], p) = Err("PayloadTooLarge")
    BY <2>1, <2>2 DEF to_report
  <2>4. write_status(s, p) = to_report(ResponseStatus["InvalidPayload"], <<>>).value
    BY <2>3 DEF write_status, Err
  <2>5. ResponseStatus["InvalidPayload"] \in Byte /\ <<>> \in Bytes /\ Len(<<>>) <= 125
    BY ByteRange, SmallBytes DEF ResponseStatus
  <2>6. PICK op \in Byte, q \in Bytes : op = ResponseStatus["InvalidPayload"] /\ q = <<>>
    BY <2>5
  <2>7. to_report(op, q).value \in Bytes /\ Len(to_report(op, q).value) = 128
    BY <2>5, <2>6, ReportRead, ZenonT(60)
  <2> QED BY <2>4, <2>6, <2>7, Zenon DEF Whole
<1> QED BY <1>1, <1>2

(* What the driver and the service report. *)
IsError(e) ==
  \/ \E b \in Byte \ {0} : e = from_status_byte(b)
  \/ \E k \in DOMAIN SubCodes : e = [kind |-> k]
  \/ \E k \in DOMAIN StatusOf, d \in Bytes : Len(d) <= 125 /\ e = [kind |-> k, data |-> d]

(* write_error writes a whole report, which send_command reads as the      *)
(* error it was written for.                                               *)
LEMMA WroteError ==
  ASSUME NEW e, IsError(e)
  PROVE  /\ Whole(write_error(e))
         /\ receive(write_error(e)) =
              Err(IF e.kind \in DOMAIN StatusOf THEN [kind |-> StatusOf[e.kind], data |-> e.data] ELSE e)
         /\ ~(e.kind = "Chip" /\ e.kind \in DOMAIN StatusOf)
<1>0. "Chip" \notin DOMAIN StatusOf /\ "Chip" \notin DOMAIN SubCodes
      /\ \A k \in DOMAIN SubCodes : k \notin DOMAIN StatusOf
  BY DEF StatusOf, SubCodes
<1>00. {"Ok", "AteccChipError", "AteccCommunicationError"} \subseteq DOMAIN ResponseStatus
  BY DEF ResponseStatus
<1>1. ASSUME NEW b \in Byte \ {0}, e = from_status_byte(b)
      PROVE  /\ Whole(write_error(e)) /\ receive(write_error(e)) = Err(e) /\ e.kind = "Chip"
  <2>1. e.kind = "Chip" /\ as_status_byte(e) = b
    BY <1>1, ChipErrorRoundTrip
  <2>2. write_error(e) = write_status("AteccChipError", <<b>>)
    BY <1>0, <2>1 DEF write_error
  <2> DEFINE p == <<b>>
  <2>3. p \in Bytes /\ Len(p) = 1 /\ Len(p) <= 125 /\ p[1] = b
    BY DEF Bytes
  <2> HIDE DEF p
  <2>4. /\ Whole(write_status("AteccChipError", p))
        /\ receive(write_status("AteccChipError", p)) = Err(from_status_byte(p[1]))
    BY <1>00, <2>3, StatusRead
  <2> QED BY <1>1, <2>1, <2>2, <2>3, <2>4 DEF p
<1>2. ASSUME NEW k \in DOMAIN SubCodes, e = [kind |-> k]
      PROVE  Whole(write_error(e)) /\ receive(write_error(e)) = Err(e) /\ e.kind = k
  <2>1. e.kind = k
    BY <1>2
  <2>2. k # "Chip"
    BY <1>0
  <2>3. write_error(e) = write_status("AteccCommunicationError", <<as_sub_code(k)>>)
    BY <2>1, <2>2 DEF write_error
  <2> DEFINE b == as_sub_code(k)
             p == <<b>>
  <2>4. b \in Byte /\ from_sub_code(b) = k
    BY SubCodeRoundTrip
  <2> HIDE DEF b
  <2>5. p \in Bytes /\ Len(p) = 1 /\ Len(p) <= 125 /\ p[1] = b
    BY <2>4 DEF Bytes
  <2> HIDE DEF p
  <2>6. /\ Whole(write_status("AteccCommunicationError", p))
        /\ receive(write_status("AteccCommunicationError", p)) = Failure(from_sub_code(p[1]))
    BY <1>00, <2>5, StatusRead
  <2> QED BY <1>2, <2>1, <2>3, <2>4, <2>5, <2>6 DEF p, b, Failure
<1>3. ASSUME NEW k \in DOMAIN StatusOf, NEW d \in Bytes, Len(d) <= 125, e = [kind |-> k, data |-> d]
      PROVE  /\ Whole(write_error(e)) /\ e.kind = k
             /\ receive(write_error(e)) = Err([kind |-> StatusOf[k], data |-> d])
  <2>1. e.kind = k /\ e.data = d
    BY <1>3
  <2>2. k # "Chip" /\ k \notin DOMAIN SubCodes
    BY <1>0
  <2>3. write_error(e) = write_status(StatusOf[k], d)
    BY <2>1, <2>2 DEF write_error
  <2>4. /\ StatusOf[k] \in DOMAIN ResponseStatus /\ StatusOf[k] # "Ok"
        /\ StatusOf[k] # "AteccChipError" /\ StatusOf[k] # "AteccCommunicationError"
    BY DEF StatusOf, ResponseStatus
  <2> DEFINE s == StatusOf[k]
  <2> HIDE DEF s
  <2>5. Whole(write_status(s, d)) /\ receive(write_status(s, d)) = Err([kind |-> s, data |-> d])
    BY <1>3, <2>4, StatusRead DEF s
  <2> QED BY <2>1, <2>3, <2>5 DEF s
<1>4. CASE \E b \in Byte \ {0} : e = from_status_byte(b)
  BY <1>0, <1>1, <1>4
<1>5. CASE \E k \in DOMAIN SubCodes : e = [kind |-> k]
  BY <1>0, <1>2, <1>5
<1>6. CASE \E k \in DOMAIN StatusOf, d \in Bytes : Len(d) <= 125 /\ e = [kind |-> k, data |-> d]
  <2>1. PICK k \in DOMAIN StatusOf, d \in Bytes : Len(d) <= 125 /\ e = [kind |-> k, data |-> d]
    BY <1>6
  <2>2. /\ Whole(write_error(e)) /\ e.kind = k /\ e.data = d
        /\ receive(write_error(e)) = Err([kind |-> StatusOf[k], data |-> d])
    BY <1>3, <2>1
  <2> QED BY <1>0, <2>2
<1> QED BY <1>4, <1>5, <1>6 DEF IsError

(* Every failure of the driver or the service keeps its name through       *)
(* write_error or write_lock_error, the report and send_command, up to the *)
(* one renaming ShownAs states.                                            *)
THEOREM ErrorShown ==
  ASSUME NEW k, NEW e, IsError(e)
  PROVE  /\ Whole(Respond(k, Err(e)))
         /\ receive(Respond(k, Err(e))) = Err(ShownAs(k.cmd, e))
<1>1. /\ Whole(write_error(e))
      /\ receive(write_error(e)) =
           Err(IF e.kind \in DOMAIN StatusOf THEN [kind |-> StatusOf[e.kind], data |-> e.data] ELSE e)
      /\ ~(e.kind = "Chip" /\ e.kind \in DOMAIN StatusOf)
  BY WroteError
<1>2. Err(e).ok = FALSE /\ Err(e).error = e
  BY DEF Err
<1>3. CASE e.kind = "Chip" /\ k.cmd \in LockCalls /\ e.chip = "ExecutionError"
  <2>1. Respond(k, Err(e)) = write_status("LockCrcMismatch", <<>>)
    BY <1>2, <1>3 DEF Respond, write_lock_error
  <2>2. ShownAs(k.cmd, e) = [kind |-> "LockCrcMismatch", data |-> <<>>]
    BY <1>1, <1>3 DEF ShownAs
  <2>3. "LockCrcMismatch" \in DOMAIN ResponseStatus
    BY DEF ResponseStatus
  <2>4. Len(<<>>) <= 125
    OBVIOUS
  <2> QED BY <2>1, <2>2, <2>3, <2>4, SmallBytes, StatusRead
<1>4. CASE ~(e.kind = "Chip" /\ k.cmd \in LockCalls /\ e.chip = "ExecutionError")
  <2>1. Respond(k, Err(e)) = write_error(e)
    BY <1>2, <1>4 DEF Respond, write_lock_error
  <2>2. ShownAs(k.cmd, e) =
          IF e.kind \in DOMAIN StatusOf THEN [kind |-> StatusOf[e.kind], data |-> e.data] ELSE e
    BY <1>4, Zenon DEF ShownAs
  <2> QED BY <1>1, <2>1, <2>2
<1> QED BY <1>3, <1>4

(* Two of the locks apart, that is the name the documents give it.         *)
LEMMA NamedShown ==
  ASSUME NEW cmd, NEW f, ~Misnamed(cmd, f)
  PROVE  ShownAs(cmd, f) = Named(cmd, f)
<1>1. f.kind = "Chip" /\ cmd \in LockCalls /\ f.chip = "ExecutionError" => cmd = "LockConfigZone"
  BY DEF Misnamed, LockCalls
<1>2. cmd = "LockConfigZone" => cmd \in LockCalls
  BY DEF LockCalls
<1> QED BY <1>1, <1>2, Zenon DEF ShownAs, Named

(***************************************************************************)
(* The request report, and what the handler makes of it.                   *)
(***************************************************************************)
(* A parser returns arguments, InvalidPayload or LockMagicMismatch.        *)
LEMMA ParsedShape ==
  ASSUME NEW c \in Commands, NEW p
  PROVE  \/ \E a : ParsePayload(c, p) = Ok(a)
         \/ ParsePayload(c, p) \in {Err("InvalidPayload"), Err("LockMagicMismatch")}
<1>1. ASSUME NEW n, NEW a
      PROVE  require_len(p, n, a) \in {Ok(a), Err("InvalidPayload")}
  BY Zenon DEF require_len
<1>2. ASSUME NEW n, NEW a, NEW m
      PROVE  require_magic(p, m, n, a) \in {Ok(a), Err("InvalidPayload"), Err("LockMagicMismatch")}
  BY Zenon DEF require_magic
<1>3. CASE c \in {"GetPubkey", "GenKey", "ReadConfigZone", "ReadConfigSlot", "ReadCounter"}
  BY <1>1, <1>3 DEF ParsePayload, parse_slot_only
<1>4. CASE c \in {"Sign", "VerifyPin", "SetPin"}
  BY <1>1, <1>4 DEF ParsePayload, parse_sign, parse_verify_pin, parse_set_pin
<1>5. CASE c \in {"UnblockPin", "SetPuk"}
  BY <1>1, <1>5 DEF ParsePayload, parse_unblock_pin, parse_set_puk
<1>6. CASE c \in {"ReadSlotBlock", "ReadSlotWord", "WriteConfigZone", "ProvisionSlot"}
  BY <1>1, <1>6 DEF ParsePayload, parse_read_slot_block, parse_read_slot_word,
                    parse_write_config_zone, parse_provision_slot
<1>7. CASE c \in {"EmergencyReset", "LockConfigZone", "LockDataZone", "LockSlot"}
  BY <1>2, <1>7 DEF ParsePayload, parse_emergency_reset, parse_lock_config_zone,
                    parse_lock_data_zone, parse_lock_slot
<1>8. CASE c \in {"Info", "GetPinStatus", "CloseSession", "ProvisionInitialPin",
                  "ProvisionInitialPuk", "ProvisionIoKey"}
  BY <1>8 DEF ParsePayload
<1>9. c \in {"GetPubkey", "GenKey", "ReadConfigZone", "ReadConfigSlot", "ReadCounter"}
        \cup {"Sign", "VerifyPin", "SetPin"} \cup {"UnblockPin", "SetPuk"}
        \cup {"ReadSlotBlock", "ReadSlotWord", "WriteConfigZone", "ProvisionSlot"}
        \cup {"EmergencyReset", "LockConfigZone", "LockDataZone", "LockSlot"}
        \cup {"Info", "GetPinStatus", "CloseSession", "ProvisionInitialPin",
                  "ProvisionInitialPuk", "ProvisionIoKey"}
  BY DEF Commands, RuntimeOpcodes, ProvisioningOpcodes, LockOpcodes
<1> QED BY <1>3, <1>4, <1>5, <1>6, <1>7, <1>8, <1>9

(* What the handler answers by itself. *)
Rejections == {"InvalidPayload", "InvalidCommand", "LockMagicMismatch", "InvalidSlot"}

(* What the handler does with a report of the right size. *)
LEMMA Handled ==
  ASSUME NEW w, Whole(w)
  PROVE  \/ \E s \in Rejections : handle_one_request(w) = Err(s)
         \/ \E c \in Commands, p \in Bytes : \E a :
              /\ FrameParse(w) = Ok([opcode |-> CommandOpcode[c], payload |-> p])
              /\ ParsePayload(c, p) = Ok(a)
              /\ c \in TakesSlot => ~(a[1] > MAX_SLOT)
              /\ c = "ReadCounter" => ~(a[1] > 1)
              /\ handle_one_request(w) = Ok([cmd |-> c, args |-> a])
<1>0. {"InvalidPayload", "InvalidCommand", "LockMagicMismatch", "InvalidSlot"}
        \subseteq Rejections
  BY DEF Rejections
<1>1. CASE FrameParse(w).ok = FALSE
  <2>1. handle_one_request(w) = Err("InvalidPayload")
    BY <1>1, Zenon DEF handle_one_request
  <2> QED BY <1>0, <2>1
<1>2. ASSUME NEW op \in Byte, NEW p \in Bytes, FrameParse(w) = Ok([opcode |-> op, payload |-> p])
      PROVE  \/ \E s \in Rejections : handle_one_request(w) = Err(s)
             \/ \E c \in Commands, q \in Bytes : \E a :
                  /\ FrameParse(w) = Ok([opcode |-> CommandOpcode[c], payload |-> q])
                  /\ ParsePayload(c, q) = Ok(a)
                  /\ c \in TakesSlot => ~(a[1] > MAX_SLOT)
                  /\ c = "ReadCounter" => ~(a[1] > 1)
                  /\ handle_one_request(w) = Ok([cmd |-> c, args |-> a])
  <2> DEFINE f == FrameParse(w)
             c == CommandFrom(op)
  <2>1. f.ok = TRUE /\ f.value.opcode = op /\ f.value.payload = p
    BY <1>2 DEF Ok
  <2>2. CASE c = "UnknownOpcode"
    <3>1. handle_one_request(w) = Err("InvalidCommand")
      BY <2>1, <2>2, Zenon DEF handle_one_request
    <3> QED BY <1>0, <3>1
  <2>3. CASE c # "UnknownOpcode"
    <3>1. \E d \in Commands : CommandOpcode[d] = op
      BY <2>3 DEF CommandFrom
    <3>2. c \in Commands /\ CommandOpcode[c] = op
      BY <3>1, Zenon DEF CommandFrom
    <3> HIDE DEF c
    <3> DEFINE x == ParsePayload(c, p)
    <3>3. CASE x \in {Err("InvalidPayload"), Err("LockMagicMismatch")}
      <4>1. ~x.ok
        BY <3>3 DEF Err
      <4>2. handle_one_request(w) = x
        BY <2>1, <2>3, <4>1, Zenon DEF handle_one_request, c
      <4> QED BY <1>0, <3>3, <4>2
    <3>4. ASSUME NEW a, x = Ok(a)
          PROVE  \/ \E s \in Rejections : handle_one_request(w) = Err(s)
                 \/ /\ c \in TakesSlot => ~(a[1] > MAX_SLOT)
                    /\ c = "ReadCounter" => ~(a[1] > 1)
                    /\ handle_one_request(w) = Ok([cmd |-> c, args |-> a])
      <4>1. x.ok = TRUE /\ x.value = a
        BY <3>4 DEF Ok
      <4> HIDE DEF x
      <4>2. handle_one_request(w) =
              IF c \in TakesSlot /\ a[1] > MAX_SLOT THEN Err("InvalidSlot")
              ELSE IF c = "ReadCounter" /\ a[1] > 1 THEN Err("InvalidPayload")
              ELSE Ok([cmd |-> c, args |-> a])
        BY <2>1, <2>3, <4>1, Zenon DEF handle_one_request, c, x
      <4> QED BY <1>0, <4>2
    <3>5. (\E a : x = Ok(a)) \/ x \in {Err("InvalidPayload"), Err("LockMagicMismatch")}
      BY <3>2, ParsedShape
    <3>6. CASE \E a : x = Ok(a)
      <4>1. PICK a : x = Ok(a)
        BY <3>6
      <4>2. \/ \E s \in Rejections : handle_one_request(w) = Err(s)
            \/ /\ c \in TakesSlot => ~(a[1] > MAX_SLOT)
               /\ c = "ReadCounter" => ~(a[1] > 1)
               /\ handle_one_request(w) = Ok([cmd |-> c, args |-> a])
        BY <3>4, <4>1
      <4> QED BY <1>2, <3>2, <4>1, <4>2, Zenon
    <3> QED BY <3>3, <3>5, <3>6
  <2> QED BY <2>2, <2>3
<1> QED BY <1>1, <1>2, FrameType, Zenon

(* A payload that passes require_len has that length. *)
LEMMA LenRequired ==
  ASSUME NEW p, NEW n, NEW a, NEW v, require_len(p, n, a) = Ok(v)
  PROVE  Len(p) = n /\ v = a
<1>1. Ok(v).ok = TRUE /\ Ok(v).value = v /\ Ok(a).value = a
  BY DEF Ok
<1>2. Err("InvalidPayload").ok = FALSE
  BY DEF Err
<1> QED BY <1>1, <1>2, Zenon DEF require_len

(* A payload that passes require_magic has that length and that magic. *)
LEMMA MagicRequired ==
  ASSUME NEW p, NEW n, NEW a, NEW m, NEW v, require_magic(p, m, n, a) = Ok(v)
  PROVE  Len(p) = n /\ v = a /\ Field(p, 0, MAGIC_LEN) = m
<1>1. Ok(v).ok = TRUE /\ Ok(v).value = v /\ Ok(a).value = a
  BY DEF Ok
<1>2. Err("InvalidPayload").ok = FALSE /\ Err("LockMagicMismatch").ok = FALSE
  BY DEF Err
<1> QED BY <1>1, <1>2, Zenon DEF require_magic

(* The arguments a parser returns. *)
LEMMA ParsedArgs ==
  ASSUME NEW c, NEW p \in Bytes, NEW a, ParsePayload(c, p) = Ok(a)
  PROVE  /\ c \in TakesSlot \cup {"ReadConfigZone", "WriteConfigZone", "ReadCounter"} =>
              a[1] \in Nat /\ a[1] <= 255
         /\ c \in {"WriteConfigZone", "ProvisionSlot"} => a[2] \in Bytes /\ Len(a[2]) = 32
         /\ c \in {"ReadSlotBlock", "ReadSlotWord"} => a[2] \in Byte
         /\ c = "ReadSlotWord" => a[3] \in Byte
         /\ c = "LockConfigZone" => a[1] \in Word
<1>0. \A i \in 1..Len(p) : p[i] \in Byte
  BY ElementOfSeq DEF Bytes
<1>1. CASE c \in {"GetPubkey", "GenKey", "ReadConfigZone", "ReadConfigSlot", "ReadCounter"}
  <2>1. require_len(p, 1, <<p[1]>>) = Ok(a)
    BY <1>1 DEF ParsePayload, parse_slot_only
  <2>2. Len(p) = 1 /\ a = <<p[1]>>
    BY <2>1, LenRequired, Zenon
  <2>3. a[1] \in Byte
    BY <1>0, <2>2
  <2> QED BY <1>1, <2>3, ByteRange
<1>2. CASE c \in {"Sign"}
  <2>1. require_len(p, 1 + DIGEST_LEN, <<p[1], Field(p, 1, DIGEST_LEN)>>) = Ok(a)
    BY <1>2 DEF ParsePayload, parse_sign
  <2>2. Len(p) = 1 + DIGEST_LEN /\ a = <<p[1], Field(p, 1, DIGEST_LEN)>>
    BY <2>1, LenRequired
  <2>3. a[1] \in Byte
    BY <1>0, <2>2 DEF DIGEST_LEN
  <2> QED BY <1>2, <2>3, ByteRange
<1>3. CASE c = "LockSlot"
  <2>1. require_magic(p, LOCK_SLOT_MAGIC, MAGIC_LEN + 1, <<p[5]>>) = Ok(a)
    BY <1>3 DEF ParsePayload, parse_lock_slot
  <2>2. Len(p) = MAGIC_LEN + 1 /\ a = <<p[5]>>
    BY <2>1, MagicRequired
  <2>3. a[1] \in Byte
    BY <1>0, <2>2 DEF MAGIC_LEN
  <2> QED BY <1>3, <2>3, ByteRange
<1>4. CASE c = "LockConfigZone"
  <2>1. require_magic(p, LOCK_CONFIG_MAGIC, MAGIC_LEN + 2, <<FromLowHigh(p[5], p[6])>>) = Ok(a)
    BY <1>4 DEF ParsePayload, parse_lock_config_zone
  <2>2. Len(p) = MAGIC_LEN + 2 /\ a = <<FromLowHigh(p[5], p[6])>>
    BY <2>1, MagicRequired
  <2>3. p[5] \in Byte /\ p[6] \in Byte
    BY <1>0, <2>2 DEF MAGIC_LEN
  <2>4. FromLowHigh(p[5], p[6]) \in Word
    BY <2>3, FromBytes, Zenon
  <2>5. a[1] \in Word
    BY <2>2, <2>4
  <2> QED BY <1>4, <2>5 DEF TakesSlot
<1>5. CASE c \in {"WriteConfigZone", "ProvisionSlot"}
  <2>1. require_len(p, 1 + 32, <<p[1], Field(p, 1, 32)>>) = Ok(a)
    BY <1>5 DEF ParsePayload, parse_write_config_zone, parse_provision_slot
  <2>2. Len(p) = 1 + 32 /\ a = <<p[1], Field(p, 1, 32)>>
    <3>1. PICK n, v : n = 1 + 32 /\ v = <<p[1], Field(p, 1, 32)>>
      OBVIOUS
    <3>2. require_len(p, n, v) = Ok(a)
      BY <2>1, <3>1
    <3>3. Len(p) = n /\ a = v
      BY <3>2, LenRequired, Zenon
    <3> QED BY <3>1, <3>3
  <2>3. a[1] \in Byte
    BY <1>0, <2>2
  <2>4. 1 \in Nat /\ 32 \in Nat /\ 1 + 32 <= Len(p)
    BY <2>2
  <2>5. Field(p, 1, 32) \in Bytes /\ Len(Field(p, 1, 32)) = 32
    BY <2>4, FieldType, Zenon
  <2> QED BY <1>5, <2>2, <2>3, <2>5, ByteRange
<1>6. CASE c = "ReadSlotBlock"
  <2>1. require_len(p, 2, p) = Ok(a)
    BY <1>6 DEF ParsePayload, parse_read_slot_block
  <2>2. Len(p) = 2 /\ a = p
    BY <2>1, LenRequired, Zenon
  <2>3. a[1] \in Byte /\ a[2] \in Byte
    BY <1>0, <2>2
  <2> QED BY <1>6, <2>3, ByteRange
<1>7. CASE c = "ReadSlotWord"
  <2>1. require_len(p, 3, p) = Ok(a)
    BY <1>7 DEF ParsePayload, parse_read_slot_word
  <2>2. Len(p) = 3 /\ a = p
    BY <2>1, LenRequired, Zenon
  <2>3. a[1] \in Byte /\ a[2] \in Byte /\ a[3] \in Byte
    BY <1>0, <2>2
  <2> QED BY <1>7, <2>3, ByteRange
<1>8. CASE c \notin {"GetPubkey", "GenKey", "ReadConfigZone", "ReadConfigSlot", "ReadCounter",
                     "Sign", "LockSlot", "LockConfigZone", "WriteConfigZone", "ProvisionSlot",
                     "ReadSlotBlock", "ReadSlotWord"}
  BY <1>8 DEF TakesSlot
<1> QED BY <1>1, <1>2, <1>3, <1>4, <1>5, <1>6, <1>7, <1>8

(* A method refuses with an error the operator can be shown, or it is      *)
(* called with arguments it can serve.                                     *)
LEMMA CallChecked ==
  ASSUME NEW w, Whole(w), NEW k, handle_one_request(w) = Ok(k)
  PROVE  /\ k.cmd \in Commands
         /\ \/ \E e : IsError(e) /\ Refusal(k) = Err(e)
            \/ Refusal(k).ok = TRUE /\ WellFormed(k)
<1>0. \A s, u : Err(s) # Ok(u) /\ (Ok(s) = Ok(u) => s = u)
  BY DEF Err, Ok
<1>a. ~ \E s \in Rejections : handle_one_request(w) = Err(s)
  BY <1>0, Zenon
<1>b. PICK c \in Commands, p \in Bytes : \E a :
        /\ FrameParse(w) = Ok([opcode |-> CommandOpcode[c], payload |-> p])
        /\ ParsePayload(c, p) = Ok(a)
        /\ c \in TakesSlot => ~(a[1] > MAX_SLOT)
        /\ c = "ReadCounter" => ~(a[1] > 1)
        /\ handle_one_request(w) = Ok([cmd |-> c, args |-> a])
  BY <1>a, Handled, Zenon
<1>1. PICK a :
        /\ FrameParse(w) = Ok([opcode |-> CommandOpcode[c], payload |-> p])
        /\ ParsePayload(c, p) = Ok(a)
        /\ c \in TakesSlot => ~(a[1] > MAX_SLOT)
        /\ c = "ReadCounter" => ~(a[1] > 1)
        /\ handle_one_request(w) = Ok([cmd |-> c, args |-> a])
  BY <1>b, Zenon
<1>2. k = [cmd |-> c, args |-> a]
  BY <1>0, <1>1, Zenon
<1>3. k.cmd = c /\ k.args = a
  BY <1>2
<1>4. /\ c \in TakesSlot \cup {"ReadConfigZone", "WriteConfigZone", "ReadCounter"} =>
              a[1] \in Nat /\ a[1] <= 255
      /\ c \in {"WriteConfigZone", "ProvisionSlot"} => a[2] \in Bytes /\ Len(a[2]) = 32
      /\ c \in {"ReadSlotBlock", "ReadSlotWord"} => a[2] \in Byte
      /\ c = "ReadSlotWord" => a[3] \in Byte
      /\ c = "LockConfigZone" => a[1] \in Word
  BY <1>1, ParsedArgs
<1>5. CASE c \in {"ReadConfigZone", "WriteConfigZone"} /\ a[1] > 3
  <2>1. Refusal(k) = Err([kind |-> "InvalidFormat", data |-> <<>>])
    BY <1>3, <1>5 DEF Refusal
  <2>2. "InvalidFormat" \in DOMAIN StatusOf /\ Len(<<>>) <= 125
    BY DEF StatusOf
  <2>3. IsError([kind |-> "InvalidFormat", data |-> <<>>])
    BY <2>2, SmallBytes DEF IsError
  <2> QED BY <1>3, <2>1, <2>3
<1>6. CASE c = "ProvisionSlot" /\ a[1] \notin {5, 6, 8}
  <2>1. Refusal(k) = Err([kind |-> "InvalidSlot", data |-> <<a[1]>>])
    BY <1>3, <1>6 DEF Refusal
  <2>2. "InvalidSlot" \in DOMAIN StatusOf
    BY DEF StatusOf
  <2> DEFINE d == <<a[1]>>
  <2>3. a[1] \in Byte
    BY <1>4, <1>6, ByteRange DEF TakesSlot
  <2>4. d \in Bytes /\ Len(d) <= 125
    BY <2>3 DEF Bytes
  <2> HIDE DEF d
  <2>5. IsError([kind |-> "InvalidSlot", data |-> d])
    BY <2>2, <2>4 DEF IsError
  <2> QED BY <1>3, <2>1, <2>5 DEF d
<1>7. CASE /\ ~(c \in {"ReadConfigZone", "WriteConfigZone"} /\ a[1] > 3)
           /\ ~(c = "ProvisionSlot" /\ a[1] \notin {5, 6, 8})
  <2>1. Refusal(k) = Ok(<<>>)
    BY <1>3, <1>7 DEF Refusal
  <2>2. Refusal(k).ok = TRUE
    BY <2>1 DEF Ok
  <2>3. c \in TakesSlot => a[1] \in Nat /\ a[1] <= 15
    BY <1>1, <1>4 DEF MAX_SLOT
  <2>4. c \in {"ReadConfigZone", "WriteConfigZone"} => a[1] \in Nat /\ a[1] <= 3
    BY <1>4, <1>7
  <2>5. c = "ReadCounter" => a[1] \in Nat /\ a[1] <= 1
    BY <1>1, <1>4
  <2>6. WellFormed(k)
    BY <1>3, <1>4, <2>3, <2>4, <2>5, Zenon DEF WellFormed
  <2> QED BY <1>3, <2>2, <2>6
<1> QED BY <1>5, <1>6, <1>7

(***************************************************************************)
(* Every request of hsm-host, against the parser of its command.           *)
(***************************************************************************)
(* Text is bytes.                                                          *)
LEMMA TextBytes ==
  ASSUME NEW t \in Text
  PROVE  t \in Bytes /\ \A i \in 1..Len(t) : t[i] <= 244
<1> DEFINE C == 0..244
<1>1. \A x \in C : x \in Byte /\ x <= 244
  BY ByteRange
<1> HIDE DEF C
<1>2. t \in Seq(C)
  BY DEF Text, C
<1>3. \A i \in 1..Len(t) : t[i] \in C
  BY <1>2, ElementOfSeq
<1>4. Len(t) \in Nat /\ t \in [1..Len(t) -> C]
  BY <1>2
<1>5. t \in [1..Len(t) -> Byte]
  BY <1>1, <1>4
<1> DEFINE n == Len(t)
<1>6. n \in Nat /\ t \in [1..n -> Byte]
  BY <1>4, <1>5
<1> HIDE DEF n
<1>7. t \in Bytes
  BY <1>6, SeqDef, Zenon DEF Bytes
<1> QED BY <1>1, <1>3, <1>7

(* Two buffers joined: each is found where it was put. *)
LEMMA TwoFields ==
  ASSUME NEW s \in Bytes, NEW t \in Bytes
  PROVE  /\ s \o t \in Bytes /\ Len(s \o t) = Len(s) + Len(t)
         /\ Field(s \o t, 0, Len(s)) = s /\ Field(s \o t, Len(s), Len(t)) = t
         /\ \A i \in 1..Len(s) : (s \o t)[i] = s[i]
         /\ \A i \in 1..Len(t) : (s \o t)[Len(s) + i] = t[i]
<1>1. /\ s \o t \in Bytes /\ Len(s \o t) = Len(s) + Len(t) /\ Len(s) \in Nat
      /\ \A i \in 1..Len(s) : (s \o t)[i] = s[i]
      /\ \A i \in 1..Len(t) : (s \o t)[Len(s) + i] = t[i]
  BY Joined
<1>2. SubSeq(s \o t, 1, Len(s)) = s /\ SubSeq(s \o t, Len(s) + 1, Len(s) + Len(t)) = t
  BY Parts
<1>3. 0 + 1 = 1 /\ 0 + Len(s) = Len(s)
  BY <1>1
<1>4. Field(s \o t, 0, Len(s)) = s /\ Field(s \o t, Len(s), Len(t)) = t
  BY <1>2, <1>3, Zenon DEF Field
<1> QED BY <1>1, <1>4, Zenon

(* w joins three sequences: each is found where it was put. *)
Laid(s, t, u, w) ==
  /\ w \in Bytes /\ Len(w) = Len(s) + Len(t) + Len(u)
  /\ Field(w, 0, Len(s)) = s /\ Field(w, Len(s), Len(t)) = t
  /\ Field(w, Len(s) + Len(t), Len(u)) = u

(* Three buffers joined: each is found where it was put. *)
LEMMA ThreeFields ==
  ASSUME NEW s \in Bytes, NEW t \in Bytes, NEW u \in Bytes
  PROVE  Laid(s, t, u, s \o t \o u)
<1>0. PICK v : v = s \o t
  OBVIOUS
<1>1. /\ v \in Bytes /\ Len(v) = Len(s) + Len(t)
      /\ Field(v, 0, Len(s)) = s /\ Field(v, Len(s), Len(t)) = t
  BY <1>0, TwoFields, Zenon
<1>3. v \o u \in Bytes /\ Len(v \o u) = Len(v) + Len(u) /\ Field(v \o u, Len(v), Len(u)) = u
  BY <1>1, TwoFields, Zenon
<1>4. /\ 0 \in Nat /\ Len(s) \in Nat /\ Len(t) \in Nat
      /\ 0 + Len(s) <= Len(v) /\ Len(s) + Len(t) <= Len(v)
  BY <1>1 DEF Bytes
<1>5. SubSeq(v \o u, 0 + 1, 0 + Len(s)) = SubSeq(v, 0 + 1, 0 + Len(s))
  BY <1>1, <1>4, CutLeft
<1>6. SubSeq(v \o u, Len(s) + 1, Len(s) + Len(t)) = SubSeq(v, Len(s) + 1, Len(s) + Len(t))
  BY <1>1, <1>4, CutLeft
<1>7. Field(v \o u, 0, Len(s)) = s /\ Field(v \o u, Len(s), Len(t)) = t
  BY <1>1, <1>5, <1>6, Zenon DEF Field
<1>8. Laid(s, t, u, v \o u)
  BY <1>1, <1>3, <1>7 DEF Laid
<1> QED BY <1>0, <1>8

(* The request q is the call k, and can be taken for no irreversible one. *)
Harmless(q) ==
  /\ Len(q.payload) = 4  => q.cmd = "LockDataZone" \/ q.payload \in Text
  /\ Len(q.payload) = 5  => q.cmd = "LockSlot"
  /\ Len(q.payload) = 6  => q.cmd = "LockConfigZone"
  /\ Len(q.payload) = 36 => q.cmd = "EmergencyReset"

Carries(q, k) ==
  /\ q.cmd = k.cmd /\ q.cmd \in Commands
  /\ q.payload \in Bytes /\ Len(q.payload) <= 125
  /\ ParsePayload(q.cmd, q.payload) = Ok(k.args)
  /\ Harmless(q)

(* When a request carries a call. *)
LEMMA CarriedIf ==
  ASSUME NEW c \in Commands, NEW p \in Bytes, Len(p) <= 125, NEW a, NEW l,
         ParsePayload(c, p) = Ok(a),
         Len(p) = 4  => c = "LockDataZone" \/ p \in Text,
         Len(p) = 5  => c = "LockSlot",
         Len(p) = 6  => c = "LockConfigZone",
         Len(p) = 36 => c = "EmergencyReset"
  PROVE  Carries(Request(c, p, l), [cmd |-> c, args |-> a])
<1> DEFINE q == Request(c, p, l)
           k == [cmd |-> c, args |-> a]
<1>1. q.cmd = c /\ q.payload = p /\ k.cmd = c /\ k.args = a
  BY DEF Request
<1> HIDE DEF q, k
<1>2. Harmless(q)
  BY <1>1 DEF Harmless
<1>3. Carries(q, k)
  BY <1>1, <1>2, Zenon DEF Carries
<1> QED BY <1>3, Zenon DEF q, k

(* The requests with a slot, a block or a counter alone. *)
LEMMA SlotCarried ==
  ASSUME NEW c, NEW b \in Byte, NEW l, NEW q, q = Request(c, <<b>>, l),
         c \in {"GetPubkey", "GenKey", "ReadConfigZone", "ReadConfigSlot", "ReadCounter"}
  PROVE  Carries(q, [cmd |-> c, args |-> <<b>>])
<1> DEFINE p == <<b>>
<1>2. p \in Bytes /\ Len(p) = 1 /\ p[1] = b /\ <<p[1]>> = <<b>>
  BY DEF Bytes
<1> HIDE DEF p
<1>3. ParsePayload(c, p) = Ok(<<b>>)
  BY <1>2 DEF ParsePayload, parse_slot_only, require_len
<1>4. c \in Commands
  BY DEF Commands, RuntimeOpcodes, ProvisioningOpcodes
<1>5. Carries(Request(c, p, l), [cmd |-> c, args |-> <<b>>])
  <2>1. Len(p) <= 125 /\ Len(p) # 4 /\ Len(p) # 5 /\ Len(p) # 6 /\ Len(p) # 36
    BY <1>2
  <2> QED BY <1>2, <1>3, <1>4, <2>1, CarriedIf, Zenon
<1> QED BY <1>5 DEF p

(* The requests without a payload. *)
LEMMA NothingCarried ==
  ASSUME NEW c \in {"Info", "CloseSession", "GetPinStatus"}, NEW l, NEW q, q = Request(c, <<>>, l)
  PROVE  Carries(q, [cmd |-> c, args |-> <<>>])
<1>2. ParsePayload(c, <<>>) = Ok(<<>>)
  BY DEF ParsePayload
<1>4. c \in Commands
  BY DEF Commands, RuntimeOpcodes, ProvisioningOpcodes
<1>5. PICK p \in Bytes : p = <<>>
  BY SmallBytes
<1>6. Len(p) <= 125 /\ Len(p) # 4 /\ Len(p) # 5 /\ Len(p) # 6 /\ Len(p) # 36
  BY <1>5
<1>7. ParsePayload(c, p) = Ok(p)
  BY <1>2, <1>5
<1>8. Carries(Request(c, p, l), [cmd |-> c, args |-> p])
  BY <1>4, <1>6, <1>7, CarriedIf, Zenon
<1> QED BY <1>5, <1>8

(* The requests for a slot's block or word. *)
LEMMA AddressCarried ==
  ASSUME NEW s \in Byte, NEW b \in Byte, NEW o \in Byte, NEW l
  PROVE  /\ Carries(Request("ReadSlotBlock", <<s, b>>, l),
                    [cmd |-> "ReadSlotBlock", args |-> <<s, b>>])
         /\ Carries(Request("ReadSlotWord", <<s, b, o>>, l),
                    [cmd |-> "ReadSlotWord", args |-> <<s, b, o>>])
<1> DEFINE p == <<s, b>>
           r == <<s, b, o>>
<1>1. p \in Bytes /\ Len(p) = 2 /\ r \in Bytes /\ Len(r) = 3
  BY DEF Bytes
<1> HIDE DEF p, r
<1>2. ParsePayload("ReadSlotBlock", p) = Ok(p) /\ ParsePayload("ReadSlotWord", r) = Ok(r)
  BY <1>1 DEF ParsePayload, parse_read_slot_block, parse_read_slot_word, require_len
<1>3. {"ReadSlotBlock", "ReadSlotWord"} \subseteq Commands
  BY DEF Commands, RuntimeOpcodes
<1>6. Len(p) <= 125 /\ Len(p) # 4 /\ Len(p) # 5 /\ Len(p) # 6 /\ Len(p) # 36
  BY <1>1
<1>7. Len(r) <= 125 /\ Len(r) # 4 /\ Len(r) # 5 /\ Len(r) # 6 /\ Len(r) # 36
  BY <1>1
<1>4. Carries(Request("ReadSlotBlock", p, l), [cmd |-> "ReadSlotBlock", args |-> p])
  BY <1>1, <1>2, <1>3, <1>6, <1>7, CarriedIf, Zenon
<1>5. Carries(Request("ReadSlotWord", r, l), [cmd |-> "ReadSlotWord", args |-> r])
  BY <1>1, <1>2, <1>3, <1>6, <1>7, CarriedIf, Zenon
<1> QED BY <1>4, <1>5 DEF p, r

(* The requests with an index and 32 bytes. *)
LEMMA BlockCarried ==
  ASSUME NEW c \in {"WriteConfigZone", "ProvisionSlot", "Sign"}, NEW b \in Byte, NEW d \in Bytes, Len(d) = 32,
         NEW l, NEW q, q = Request(c, <<b>> \o d, l)
  PROVE  Carries(q, [cmd |-> c, args |-> <<b, d>>])
<1> DEFINE h == <<b>>
           p == h \o d
<1>2. h \in Bytes /\ Len(h) = 1 /\ h[1] = b
  BY DEF Bytes
<1> HIDE DEF h
<1>3. /\ p \in Bytes /\ Len(p) = 1 + 32 /\ Field(p, 1, 32) = d
      /\ \A i \in 1..1 : p[i] = h[i]
  <2>1. /\ p \in Bytes /\ Len(p) = Len(h) + Len(d) /\ Field(p, Len(h), Len(d)) = d
        /\ \A i \in 1..Len(h) : p[i] = h[i]
    BY <1>2, TwoFields, Zenon
  <2> HIDE DEF p
  <2> QED BY <1>2, <2>1
<1>4. p[1] = b
  BY <1>2, <1>3
<1> HIDE DEF p
<1>5. ParsePayload(c, p) = Ok(<<b, d>>)
  BY <1>3, <1>4 DEF ParsePayload, parse_write_config_zone, parse_provision_slot, parse_sign, require_len,
     DIGEST_LEN
<1>6. c \in Commands
  BY DEF Commands, RuntimeOpcodes, ProvisioningOpcodes
<1>7. Carries(Request(c, p, l), [cmd |-> c, args |-> <<b, d>>])
  <2>1. Len(p) <= 125 /\ Len(p) # 4 /\ Len(p) # 5 /\ Len(p) # 6 /\ Len(p) # 36
    BY <1>3
  <2> QED BY <1>3, <1>5, <1>6, <2>1, CarriedIf, Zenon
<1> QED BY <1>7 DEF p, h

(* verify-pin's request. *)
LEMMA PinCarried ==
  ASSUME NEW p \in Text, Len(p) = 4, NEW l
  PROVE  Carries(Request("VerifyPin", p, l), [cmd |-> "VerifyPin", args |-> <<p>>])
<1>1. p \in Bytes
  BY TextBytes
<1>2. ParsePayload("VerifyPin", p) = Ok(<<p>>)
  BY DEF ParsePayload, parse_verify_pin, require_len, PIN_LEN
<1>3. Len(p) <= 125 /\ Len(p) # 5 /\ Len(p) # 6 /\ Len(p) # 36
  OBVIOUS
<1>4. "VerifyPin" \in Commands
  BY DEF Commands, RuntimeOpcodes
<1> QED BY <1>1, <1>2, <1>3, <1>4, CarriedIf, Zenon

(* The lengths hsm-host checks of the codes and the IO key. *)
Lengths(c, m, n, k) ==
  /\ k = 32
  /\ \/ c = "SetPin" /\ m = 4 /\ n = 4
     \/ c = "UnblockPin" /\ m = 8 /\ n = 4
     \/ c = "SetPuk" /\ m = 8 /\ n = 8

(* The requests with two codes and the IO key. *)
LEMMA CodesCarried ==
  ASSUME NEW s \in Bytes, NEW t \in Bytes, NEW u \in Bytes, NEW l,
         NEW c, Lengths(c, Len(s), Len(t), Len(u))
  PROVE  Carries(Request(c, s \o t \o u, l), [cmd |-> c, args |-> <<s, t, u>>])
<1>1. PICK w : w = s \o t \o u
  OBVIOUS
<1>2. Laid(s, t, u, w)
  BY <1>1, ThreeFields
<1>8. PICK m, n, k : Len(s) = m /\ Len(t) = n /\ Len(u) = k
  OBVIOUS
<1>10. /\ k = 32
       /\ \/ c = "SetPin" /\ m = 4 /\ n = 4
          \/ c = "UnblockPin" /\ m = 8 /\ n = 4
          \/ c = "SetPuk" /\ m = 8 /\ n = 8
  BY <1>8 DEF Lengths
<1>3. /\ w \in Bytes /\ Len(w) = m + n + k
      /\ Field(w, 0, m) = s /\ Field(w, m, n) = t /\ Field(w, m + n, k) = u
  BY <1>2, <1>8 DEF Laid
<1>4. ParsePayload(c, w) = Ok(<<s, t, u>>)
  <2>1. CASE c = "SetPin"
    <3>1. Len(w) = 40 /\ Field(w, 0, 4) = s /\ Field(w, 4, 4) = t /\ Field(w, 8, 32) = u
      BY <1>3, <1>10, <2>1
    <3> QED BY <2>1, <3>1 DEF ParsePayload, parse_set_pin, require_len, PIN_LEN, IO_KEY_LEN
  <2>2. CASE c = "UnblockPin"
    <3>1. Len(w) = 44 /\ Field(w, 0, 8) = s /\ Field(w, 8, 4) = t /\ Field(w, 12, 32) = u
      BY <1>3, <1>10, <2>2
    <3> QED BY <2>2, <3>1 DEF ParsePayload, parse_unblock_pin, require_len, PIN_LEN, PUK_LEN, IO_KEY_LEN
  <2>3. CASE c = "SetPuk"
    <3>1. Len(w) = 48 /\ Field(w, 0, 8) = s /\ Field(w, 8, 8) = t /\ Field(w, 16, 32) = u
      BY <1>3, <1>10, <2>3
    <3> QED BY <2>3, <3>1 DEF ParsePayload, parse_set_puk, require_len, PUK_LEN, IO_KEY_LEN
  <2> QED BY <1>10, <2>1, <2>2, <2>3
<1>5. Len(w) <= 125 /\ Len(w) # 4 /\ Len(w) # 5 /\ Len(w) # 6 /\ Len(w) # 36
  BY <1>3, <1>10
<1>6. c \in Commands
  BY <1>10 DEF Commands, RuntimeOpcodes
<1>7. Carries(Request(c, w, l), [cmd |-> c, args |-> <<s, t, u>>])
  BY <1>3, <1>4, <1>5, <1>6, CarriedIf, Zenon
<1> QED BY <1>1, <1>7

(* The magic numbers are four bytes; the data lock's second one is in no   *)
(* UTF-8 text.                                                             *)
LEMMA Magics ==
  /\ \A m \in {EMERGENCY_RESET_MAGIC, LOCK_CONFIG_MAGIC, LOCK_DATA_MAGIC, LOCK_SLOT_MAGIC} :
       m \in Bytes /\ Len(m) = 4
  /\ LOCK_DATA_MAGIC[2] = 254
<1>1. \A b \in {186, 220, 15, 254, 222, 173, 190, 239, 202, 240, 13} : b \in Byte
  BY ByteRange
<1> QED BY <1>1 DEF EMERGENCY_RESET_MAGIC, LOCK_CONFIG_MAGIC, LOCK_DATA_MAGIC, LOCK_SLOT_MAGIC, Bytes

(* The requests with a magic number before their argument. *)
LEMMA MagicCarried ==
  ASSUME NEW d \in Bytes, NEW m \in Bytes, Len(m) = 4, NEW l, NEW c, NEW a,
         \/ c = "EmergencyReset" /\ Len(d) = 32 /\ m = EMERGENCY_RESET_MAGIC /\ a = <<d>>
         \/ /\ c = "LockConfigZone" /\ Len(d) = 2 /\ m = LOCK_CONFIG_MAGIC
            /\ a = <<FromLowHigh(d[1], d[2])>>
         \/ c = "LockSlot" /\ Len(d) = 1 /\ m = LOCK_SLOT_MAGIC /\ a = <<d[1]>>
  PROVE  Carries(Request(c, m \o d, l), [cmd |-> c, args |-> a])
<1>1. PICK w : w = m \o d
  OBVIOUS
<1>2. /\ w \in Bytes /\ Len(w) = Len(m) + Len(d)
      /\ Field(w, 0, Len(m)) = m /\ Field(w, Len(m), Len(d)) = d
      /\ \A i \in 1..Len(d) : w[Len(m) + i] = d[i]
  BY <1>1, TwoFields, Zenon
<1>3. Field(w, 0, 4) = m /\ Len(w) = 4 + Len(d) /\ \A i \in 1..Len(d) : w[4 + i] = d[i]
  BY <1>2
<1>4. ParsePayload(c, w) = Ok(a)
  <2>1. CASE c = "EmergencyReset"
    <3>0. Len(d) = 32 /\ m = EMERGENCY_RESET_MAGIC /\ a = <<d>>
      BY <2>1
    <3>1. Len(w) = 36 /\ Field(w, 4, 32) = d /\ Field(w, 0, 4) = EMERGENCY_RESET_MAGIC
      BY <1>2, <1>3, <3>0
    <3> QED BY <2>1, <3>0, <3>1 DEF ParsePayload, parse_emergency_reset, require_magic, MAGIC_LEN, IO_KEY_LEN
  <2>2. CASE c = "LockConfigZone"
    <3>0. Len(d) = 2 /\ m = LOCK_CONFIG_MAGIC /\ a = <<FromLowHigh(d[1], d[2])>>
      BY <2>2
    <3>1. Len(w) = 6 /\ Field(w, 0, 4) = LOCK_CONFIG_MAGIC
      BY <1>3, <3>0
    <3>2. 1 \in 1..Len(d) /\ 2 \in 1..Len(d) /\ 4 + 1 = 5 /\ 4 + 2 = 6
      BY <3>0
    <3>3. w[5] = d[1] /\ w[6] = d[2]
      BY <1>3, <3>2
    <3> QED BY <2>2, <3>0, <3>1, <3>3 DEF ParsePayload, parse_lock_config_zone, require_magic, MAGIC_LEN
  <2>3. CASE c = "LockSlot"
    <3>0. Len(d) = 1 /\ m = LOCK_SLOT_MAGIC /\ a = <<d[1]>>
      BY <2>3
    <3>1. Len(w) = 5 /\ Field(w, 0, 4) = LOCK_SLOT_MAGIC
      BY <1>3, <3>0
    <3>2. 1 \in 1..Len(d) /\ 4 + 1 = 5
      BY <3>0
    <3>3. w[5] = d[1]
      BY <1>3, <3>2
    <3> QED BY <2>3, <3>0, <3>1, <3>3 DEF ParsePayload, parse_lock_slot, require_magic, MAGIC_LEN
  <2> QED BY <2>1, <2>2, <2>3
<1>5. /\ Len(w) <= 125 /\ Len(w) # 4
      /\ Len(w) = 5 => c = "LockSlot"
      /\ Len(w) = 6 => c = "LockConfigZone"
      /\ Len(w) = 36 => c = "EmergencyReset"
  <2>1. \/ c = "EmergencyReset" /\ Len(d) = 32
        \/ c = "LockConfigZone" /\ Len(d) = 2
        \/ c = "LockSlot" /\ Len(d) = 1
    OBVIOUS
  <2>2. CASE c = "EmergencyReset" /\ Len(d) = 32
    BY <1>3, <2>2
  <2>3. CASE c = "LockConfigZone" /\ Len(d) = 2
    BY <1>3, <2>3
  <2>4. CASE c = "LockSlot" /\ Len(d) = 1
    BY <1>3, <2>4
  <2> QED BY <2>1, <2>2, <2>3, <2>4
<1>6. c \in Commands
  BY DEF Commands, RuntimeOpcodes, LockOpcodes
<1>7. Carries(Request(c, w, l), [cmd |-> c, args |-> a])
  BY <1>2, <1>4, <1>5, <1>6, CarriedIf, Zenon
<1> QED BY <1>1, <1>7

(* lock-data's request, the magic number alone. *)
LEMMA LockDataCarried ==
  ASSUME NEW l
  PROVE  Carries(Request("LockDataZone", LOCK_DATA_MAGIC, l), [cmd |-> "LockDataZone", args |-> <<>>])
<1>1. PICK p : p = LOCK_DATA_MAGIC
  OBVIOUS
<1>2. p \in Bytes /\ Len(p) = 4
  BY <1>1, Magics
<1>3. SubSeq(p, 1, Len(p)) = p
  BY <1>2, CutAll, Zenon
<1>4. Field(p, 0, 4) = p
  BY <1>2, <1>3 DEF Field
<1>5. ParsePayload("LockDataZone", p) = Ok(<<>>)
  BY <1>1, <1>2, <1>4 DEF ParsePayload, parse_lock_data_zone, require_magic, MAGIC_LEN
<1>6. Len(p) <= 125 /\ Len(p) # 5 /\ Len(p) # 6 /\ Len(p) # 36
  BY <1>2
<1>7. "LockDataZone" \in Commands
  BY DEF Commands, LockOpcodes
<1>8. Carries(Request("LockDataZone", p, l), [cmd |-> "LockDataZone", args |-> <<>>])
  BY <1>2, <1>5, <1>6, <1>7, CarriedIf, Zenon
<1> QED BY <1>1, <1>8

(* A tuple of one argument. *)
LEMMA OneArg ==
  ASSUME NEW S, NEW a \in [1..1 -> S]
  PROVE  a[1] \in S /\ a = <<a[1]>>
<1>1. a[1] \in S
  OBVIOUS
<1>2. DOMAIN a = 1..1 /\ DOMAIN <<a[1]>> = 1..1
  OBVIOUS
<1> QED BY <1>1, <1>2

(* What clap lets through, command by command. *)
LEMMA LineType ==
  ASSUME NEW line \in CommandLines
  PROVE  LET a == line.args IN
         /\ line = [cmd |-> line.cmd, args |-> a]
         /\ line.cmd \in {"Info", "ReadConfig", "CloseSession", "GetPinStatus", "LockConfig", "LockDataZone"}
              => a = <<>>
         /\ line.cmd \in {"ReadConfigSlot", "GetPubkey", "GenKey", "ReadCounter", "LockSlot"}
              => a[1] \in Byte /\ a = <<a[1]>>
         /\ line.cmd = "ReadSlotBlock" => a[1] \in Byte /\ a[2] \in Byte /\ a = <<a[1], a[2]>>
         /\ line.cmd = "ReadSlotWord" =>
              a[1] \in Byte /\ a[2] \in Byte /\ a[3] \in Byte /\ a = <<a[1], a[2], a[3]>>
         /\ line.cmd \in {"WriteConfig", "EmergencyReset"} => a[1] \in Bytes /\ a = <<a[1]>>
         /\ line.cmd \in {"ProvisionSlot", "Sign"} => a[1] \in Byte /\ a[2] \in Bytes /\ a = <<a[1], a[2]>>
         /\ line.cmd = "VerifyPin" => a[1] \in Text /\ a = <<a[1]>>
         /\ line.cmd \in {"SetPin", "UnblockPin", "SetPuk"} =>
              a[1] \in Text /\ a[2] \in Text /\ a[3] \in Bytes /\ a = <<a[1], a[2], a[3]>>
         /\ line.cmd \in {"Info", "ReadConfig", "CloseSession", "GetPinStatus", "LockConfig",
                "LockDataZone"} \cup {"ReadConfigSlot", "GetPubkey", "GenKey", "ReadCounter",
                "LockSlot"} \cup {"ReadSlotBlock", "ReadSlotWord", "WriteConfig", "EmergencyReset",
                "ProvisionSlot", "Sign", "VerifyPin"} \cup {"SetPin", "UnblockPin", "SetPuk"}
<1> DEFINE a == line.args
           c == line.cmd
<1>1. CASE line \in [cmd : {"Info", "ReadConfig", "CloseSession", "GetPinStatus", "LockConfig",
                            "LockDataZone"}, args : {<<>>}]
  BY <1>1
<1>2. CASE line \in [cmd : {"ReadConfigSlot", "GetPubkey", "GenKey", "ReadCounter", "LockSlot"},
                     args : [1..1 -> Byte]]
  <2>1. a[1] \in Byte /\ a = <<a[1]>>
    BY <1>2, OneArg
  <2> QED BY <1>2, <2>1
<1>3. CASE line \in [cmd : {"ReadSlotBlock"}, args : Byte \X Byte]
  BY <1>3
<1>4. CASE line \in [cmd : {"ReadSlotWord"}, args : Byte \X Byte \X Byte]
  BY <1>4
<1>5. CASE line \in [cmd : {"WriteConfig", "EmergencyReset"}, args : [1..1 -> Bytes]]
  <2>1. a[1] \in Bytes /\ a = <<a[1]>>
    BY <1>5, OneArg
  <2> QED BY <1>5, <2>1
<1>6. CASE line \in [cmd : {"ProvisionSlot", "Sign"}, args : Byte \X Bytes]
  BY <1>6
<1>7. CASE line \in [cmd : {"VerifyPin"}, args : [1..1 -> Text]]
  <2>1. a[1] \in Text /\ a = <<a[1]>>
    BY <1>7, OneArg
  <2> QED BY <1>7, <2>1
<1>8. CASE line \in [cmd : {"SetPin", "UnblockPin", "SetPuk"}, args : Text \X Text \X Bytes]
  BY <1>8
<1> QED BY <1>1, <1>2, <1>3, <1>4, <1>5, <1>6, <1>7, <1>8 DEF CommandLines

(* How many requests a command line has. *)
Size(line, g) ==
  CASE line.cmd \in {"ReadConfig", "WriteConfig"} -> 4
    [] line.cmd = "LockConfig" -> IF Len(g) < 4 THEN 4 ELSE 5
    [] OTHER -> 1

Asks(x, line, g) ==
  /\ Len(x.value) = Size(line, g)
  /\ Len(g) < Size(line, g) => Carries(x.value[Len(g) + 1], Typed(line, g))

(* A command line with one request. *)
LEMMA SingleAsks ==
  ASSUME NEW line, NEW g \in Seq(Bytes), NEW c, NEW p, NEW l,
         line.cmd \notin {"ReadConfig", "WriteConfig", "LockConfig"},
         Carries(Request(c, p, l), line)
  PROVE  Asks(Single(c, p, l), line, g)
<1> DEFINE q == Request(c, p, l)
           x == Single(c, p, l)
<1>1. Size(line, g) = 1 /\ Typed(line, g) = line
  BY DEF Size, Typed
<1>2. x.value = <<q>>
  BY DEF Single, Ok
<1> HIDE DEF q, x
<1>3. Len(x.value) = 1 /\ x.value[1] = q
  BY <1>2
<1>4. Len(g) \in Nat
  OBVIOUS
<1>5. Len(g) < 1 => Len(g) + 1 = 1
  BY <1>4
<1>6. Len(g) < 1 => x.value[Len(g) + 1] = q
  BY <1>3, <1>5
<1>7. Asks(x, line, g)
  BY <1>1, <1>3, <1>6, Zenon DEF Asks, q
<1> QED BY <1>7 DEF x

(* check_pin, check_puk and parse_hex_array let only the right length      *)
(* through.                                                                *)
LEMMA ExactlyOk ==
  ASSUME NEW f, NEW n, NEW x, Exactly(f, n, x).ok
  PROVE  Len(f) = n /\ Exactly(f, n, x) = x
<1>1. Failure("BadArgument").ok = FALSE
  BY DEF Failure, Err
<1> QED BY <1>1, Zenon DEF Exactly

(* The command lines without a length check. *)
LEMMA PlainRequests ==
  ASSUME NEW line \in CommandLines, NEW g \in Seq(Bytes), main(line, g).ok,
         line.cmd \in {"Info", "CloseSession", "GetPinStatus", "LockDataZone", "ReadConfigSlot",
                       "GetPubkey", "GenKey", "ReadCounter", "ReadSlotBlock", "ReadSlotWord"}
  PROVE  Asks(main(line, g), line, g)
<1> DEFINE a == line.args
<1>0. line = [cmd |-> line.cmd, args |-> a]
  BY LineType
<1>1. CASE line.cmd \in {"Info", "CloseSession", "GetPinStatus"}
  <2>1. a = <<>>
    BY <1>1, LineType
  <2>2. PICK l : main(line, g) = Single(line.cmd, <<>>, l)
    BY <1>1 DEF main, cmd_info, cmd_close_session, cmd_pin_status
  <2>3. Carries(Request(line.cmd, <<>>, l), line)
    BY <1>0, <1>1, <2>1, NothingCarried
  <2> QED BY <1>1, <2>2, <2>3, SingleAsks
<1>2. CASE line.cmd = "LockDataZone"
  <2>1. a = <<>>
    BY <1>2, LineType
  <2>2. PICK l : main(line, g) = Single(line.cmd, LOCK_DATA_MAGIC, l)
    BY <1>2 DEF main, cmd_lock_data_dangerous
  <2>3. Carries(Request(line.cmd, LOCK_DATA_MAGIC, l), line)
    BY <1>0, <1>2, <2>1, LockDataCarried
  <2> QED BY <1>2, <2>2, <2>3, SingleAsks
<1>3. CASE line.cmd \in {"ReadConfigSlot", "GetPubkey", "GenKey", "ReadCounter"}
  <2>1. a[1] \in Byte /\ a = <<a[1]>>
    BY <1>3, LineType
  <2>2. PICK l : main(line, g) = Single(line.cmd, <<a[1]>>, l)
    <3>1. CASE line.cmd # "ReadCounter"
      BY <1>3, <3>1 DEF main, cmd_read_config_slot, cmd_get_pubkey, cmd_genkey
    <3>2. CASE line.cmd = "ReadCounter"
      <4>1. main(line, g) = cmd_read_counter(a[1])
        BY <3>2 DEF main
      <4>2. Failure("BadArgument").ok = FALSE
        BY DEF Failure, Err
      <4> QED BY <3>2, <4>1, <4>2 DEF cmd_read_counter
    <3> QED BY <3>1, <3>2
  <2>3. Carries(Request(line.cmd, <<a[1]>>, l), line)
    BY <1>0, <1>3, <2>1, SlotCarried
  <2> QED BY <1>3, <2>2, <2>3, SingleAsks
<1>4. CASE line.cmd = "ReadSlotBlock"
  <2>1. a[1] \in Byte /\ a[2] \in Byte /\ a = <<a[1], a[2]>>
    BY <1>4, LineType
  <2>2. PICK l : main(line, g) = Single(line.cmd, <<a[1], a[2]>>, l)
    BY <1>4 DEF main, cmd_read_slot_block
  <2>3. Carries(Request(line.cmd, <<a[1], a[2]>>, l), line)
    BY <1>0, <1>4, <2>1, AddressCarried, ZenonT(60)
  <2> QED BY <1>4, <2>2, <2>3, SingleAsks
<1>5. CASE line.cmd = "ReadSlotWord"
  <2>1. a[1] \in Byte /\ a[2] \in Byte /\ a[3] \in Byte /\ a = <<a[1], a[2], a[3]>>
    BY <1>5, LineType
  <2>2. PICK l : main(line, g) = Single(line.cmd, <<a[1], a[2], a[3]>>, l)
    BY <1>5 DEF main, cmd_read_slot_word
  <2>3. Carries(Request(line.cmd, <<a[1], a[2], a[3]>>, l), line)
    BY <1>0, <1>5, <2>1, AddressCarried
  <2> QED BY <1>5, <2>2, <2>3, SingleAsks
<1> QED BY <1>1, <1>2, <1>3, <1>4, <1>5

(* The command lines hsm-host checks the arguments of. *)
LEMMA CheckedRequests ==
  ASSUME NEW line \in CommandLines, NEW g \in Seq(Bytes), main(line, g).ok,
         line.cmd \in {"ProvisionSlot", "Sign", "VerifyPin", "SetPin", "UnblockPin", "SetPuk",
                       "EmergencyReset", "LockSlot"}
  PROVE  Asks(main(line, g), line, g)
<1> DEFINE a == line.args
<1>0. line = [cmd |-> line.cmd, args |-> a]
  BY LineType
<1>1. CASE line.cmd \in {"ProvisionSlot", "Sign"}
  <2>1. a[1] \in Byte /\ a[2] \in Bytes /\ a = <<a[1], a[2]>>
    BY <1>1, LineType
  <2>2. PICK l : main(line, g) = Exactly(a[2], 32, Single(line.cmd, <<a[1]>> \o a[2], l))
    BY <1>1 DEF main, cmd_provision_slot, cmd_sign
  <2>3. Len(a[2]) = 32 /\ main(line, g) = Single(line.cmd, <<a[1]>> \o a[2], l)
    <3>1. PICK n, x : n = 32 /\ x = Single(line.cmd, <<a[1]>> \o a[2], l)
                      /\ main(line, g) = Exactly(a[2], n, x)
      BY <2>2
    <3>2. Len(a[2]) = n /\ main(line, g) = x
      BY <3>1, ExactlyOk, ZenonT(60)
    <3> QED BY <3>1, <3>2
  <2>4. Carries(Request(line.cmd, <<a[1]>> \o a[2], l), line)
    BY <1>0, <1>1, <2>1, <2>3, BlockCarried, ZenonT(60)
  <2> QED BY <1>1, <2>3, <2>4, SingleAsks
<1>2. CASE line.cmd = "VerifyPin"
  <2>1. a[1] \in Text /\ a = <<a[1]>>
    BY <1>2, LineType
  <2>2. PICK l : main(line, g) = Exactly(a[1], 4, Single(line.cmd, a[1], l))
    BY <1>2 DEF main, cmd_verify_pin
  <2>3. Len(a[1]) = 4 /\ main(line, g) = Single(line.cmd, a[1], l)
    <3>1. PICK n, x : n = 4 /\ x = Single(line.cmd, a[1], l) /\ main(line, g) = Exactly(a[1], n, x)
      BY <2>2
    <3>2. Len(a[1]) = n /\ main(line, g) = x
      BY <3>1, ExactlyOk, ZenonT(60)
    <3> QED BY <3>1, <3>2
  <2>4. Carries(Request(line.cmd, a[1], l), line)
    BY <1>0, <1>2, <2>1, <2>3, PinCarried
  <2> QED BY <1>2, <2>3, <2>4, SingleAsks
<1>3. CASE line.cmd \in {"SetPin", "UnblockPin", "SetPuk"}
  <2>1. a[1] \in Text /\ a[2] \in Text /\ a[3] \in Bytes /\ a = <<a[1], a[2], a[3]>>
    BY <1>3, LineType
  <2>2. a[1] \in Bytes /\ a[2] \in Bytes
    BY <2>1, TextBytes
  <2> DEFINE p == a[1] \o a[2] \o a[3]
  <2>3. PICK l, m, n, k : /\ main(line, g) = Exactly(a[1], m, Exactly(a[2], n, Exactly(a[3], k,
                                            Single(line.cmd, p, l))))
                       /\ Lengths(line.cmd, m, n, k)
    BY <1>3, ZenonT(60) DEF main, cmd_set_pin, cmd_unblock_pin, cmd_set_puk, Lengths
  <2> HIDE DEF p
  <2>4. /\ Len(a[1]) = m /\ Len(a[2]) = n /\ Len(a[3]) = k
        /\ main(line, g) = Single(line.cmd, p, l)
    <3> DEFINE x == Single(line.cmd, p, l)
               y == Exactly(a[3], k, x)
               z == Exactly(a[2], n, y)
    <3>1. main(line, g) = Exactly(a[1], m, z)
      BY <2>3
    <3> HIDE DEF x, y, z
    <3>2. Len(a[1]) = m /\ main(line, g) = z
      BY <3>1, ExactlyOk
    <3>3. Len(a[2]) = n /\ main(line, g) = y
      BY <3>2, ExactlyOk DEF z
    <3>4. Len(a[3]) = k /\ main(line, g) = x
      BY <3>3, ExactlyOk DEF y
    <3> QED BY <3>2, <3>3, <3>4 DEF x
  <2>5. Lengths(line.cmd, Len(a[1]), Len(a[2]), Len(a[3]))
    BY <2>3, <2>4
  <2>6. Carries(Request(line.cmd, p, l), [cmd |-> line.cmd, args |-> <<a[1], a[2], a[3]>>])
    BY <2>1, <2>2, <2>5, CodesCarried DEF p
  <2>7. Carries(Request(line.cmd, p, l), line)
    BY <1>0, <2>1, <2>6
  <2> QED BY <1>3, <2>4, <2>7, SingleAsks
<1>4. CASE line.cmd = "EmergencyReset"
  <2>1. a[1] \in Bytes /\ a = <<a[1]>>
    BY <1>4, LineType
  <2>2. PICK l : main(line, g) = Exactly(a[1], 32, Single(line.cmd, EMERGENCY_RESET_MAGIC \o a[1], l))
    BY <1>4 DEF main, cmd_emergency_reset_dangerous
  <2>3. Len(a[1]) = 32 /\ main(line, g) = Single(line.cmd, EMERGENCY_RESET_MAGIC \o a[1], l)
    <3>1. PICK n, x : n = 32 /\ x = Single(line.cmd, EMERGENCY_RESET_MAGIC \o a[1], l)
                      /\ main(line, g) = Exactly(a[1], n, x)
      BY <2>2
    <3>2. Len(a[1]) = n /\ main(line, g) = x
      BY <3>1, ExactlyOk, ZenonT(60)
    <3> QED BY <3>1, <3>2
  <2>4. Carries(Request(line.cmd, EMERGENCY_RESET_MAGIC \o a[1], l), line)
    <3>1. EMERGENCY_RESET_MAGIC \in Bytes /\ Len(EMERGENCY_RESET_MAGIC) = 4
      BY Magics
    <3>2. Carries(Request(line.cmd, EMERGENCY_RESET_MAGIC \o a[1], l),
                  [cmd |-> line.cmd, args |-> <<a[1]>>])
      BY <1>4, <2>1, <2>3, <3>1, MagicCarried
    <3> QED BY <1>0, <2>1, <3>2
  <2> QED BY <1>4, <2>3, <2>4, SingleAsks
<1>5. CASE line.cmd = "LockSlot"
  <2>1. a[1] \in Byte /\ a = <<a[1]>>
    BY <1>5, LineType
  <2>2. PICK l : main(line, g) = Single(line.cmd, LOCK_SLOT_MAGIC \o <<a[1]>>, l)
    BY <1>5 DEF main, cmd_lock_slot_dangerous
  <2>3. Carries(Request(line.cmd, LOCK_SLOT_MAGIC \o <<a[1]>>, l), line)
    <3>0. PICK b \in Byte : b = a[1]
      BY <2>1
    <3>1. PICK d \in Bytes : d = <<a[1]>> /\ Len(d) = 1 /\ d[1] = a[1]
      <4>1. <<b>> \in Bytes /\ Len(<<b>>) = 1 /\ <<b>>[1] = b
        BY DEF Bytes
      <4> QED BY <3>0, <4>1
    <3>2. Carries(Request(line.cmd, LOCK_SLOT_MAGIC \o d, l), [cmd |-> line.cmd, args |-> <<d[1]>>])
      BY <1>5, <3>1, MagicCarried, Magics
    <3> QED BY <1>0, <2>1, <3>1, <3>2
  <2> QED BY <1>5, <2>2, <2>3, SingleAsks
<1> QED BY <1>1, <1>2, <1>3, <1>4, <1>5

(* The requests of read_full_config_zone. *)
LEMMA BlockRead ==
  ASSUME NEW n \in Nat, n < 4
  PROVE  Carries(read_full_config_zone[n + 1], [cmd |-> "ReadConfigZone", args |-> <<n>>])
<1>1. n \in Byte /\ n + 1 \in 1..4 /\ (n + 1) - 1 = n
  BY ByteRange
<1>2. read_full_config_zone[n + 1] = Request("ReadConfigZone", <<n>>, {32})
  BY <1>1 DEF read_full_config_zone
<1>3. Carries(Request("ReadConfigZone", <<n>>, {32}), [cmd |-> "ReadConfigZone", args |-> <<n>>])
  BY <1>1, SlotCarried
<1> QED BY <1>2, <1>3

RequestRecords == [cmd : {"ReadConfigZone", "LockConfigZone"}, payload : Bytes, lengths : SUBSET Nat]

(* read_full_config_zone is four requests. *)
LEMMA BlocksRead ==
  read_full_config_zone \in Seq(RequestRecords) /\ Len(read_full_config_zone) = 4
<1>1. ASSUME NEW b \in 1..4
      PROVE  Request("ReadConfigZone", <<b - 1>>, {32}) \in RequestRecords
  <2>1. b - 1 \in Byte
    BY ByteRange
  <2>2. <<b - 1>> \in Bytes
    BY <2>1 DEF Bytes
  <2> QED BY <2>2 DEF Request, RequestRecords
<1>2. read_full_config_zone \in [1..4 -> RequestRecords]
  BY <1>1 DEF read_full_config_zone
<1> QED BY <1>2, TableLen, Zenon

(* read-config asks for the four blocks in order. *)
LEMMA ReadConfigAsks ==
  ASSUME NEW line, line.cmd = "ReadConfig", NEW g \in Seq(Bytes)
  PROVE  Asks(main(line, g), line, g)
<1>1. main(line, g) = Ok(read_full_config_zone)
  BY DEF main, cmd_read_config
<1>2. main(line, g).value = read_full_config_zone
  BY <1>1 DEF Ok
<1>3. Size(line, g) = 4 /\ Typed(line, g) = [cmd |-> "ReadConfigZone", args |-> <<Len(g)>>]
  BY DEF Size, Typed
<1>4. Len(g) \in Nat
  OBVIOUS
<1> QED BY <1>2, <1>3, <1>4, BlocksRead, BlockRead DEF Asks

(* The four answers together are bytes. *)
LEMMA FourBlocks ==
  ASSUME NEW g \in Seq(Bytes), Len(g) >= 4
  PROVE  FullZone(g) \in Bytes
<1>1. g[1] \in Bytes /\ g[2] \in Bytes /\ g[3] \in Bytes /\ g[4] \in Bytes
  BY ElementOfSeq
<1>2. g[1] \o g[2] \in Bytes
  BY <1>1, Joined
<1>3. g[1] \o g[2] \o g[3] \in Bytes
  BY <1>1, <1>2, Joined
<1>4. g[1] \o g[2] \o g[3] \o g[4] \in Bytes
  BY <1>1, <1>3, Joined
<1> QED BY <1>4 DEF FullZone

(* lock-config asks for the four blocks and then for the lock, with the    *)
(* CRC of what it was answered.                                            *)
LEMMA LockConfigAsks ==
  ASSUME NEW line, line.cmd = "LockConfig", NEW g \in Seq(Bytes)
  PROVE  main(line, g).ok /\ Asks(main(line, g), line, g)
<1>0. Len(g) \in Nat
  OBVIOUS
<1>1. main(line, g) = cmd_lock_config_dangerous(g)
  BY DEF main
<1>2. CASE Len(g) < 4
  <2>1. main(line, g) = Ok(read_full_config_zone)
    BY <1>1, <1>2 DEF cmd_lock_config_dangerous
  <2>2. main(line, g).ok /\ main(line, g).value = read_full_config_zone
    BY <2>1 DEF Ok
  <2>3. Size(line, g) = 4 /\ Typed(line, g) = [cmd |-> "ReadConfigZone", args |-> <<Len(g)>>]
    BY <1>2 DEF Size, Typed
  <2> QED BY <1>0, <2>2, <2>3, BlocksRead, BlockRead DEF Asks
<1>3. CASE ~(Len(g) < 4)
  <2> DEFINE w == crc16(FullZone(g))
             d == crc16_to_bytes(w)
             q == Request("LockConfigZone", LOCK_CONFIG_MAGIC \o d, AnyLength)
             x == Append(read_full_config_zone, q)
  <2>1. main(line, g) = Ok(x)
    BY <1>1, <1>3 DEF cmd_lock_config_dangerous
  <2>2. main(line, g).ok /\ main(line, g).value = x
    BY <2>1 DEF Ok
  <2>3. Size(line, g) = 5 /\ Typed(line, g) = [cmd |-> "LockConfigZone", args |-> <<w>>]
    BY <1>3 DEF Size, Typed
  <2>4. FullZone(g) \in Bytes
    BY <1>0, <1>3, FourBlocks
  <2>5. w \in Word
    BY <2>4, CrcType DEF Bytes
  <2> HIDE DEF w
  <2>6. d \in Bytes /\ Len(d) = 2 /\ FromLowHigh(d[1], d[2]) = w
    BY <2>5, LowHighWord DEF crc16_to_bytes
  <2> HIDE DEF d
  <2>7. LOCK_CONFIG_MAGIC \in Bytes /\ Len(LOCK_CONFIG_MAGIC) = 4
    BY Magics
  <2>8. Carries(q, [cmd |-> "LockConfigZone", args |-> <<FromLowHigh(d[1], d[2])>>])
    BY <2>6, <2>7, MagicCarried, Zenon
  <2>9. Carries(q, Typed(line, g))
    BY <2>3, <2>6, <2>8
  <2>10. LOCK_CONFIG_MAGIC \o d \in Bytes
    BY <2>6, <2>7, Joined
  <2>11. q \in RequestRecords
    BY <2>10 DEF RequestRecords, Request, AnyLength, MAX_PAYLOAD_SIZE, HID_REPORT_SIZE, HEADER_SIZE
  <2> HIDE DEF q
  <2>12. Len(x) = 5 /\ x[5] = q
    <3>1. PICK r \in Seq(RequestRecords) : r = read_full_config_zone /\ Len(r) = 4
      BY BlocksRead
    <3>2. Len(Append(r, q)) = Len(r) + 1 /\ Append(r, q)[Len(r) + 1] = q
      BY <2>11, <3>1, AppendProperties, ZenonT(60)
    <3> QED BY <3>1, <3>2
  <2> HIDE DEF x
  <2>13. Len(g) < 5 => Len(g) + 1 = 5
    BY <1>0, <1>3
  <2> QED BY <2>2, <2>3, <2>9, <2>12, <2>13 DEF Asks
<1> QED BY <1>2, <1>3

(* A slice as a function of its index. *)
LEMMA BlockCut ==
  ASSUME NEW s \in Bytes, NEW m \in Nat, NEW n \in Nat, m + n <= Len(s)
  PROVE  SubSeq(s, m + 1, m + n) = [i \in 1..n |-> s[m + i]]
<1> DEFINE t == SubSeq(s, m + 1, m + n)
<1>1. t \in Bytes /\ Len(t) = n /\ \A i \in 1..n : t[i] = s[m + i]
  BY Cut
<1> HIDE DEF t
<1>2. t = [i \in 1..n |-> t[i]]
  BY <1>1 DEF Bytes
<1>3. t = [i \in 1..n |-> s[m + i]]
  BY <1>1, <1>2
<1> QED BY <1>3 DEF t

(* write-config sends the four blocks of its file in order. *)
LEMMA WriteConfigAsks ==
  ASSUME NEW line \in CommandLines, line.cmd = "WriteConfig", NEW g \in Seq(Bytes), main(line, g).ok
  PROVE  Asks(main(line, g), line, g)
<1> DEFINE blob == line.args[1]
           F(b) == Request("WriteConfigZone", <<b - 1>> \o SubSeq(blob, 32 * b - 31, 32 * b), AnyLength)
           f == [b \in 1..4 |-> F(b)]
<1>0. Len(g) \in Nat
  OBVIOUS
<1>1. blob \in Bytes
  BY LineType
<1>2. main(line, g) = Exactly(blob, 128, Ok(f))
  BY DEF main, cmd_write_config
<1>3. PICK h : h = 128
  OBVIOUS
<1>4. Len(blob) = h /\ main(line, g) = Ok(f)
  <2> HIDE DEF f, blob
  <2>1. main(line, g) = Exactly(blob, h, Ok(f))
    BY <1>2, <1>3
  <2> QED BY <2>1, ExactlyOk
<1>5. main(line, g).value = f
  BY <1>4 DEF Ok
<1>6. Len(f) = 4
  <2> HIDE DEF F
  <2> QED BY FunctionLen
<1>7. Size(line, g) = 4
  BY DEF Size
<1>8. ASSUME NEW n \in Nat, n < 4
      PROVE  Carries(f[n + 1],
                     [cmd |-> "WriteConfigZone", args |-> <<n, [i \in 1..32 |-> blob[32 * n + i]]>>])
  <2>1. n + 1 \in 1..4 /\ (n + 1) - 1 = n /\ n \in Byte
    BY <1>8, ByteRange
  <2>2. 32 * (n + 1) - 31 = 32 * n + 1 /\ 32 * (n + 1) = 32 * n + 32 /\ 32 * n \in Nat /\ 32 \in Nat
        /\ 32 * n + 32 <= h
    BY <1>3, <1>8
  <2> HIDE DEF blob
  <2> DEFINE d == SubSeq(blob, 32 * n + 1, 32 * n + 32)
  <2>3. f[n + 1] = Request("WriteConfigZone", <<n>> \o d, AnyLength)
    BY <2>1, <2>2
  <2>4. d \in Bytes /\ Len(d) = 32
    BY <1>1, <1>4, <2>2, Cut, ZenonT(60)
  <2>5. d = [i \in 1..32 |-> blob[32 * n + i]]
    BY <1>1, <1>4, <2>2, BlockCut
  <2> HIDE DEF d, f
  <2>6. Carries(f[n + 1], [cmd |-> "WriteConfigZone", args |-> <<n, d>>])
    BY <2>1, <2>3, <2>4, BlockCarried
  <2> QED BY <2>5, <2>6
<1>9. Typed(line, g) = [cmd |-> "WriteConfigZone",
                        args |-> <<Len(g), [i \in 1..32 |-> blob[32 * Len(g) + i]]>>]
  BY DEF Typed
<1> HIDE DEF f, blob
<1>10. Len(g) < 4 => Carries(f[Len(g) + 1], Typed(line, g))
  BY <1>0, <1>8, <1>9
<1> QED BY <1>5, <1>6, <1>7, <1>10 DEF Asks

(* Every request of every command line hsm-host accepts is parsed by the   *)
(* token into exactly the command and the arguments that were typed.       *)
THEOREM RequestsAsked ==
  ASSUME NEW line \in CommandLines, NEW g \in Seq(Bytes), main(line, g).ok
  PROVE  Asks(main(line, g), line, g)
BY LineType, PlainRequests, CheckedRequests, ReadConfigAsks, WriteConfigAsks, LockConfigAsks

(* Whether hsm-host refuses the arguments does not depend on the answers. *)
LEMMA SameVerdict ==
  ASSUME NEW line \in CommandLines, NEW g \in Seq(Bytes), NEW h \in Seq(Bytes), main(line, g).ok
  PROVE  main(line, h).ok
<1>1. CASE line.cmd = "LockConfig"
  BY <1>1, LockConfigAsks
<1>2. CASE line.cmd # "LockConfig"
  <2>1. main(line, h) = main(line, g)
    BY <1>2, LineType DEF main
  <2> QED BY <2>1
<1> QED BY <1>1, <1>2

(***************************************************************************)
(* Reports sent, meant and stray.                                          *)
(***************************************************************************)
(* to_report writes a whole report, read back as it was written.           *)
LEMMA ReportWhole ==
  ASSUME NEW op \in Byte, NEW p \in Bytes, Len(p) <= 125
  PROVE  /\ Whole(to_report(op, p).value)
         /\ FrameParse(to_report(op, p).value) = Ok([opcode |-> op, payload |-> p])
<1> DEFINE r == to_report(op, p)
<1>1. /\ r.value \in Bytes /\ Len(r.value) = 128
      /\ FrameParse(r.value) = Ok([opcode |-> op, payload |-> p])
  BY ReportRead
<1> HIDE DEF r
<1>2. Whole(r.value)
  BY <1>1, Zenon DEF Whole
<1> QED BY <1>1, <1>2, Zenon DEF r

(* What a report with opcode op and payload p is taken for. *)
Taken(op, p, w) ==
  \/ \E s \in Rejections : handle_one_request(w) = Err(s)
  \/ \E c \in Commands : \E a :
       /\ op = CommandOpcode[c] /\ ParsePayload(c, p) = Ok(a)
       /\ handle_one_request(w) = Ok([cmd |-> c, args |-> a])

(* A report is rejected, or taken for the command its opcode names with    *)
(* the arguments its parser finds.                                         *)
LEMMA TakenFor ==
  ASSUME NEW op \in Byte, NEW p \in Bytes, Len(p) <= 125, NEW w, w = to_report(op, p).value
  PROVE  /\ Whole(w)
         /\ Taken(op, p, w)
<1>1. Whole(w) /\ FrameParse(w) = Ok([opcode |-> op, payload |-> p])
  BY ReportWhole
<1>2. CASE \E s \in Rejections : handle_one_request(w) = Err(s)
  BY <1>1, <1>2, Zenon DEF Taken
<1>3. CASE ~\E s \in Rejections : handle_one_request(w) = Err(s)
  <2>0. PICK c \in Commands, r \in Bytes : \E a :
              /\ FrameParse(w) = Ok([opcode |-> CommandOpcode[c], payload |-> r])
              /\ ParsePayload(c, r) = Ok(a)
              /\ c \in TakesSlot => ~(a[1] > MAX_SLOT)
              /\ c = "ReadCounter" => ~(a[1] > 1)
              /\ handle_one_request(w) = Ok([cmd |-> c, args |-> a])
    BY <1>1, <1>3, Handled, Zenon
  <2>1. PICK a :
              /\ FrameParse(w) = Ok([opcode |-> CommandOpcode[c], payload |-> r])
              /\ ParsePayload(c, r) = Ok(a)
              /\ c \in TakesSlot => ~(a[1] > MAX_SLOT)
              /\ c = "ReadCounter" => ~(a[1] > 1)
              /\ handle_one_request(w) = Ok([cmd |-> c, args |-> a])
    BY <2>0, Zenon
  <2>2. op = CommandOpcode[c] /\ p = r
    <3>1. FrameParse(w).value.opcode = op /\ FrameParse(w).value.payload = p
      BY <1>1 DEF Ok
    <3>2. FrameParse(w).value.opcode = CommandOpcode[c] /\ FrameParse(w).value.payload = r
      BY <2>1 DEF Ok
    <3> QED BY <3>1, <3>2
  <2> QED BY <1>1, <2>1, <2>2, Zenon DEF Taken
<1> QED BY <1>2, <1>3

(* A report hsm-host sends is rejected, or taken for the call it carries. *)
LEMMA Sent ==
  ASSUME NEW q, NEW k, Carries(q, k), k = [cmd |-> k.cmd, args |-> k.args],
         NEW w, w = to_report(CommandOpcode[q.cmd], q.payload).value
  PROVE  /\ Whole(w)
         /\ \/ \E s \in Rejections : handle_one_request(w) = Err(s)
            \/ handle_one_request(w) = Ok(k)
<1>1. /\ q.cmd = k.cmd /\ q.cmd \in Commands /\ q.payload \in Bytes /\ Len(q.payload) <= 125
      /\ ParsePayload(q.cmd, q.payload) = Ok(k.args)
  BY DEF Carries
<1>2. CommandOpcode[q.cmd] \in Byte /\ CommandFrom(CommandOpcode[q.cmd]) = q.cmd
  BY <1>1, CommandRoundTrip
<1>3. /\ Whole(w)
      /\ \/ \E s \in Rejections : handle_one_request(w) = Err(s)
         \/ \E c \in Commands : \E a :
              /\ CommandOpcode[q.cmd] = CommandOpcode[c] /\ ParsePayload(c, q.payload) = Ok(a)
              /\ handle_one_request(w) = Ok([cmd |-> c, args |-> a])
  <2>1. Whole(w) /\ Taken(CommandOpcode[q.cmd], q.payload, w)
    BY <1>1, <1>2, TakenFor
  <2> QED BY <2>1 DEF Taken
<1>4. ASSUME NEW c \in Commands, NEW a,
             CommandOpcode[q.cmd] = CommandOpcode[c], ParsePayload(c, q.payload) = Ok(a),
             handle_one_request(w) = Ok([cmd |-> c, args |-> a])
      PROVE  handle_one_request(w) = Ok(k)
  <2>1. CommandFrom(CommandOpcode[c]) = c
    BY CommandRoundTrip
  <2>2. c = q.cmd
    BY <1>2, <1>4, <2>1
  <2>3. Ok(a).value = a /\ Ok(k.args).value = k.args
    BY DEF Ok
  <2>4. a = k.args
    BY <1>1, <1>4, <2>2, <2>3
  <2> QED BY <1>1, <1>4, <2>2, <2>4
<1> QED BY <1>3, <1>4, Zenon

(* Four bytes of text are not the data lock's magic number. *)
LEMMA TextHasNoMagic ==
  ASSUME NEW p \in Text, Len(p) = 4
  PROVE  Field(p, 0, MAGIC_LEN) # LOCK_DATA_MAGIC
<1>1. p \in Bytes /\ \A i \in 1..Len(p) : p[i] <= 244
  BY TextBytes
<1>2. p[2] <= 244
  BY <1>1
<1>3. Field(p, 0, 4) = p
  <2>1. SubSeq(p, 1, Len(p)) = p
    BY <1>1, CutAll, Zenon
  <2> QED BY <2>1 DEF Field
<1>4. LOCK_DATA_MAGIC[2] = 254
  BY Magics
<1>5. p # LOCK_DATA_MAGIC
  BY <1>2, <1>4
<1> QED BY <1>3, <1>5 DEF MAGIC_LEN

(* A report that carries one command's payload under another command's     *)
(* opcode, for any command line and any opcode, reaches no irreversible    *)
(* method.                                                                 *)
THEOREM StraySent ==
  ASSUME NEW q, NEW k, Carries(q, k), NEW op \in Byte, op # CommandOpcode[q.cmd],
         NEW w, w = to_report(op, q.payload).value
  PROVE  /\ Whole(w)
         /\ handle_one_request(w).ok => handle_one_request(w).value.cmd \notin Irreversible
<1>1. /\ q.cmd \in Commands /\ q.payload \in Bytes /\ Len(q.payload) <= 125 /\ Harmless(q)
  BY DEF Carries
<1>2. /\ Whole(w)
      /\ \/ \E s \in Rejections : handle_one_request(w) = Err(s)
         \/ \E c \in Commands : \E a :
              /\ op = CommandOpcode[c] /\ ParsePayload(c, q.payload) = Ok(a)
              /\ handle_one_request(w) = Ok([cmd |-> c, args |-> a])
  <2>1. Whole(w) /\ Taken(op, q.payload, w)
    BY <1>1, TakenFor
  <2> QED BY <2>1 DEF Taken
<1>3. ASSUME NEW c \in Commands, NEW a, op = CommandOpcode[c], ParsePayload(c, q.payload) = Ok(a),
             c \in Irreversible
      PROVE  FALSE
  <2>1. c # q.cmd
    BY <1>3
  <2> DEFINE p == q.payload
  <2> HIDE DEF p
  <2>2. CASE c = "LockConfigZone"
    <3>1. require_magic(p, LOCK_CONFIG_MAGIC, MAGIC_LEN + 2, <<FromLowHigh(p[5], p[6])>>) = Ok(a)
      BY <1>3, <2>2 DEF ParsePayload, parse_lock_config_zone, p
    <3>2. Len(p) = MAGIC_LEN + 2
      BY <3>1, MagicRequired
    <3> QED BY <1>1, <2>1, <2>2, <3>2 DEF Harmless, MAGIC_LEN, p
  <2>3. CASE c = "LockDataZone"
    <3>1. require_magic(p, LOCK_DATA_MAGIC, MAGIC_LEN, <<>>) = Ok(a)
      BY <1>3, <2>3 DEF ParsePayload, parse_lock_data_zone, p
    <3>2. Len(p) = MAGIC_LEN /\ Field(p, 0, MAGIC_LEN) = LOCK_DATA_MAGIC
      BY <3>1, MagicRequired
    <3>3. Len(p) = 4
      BY <3>2 DEF MAGIC_LEN
    <3>4. p \in Text
      BY <1>1, <2>1, <2>3, <3>3 DEF Harmless, p
    <3> QED BY <3>2, <3>3, <3>4, TextHasNoMagic
  <2>4. CASE c = "LockSlot"
    <3>1. require_magic(p, LOCK_SLOT_MAGIC, MAGIC_LEN + 1, <<p[5]>>) = Ok(a)
      BY <1>3, <2>4 DEF ParsePayload, parse_lock_slot, p
    <3>2. Len(p) = MAGIC_LEN + 1
      BY <3>1, MagicRequired
    <3> QED BY <1>1, <2>1, <2>4, <3>2 DEF Harmless, MAGIC_LEN, p
  <2>5. CASE c = "EmergencyReset"
    <3>1. require_magic(p, EMERGENCY_RESET_MAGIC, MAGIC_LEN + IO_KEY_LEN,
                        <<Field(p, MAGIC_LEN, IO_KEY_LEN)>>) = Ok(a)
      BY <1>3, <2>5 DEF ParsePayload, parse_emergency_reset, p
    <3>2. Len(p) = MAGIC_LEN + IO_KEY_LEN
      BY <3>1, MagicRequired
    <3> QED BY <1>1, <2>1, <2>5, <3>2 DEF Harmless, MAGIC_LEN, IO_KEY_LEN, p
  <2> QED BY <1>3, <2>2, <2>3, <2>4, <2>5 DEF Irreversible
<1>4. \A s : Err(s).ok = FALSE
  BY DEF Err
<1>5. \A c, a : Ok([cmd |-> c, args |-> a]).value.cmd = c
  BY DEF Ok
<1>6. CASE \E s \in Rejections : handle_one_request(w) = Err(s)
  BY <1>2, <1>4, <1>6
<1>7. CASE \E c \in Commands : \E a :
              /\ op = CommandOpcode[c] /\ ParsePayload(c, q.payload) = Ok(a)
              /\ handle_one_request(w) = Ok([cmd |-> c, args |-> a])
  <2>1. PICK c, a :
              /\ c \in Commands
              /\ op = CommandOpcode[c] /\ ParsePayload(c, q.payload) = Ok(a)
              /\ handle_one_request(w) = Ok([cmd |-> c, args |-> a])
    BY <1>7
  <2>2. c \notin Irreversible
    BY <1>3, <2>1
  <2>3. handle_one_request(w).value.cmd = c
    BY <1>5, <2>1
  <2> QED BY <1>2, <2>2, <2>3
<1> QED BY <1>2, <1>6, <1>7

(***************************************************************************)
(* Replies of the chip, as the driver reports them.                        *)
(***************************************************************************)
(* What the driver makes of the bytes it reads after the command x. *)
Seen(x, sent) ==
  IF x.want = 0 THEN execute_command_status(sent) ELSE execute_command(sent, x.want)

(* A reply of one byte. *)
LEMMA OneByteReply ==
  ASSUME NEW r \in Bytes, Len(r) = 1
  PROVE  r[1] \in Byte /\ r = <<r[1]>>
<1>1. r[1] \in Byte
  BY DEF Bytes
<1>2. DOMAIN r = 1..1 /\ DOMAIN <<r[1]>> = 1..1
  BY DEF Bytes
<1>3. r = [i \in 1..1 |-> r[i]]
  BY <1>2 DEF Bytes
<1> QED BY <1>1, <1>2, <1>3

(* The driver's own errors. *)
LEMMA FailureKinds ==
  ASSUME NEW k \in DOMAIN SubCodes
  PROVE  IsError([kind |-> k]) /\ Failure(k) = Err([kind |-> k])
BY DEF IsError, Failure

(* What the history records of a status. *)
LEMMA PolicyOf ==
  ASSUME NEW s \in Byte
  PROVE  /\ s = 0 => Policy(<<s>>) = NoFault
         /\ s # 0 => Policy(<<s>>) = from_status_byte(s) /\ IsError(from_status_byte(s))
<1>1. Len(<<s>>) = 1 /\ <<s>>[1] = s /\ (<<s>> = <<0>> <=> s = 0)
  OBVIOUS
<1>2. s # 0 => IsError(from_status_byte(s))
  BY DEF IsError
<1> QED BY <1>1, <1>2 DEF Policy

(* The command succeeds, or the chip refuses it with what Policy names, or *)
(* it answers with a status where data was due.                            *)
LEMMA ServedReply ==
  ASSUME NEW x, Fits(x), NEW e, Serves(x, e)
  PROVE  LET r == Seen(x, Framed(e.reply))
             f == Policy(e.reply)
         IN  \/ r = Err(f) /\ IsError(f)
             \/ f = NoFault /\ r = Err([kind |-> "MalformedResponse"])
             \/ /\ f = NoFault /\ r.ok = TRUE /\ r.value \in Bytes /\ Len(r.value) = x.want
                /\ x.want # 0 => r.value = e.reply
<1> DEFINE p == e.reply
           r == Seen(x, Framed(p))
           f == Policy(p)
<1>0. p \in Bytes /\ x.want \in {0, 4, 32, 64} /\ (Len(p) = 1 \/ (Len(p) = x.want /\ x.want # 0))
  BY DEF Serves, Fits
<1> HIDE DEF p
<1>1. ASSUME NEW s \in Byte, p = <<s>>
      PROVE  \/ r = Err(f) /\ IsError(f)
             \/ f = NoFault /\ r = Err([kind |-> "MalformedResponse"])
             \/ f = NoFault /\ r = Ok(<<>>) /\ x.want = 0
  <2>1. /\ s = 0 => f = NoFault
        /\ s # 0 => f = from_status_byte(s) /\ IsError(from_status_byte(s))
    BY <1>1, PolicyOf
  <2>2. CASE x.want = 0
    <3>1. r = IF s = 0 THEN Ok(<<>>) ELSE Err(from_status_byte(s))
      BY <1>1, <2>2, StatusToStatus DEF Seen
    <3> QED BY <2>1, <2>2, <3>1
  <2>3. CASE x.want # 0
    <3>1. x.want \in {4, 32, 64}
      BY <1>0, <2>3
    <3>2. r = IF s = 0 THEN Failure("MalformedResponse") ELSE Err(from_status_byte(s))
      BY <1>1, <2>3, <3>1, StatusToData, Zenon DEF Seen
    <3> QED BY <2>1, <3>2 DEF Failure
  <2> QED BY <2>2, <2>3
<1>2. CASE Len(p) = 1
  <2>1. p[1] \in Byte /\ p = <<p[1]>>
    BY <1>0, <1>2, OneByteReply
  <2>2. \/ r = Err(f) /\ IsError(f)
        \/ f = NoFault /\ r = Err([kind |-> "MalformedResponse"])
        \/ f = NoFault /\ r = Ok(<<>>) /\ x.want = 0
    BY <1>1, <2>1
  <2>3. Ok(<<>>).ok = TRUE /\ Ok(<<>>).value = <<>> /\ <<>> \in Bytes /\ Len(<<>>) = 0
    BY SmallBytes DEF Ok
  <2> HIDE DEF r, f
  <2>4. \/ r = Err(f) /\ IsError(f)
        \/ f = NoFault /\ r = Err([kind |-> "MalformedResponse"])
        \/ /\ f = NoFault /\ r.ok = TRUE /\ r.value \in Bytes /\ Len(r.value) = x.want
           /\ x.want # 0 => r.value = p
    BY <2>2, <2>3
  <2> QED BY <2>4 DEF r, f, p
<1>3. CASE ~(Len(p) = 1)
  <2>1. x.want \in {4, 32, 64} /\ Len(p) = x.want /\ x.want # 0
    BY <1>0, <1>3
  <2>2. r = Ok(p)
    BY <1>0, <2>1, DataRead DEF Seen
  <2>3. f = NoFault
    BY <1>3 DEF Policy
  <2>4. Ok(p).ok = TRUE /\ Ok(p).value = p
    BY DEF Ok
  <2> HIDE DEF r, f
  <2>5. /\ f = NoFault /\ r.ok = TRUE /\ r.value \in Bytes /\ Len(r.value) = x.want
        /\ r.value = p
    BY <1>0, <2>1, <2>2, <2>3, <2>4
  <2> QED BY <2>5 DEF r, f, p
<1> QED BY <1>2, <1>3

(* A status other than 0 is reported by its name. *)
LEMMA RefusedReply ==
  ASSUME NEW x, Fits(x), NEW s \in Byte, s # 0
  PROVE  /\ Seen(x, Framed(<<s>>)) = Err(from_status_byte(s))
         /\ IsError(from_status_byte(s))
<1>1. x.want \in {0, 4, 32, 64}
  BY DEF Fits
<1>2. CASE x.want = 0
  BY <1>2, StatusToStatus, PolicyOf DEF Seen
<1>3. CASE x.want # 0
  <2>1. x.want \in {4, 32, 64}
    BY <1>1, <1>3
  <2> QED BY <1>3, <2>1, StatusToData, PolicyOf DEF Seen
<1> QED BY <1>2, <1>3

(* A reply to any command of any method, data or status, with one bit      *)
(* flipped anywhere in its frame is BadCrc or MalformedResponse to the     *)
(* driver.                                                                 *)
THEOREM FlippedReply ==
  ASSUME NEW x, Fits(x), NEW e, Serves(x, e), NEW where \in Noise,
         FlipIn(Framed(e.reply), where) # Framed(e.reply)
  PROVE  Seen(x, FlipIn(Framed(e.reply), where)) \in Refused
<1> DEFINE p == e.reply
           f == Framed(p)
<1>0. p \in Bytes /\ x.want \in {0, 4, 32, 64} /\ (Len(p) = 1 \/ (Len(p) = x.want /\ x.want # 0))
  BY DEF Serves, Fits
<1> HIDE DEF p
<1>1. PICK n \in Nat : n = Len(p)
  BY <1>0 DEF Bytes
<1>2. n >= 1 /\ n <= 252
  BY <1>0, <1>1
<1>3. f \in Bytes /\ Len(f) = n + 3
  BY <1>0, <1>1, <1>2, FramedShape
<1>4. PICK i \in 1..(n + 3), k \in 0..7 : FlipIn(f, where) = [f EXCEPT ![i] = Flip(@, k)]
  <2>1. FlipIn(f, where) # f
    BY DEF p
  <2>2. \E i \in 1..Len(f), k \in 0..7 : FlipIn(f, where) = [f EXCEPT ![i] = Flip(@, k)]
    BY <1>3, <2>1, FlipPlace, Zenon
  <2> QED BY <1>3, <2>2
<1>5. CASE x.want = 0
  <2>1. p[1] \in Byte /\ p = <<p[1]>> /\ n = 1
    BY <1>0, <1>1, <1>5, OneByteReply
  <2>2. i \in 1..4
    BY <2>1
  <2>3. execute_command_status([Framed(<<p[1]>>) EXCEPT ![i] = Flip(@, k)]) \in Refused
    BY <2>1, <2>2, FlippedStatus
  <2> QED BY <1>4, <1>5, <2>1, <2>3 DEF Seen, p
<1>6. CASE x.want # 0
  <2>1. x.want \in {4, 32, 64} /\ (n = 1 \/ n = x.want)
    BY <1>0, <1>1, <1>6
  <2>2. execute_command([Framed(p) EXCEPT ![i] = Flip(@, k)], x.want) \in Refused
    <3>1. Due(p, n, x.want)
      BY <1>1, <2>1 DEF Due
    <3> QED BY <1>0, <3>1, FlippedData, ZenonT(60)
  <2> QED BY <1>4, <1>6, <2>2 DEF Seen, p
<1> QED BY <1>5, <1>6

(***************************************************************************)
(* Results of the methods.                                                 *)
(***************************************************************************)
(* Four blocks of n bytes in a row. *)
Zoned(n, a, b, c, d, w) ==
  /\ w \in Bytes /\ Len(w) = n + n + n + n
  /\ Field(w, 0, n) = a /\ Field(w, n, n) = b
  /\ Field(w, n + n, n) = c /\ Field(w, n + n + n, n) = d

(* A field of the first of two joined buffers. *)
LEMMA FieldLeft ==
  ASSUME NEW v \in Bytes, NEW d \in Bytes, NEW i \in Nat, NEW n \in Nat, i + n <= Len(v)
  PROVE  Field(v \o d, i, n) = Field(v, i, n)
BY CutLeft DEF Field

(* Four blocks joined: each is found where it was put. *)
LEMMA FourFields ==
  ASSUME NEW n \in Nat, NEW a \in Bytes, NEW b \in Bytes, NEW c \in Bytes, NEW d \in Bytes,
         Len(a) = n, Len(b) = n, Len(c) = n, Len(d) = n
  PROVE  Zoned(n, a, b, c, d, a \o b \o c \o d)
<1>1. PICK v : v = a \o b \o c
  OBVIOUS
<1>2. Laid(a, b, c, v)
  BY <1>1, ThreeFields
<1>3. /\ v \in Bytes /\ Len(v) = n + n + n
      /\ Field(v, 0, n) = a /\ Field(v, n, n) = b /\ Field(v, n + n, n) = c
  BY <1>2 DEF Laid
<1>4. v \o d \in Bytes /\ Len(v \o d) = Len(v) + Len(d) /\ Field(v \o d, Len(v), Len(d)) = d
  BY <1>3, TwoFields
<1>5. 0 \in Nat /\ 0 + n <= Len(v) /\ n + n <= Len(v) /\ n + n \in Nat /\ n + n + n <= Len(v)
  BY <1>3
<1>6. Field(v \o d, 0, n) = Field(v, 0, n)
  BY <1>3, <1>5, FieldLeft
<1>7. Field(v \o d, n, n) = Field(v, n, n)
  BY <1>3, <1>5, FieldLeft
<1>8. Field(v \o d, n + n, n) = Field(v, n + n, n)
  BY <1>3, <1>5, FieldLeft
<1>9. Zoned(n, a, b, c, d, v \o d)
  BY <1>3, <1>4, <1>6, <1>7, <1>8 DEF Zoned
<1> QED BY <1>1, <1>9

(* A zone read in four blocks and put together again. *)
LEMMA BlocksRejoin ==
  ASSUME NEW n \in Nat, NEW z \in Bytes, Len(z) = n + n + n + n
  PROVE  Field(z, 0, n) \o Field(z, n, n) \o Field(z, n + n, n) \o Field(z, n + n + n, n) = z
<1>0. z \in Seq(Byte)
  BY DEF Bytes
<1>1. SubSeq(z, 1, n) \o SubSeq(z, n + 1, n + n) = SubSeq(z, 1, n + n)
  <2>1. 1 \in 1..(Len(z) + 1) /\ n \in (1 - 1)..Len(z) /\ n + n \in n..Len(z)
    OBVIOUS
  <2> QED BY <1>0, <2>1, ConcatAdjacentSubSeq
<1>2. SubSeq(z, 1, n + n) \o SubSeq(z, n + n + 1, n + n + n) = SubSeq(z, 1, n + n + n)
  <2>1. 1 \in 1..(Len(z) + 1) /\ n + n \in (1 - 1)..Len(z) /\ n + n + n \in (n + n)..Len(z)
    OBVIOUS
  <2> QED BY <1>0, <2>1, ConcatAdjacentSubSeq
<1>3. SubSeq(z, 1, n + n + n) \o SubSeq(z, n + n + n + 1, n + n + n + n) = SubSeq(z, 1, n + n + n + n)
  <2>1. 1 \in 1..(Len(z) + 1) /\ n + n + n \in (1 - 1)..Len(z) /\ n + n + n + n \in (n + n + n)..Len(z)
    OBVIOUS
  <2> QED BY <1>0, <2>1, ConcatAdjacentSubSeq
<1>4. SubSeq(z, 1, n + n + n + n) = z
  BY CutAll
<1>5. Field(z, 0, n) = SubSeq(z, 1, n)
  BY DEF Field
<1> QED BY <1>1, <1>2, <1>3, <1>4, <1>5 DEF Field

(* The replies all so far have the lengths that were asked for. *)
WantsMet(k, s, all) ==
  all \in Seq(Bytes) /\ \A i \in 1..Len(all) : Len(all[i]) = ChipCommands(k, s)[i].want

(* Four replies of 32 bytes, from the m-th on. *)
BlocksAt(all, m) ==
  /\ all \in Seq(Bytes) /\ m \in Nat /\ m >= 1 /\ m + 3 <= Len(all)
  /\ \A i \in m..(m + 3) : Len(all[i]) = 32

(* Four replies of 32 bytes are a zone. *)
LEMMA ZoneRead ==
  ASSUME NEW all, NEW m, BlocksAt(all, m)
  PROVE  /\ Zoned(32, all[m], all[m + 1], all[m + 2], all[m + 3], ZoneFrom(all, m))
         /\ ZoneFrom(all, m) \in Bytes /\ Len(ZoneFrom(all, m)) = 128
<1> SUFFICES ASSUME all \in Seq(Bytes), m \in Nat, m >= 1, m + 3 <= Len(all),
                    \A i \in m..(m + 3) : Len(all[i]) = 32
             PROVE  /\ Zoned(32, all[m], all[m + 1], all[m + 2], all[m + 3], ZoneFrom(all, m))
                    /\ ZoneFrom(all, m) \in Bytes /\ Len(ZoneFrom(all, m)) = 128
  BY DEF BlocksAt
<1>1. Len(all) \in Nat
  OBVIOUS
<1>2. {m, m + 1, m + 2, m + 3} \subseteq 1..Len(all) /\ {m, m + 1, m + 2, m + 3} \subseteq m..(m + 3)
  BY <1>1
<1>3. all[m] \in Bytes /\ all[m + 1] \in Bytes /\ all[m + 2] \in Bytes /\ all[m + 3] \in Bytes
  BY <1>2, ElementOfSeq
<1>4. PICK n \in Nat : n = 32
  OBVIOUS
<1>5. Len(all[m]) = n /\ Len(all[m + 1]) = n /\ Len(all[m + 2]) = n /\ Len(all[m + 3]) = n
  BY <1>2, <1>4
<1>6. Zoned(n, all[m], all[m + 1], all[m + 2], all[m + 3], ZoneFrom(all, m))
  BY <1>3, <1>5, FourFields DEF ZoneFrom
<1>7. ZoneFrom(all, m) \in Bytes /\ Len(ZoneFrom(all, m)) = n + n + n + n
  BY <1>6 DEF Zoned
<1> QED BY <1>4, <1>6, <1>7

(* The serial number is bytes. *)
LEMMA SerialType ==
  ASSUME NEW z \in Bytes, NEW n, Len(z) = n, n = 128
  PROVE  cached_serial(z) \in Bytes
<1>1. 0 + 4 <= Len(z) /\ 8 + 5 <= Len(z)
  OBVIOUS
<1>2. 0 \in Nat /\ 4 \in Nat /\ 8 \in Nat /\ 5 \in Nat
  OBVIOUS
<1>3. \A i \in Nat, m \in Nat : i + m <= Len(z) => Field(z, i, m) \in Bytes
  BY FieldType
<1>4. Field(z, 0, 4) \in Bytes /\ Field(z, 8, 5) \in Bytes
  <2>1. Field(z, 0, 4) \in Bytes
    BY <1>1, <1>2, <1>3
  <2>2. Field(z, 8, 5) \in Bytes
    BY <1>1, <1>2, <1>3
  <2> QED BY <2>1, <2>2
<1> QED BY <1>4, Joined DEF cached_serial

(* The second to the fifth reply of info are the zone its serial is in. *)
LEMMA InfoZone ==
  ASSUME NEW k, k.cmd = "Info", NEW s, NEW all, WantsMet(k, s, all), Len(all) >= 5
  PROVE  cached_serial(ZoneFrom(all, 2)) \in Bytes
<1> DEFINE f == ChipCommands(k, s)
<1>1. \A b \in 1..4 : f[1 + b] = read_config_zone[b]
  BY InfoCommands
<1>2. \A b \in 1..4 : read_config_zone[b].want = 32
  BY ConfigReads
<1> HIDE DEF f
<1>3. all \in Seq(Bytes) /\ \A i \in 1..Len(all) : Len(all[i]) = f[i].want
  BY DEF WantsMet, f
<1>4. ASSUME NEW i \in 2..(2 + 3) PROVE Len(all[i]) = 32
  <2>1. i - 1 \in 1..4 /\ 1 + (i - 1) = i /\ i \in 1..Len(all)
    BY <1>3
  <2>2. f[1 + (i - 1)].want = 32
    BY <1>1, <1>2, <2>1
  <2> QED BY <1>3, <2>1, <2>2
<1>5. ZoneFrom(all, 2) \in Bytes /\ Len(ZoneFrom(all, 2)) = 128
  <2>1. 2 \in Nat /\ 2 >= 1 /\ 2 + 3 <= Len(all)
    BY <1>3
  <2>2. BlocksAt(all, 2)
    BY <1>3, <1>4, <2>1 DEF BlocksAt
  <2> QED BY <2>2, ZoneRead
<1>6. PICK n : n = 128 /\ Len(ZoneFrom(all, 2)) = n
  BY <1>5
<1> QED BY <1>5, <1>6, SerialType

(* info answers bytes. *)
LEMMA InfoResult ==
  ASSUME NEW k, k.cmd = "Info", NEW s \in Bytes, NEW all, WantsMet(k, s, all),
         Len(all) = Len(ChipCommands(k, s))
  PROVE  Result(k, all, s) \in Bytes
<1>1. Len(all) = (IF s = <<>> THEN 9 ELSE 5)
  BY InfoCommands, ZenonT(60)
<1>2. all \in Seq(Bytes)
  BY DEF WantsMet
<1>3. all[1] \in Bytes
  <2>1. 1 \in 1..Len(all)
    BY <1>1, <1>2
  <2> QED BY <1>2, <2>1, ElementOfSeq
<1> DEFINE own == IF s # <<>> THEN s ELSE cached_serial(ZoneFrom(all, 2))
           flag == IF is_provisioned(ZoneFrom(all, IF s # <<>> THEN 2 ELSE 6)) THEN <<1>> ELSE <<0>>
<1>4. own \in Bytes
  <2>1. s = <<>> => Len(all) >= 5
    BY <1>1
  <2> QED BY <2>1, InfoZone
<1>5. flag \in Bytes
  <2>1. 1 \in Byte /\ 0 \in Byte
    BY ByteRange
  <2>2. <<1>> \in Bytes /\ <<0>> \in Bytes
    BY <2>1 DEF Bytes
  <2> QED BY <2>2
<1>6. Result(k, all, s) = all[1] \o own \o flag
  BY Zenon DEF Result, info
<1> HIDE DEF own, flag
<1>7. all[1] \o own \in Bytes
  BY <1>3, <1>4, Joined
<1> QED BY <1>5, <1>6, <1>7, Joined

(* The four replies of read_config_zone. *)
ZoneIn(all, z) ==
  /\ all \in Seq(Bytes) /\ Len(all) = 4
  /\ Zoned(32, all[1], all[2], all[3], all[4], z)
  /\ z \in Bytes /\ Len(z) = 128

ZoneAsked(k, s, all) ==
  /\ k.cmd \in {"ReadConfigZone", "ReadConfigSlot"}
  /\ WantsMet(k, s, all) /\ Len(all) = Len(ChipCommands(k, s))

(* The replies of read_config_zone are the four blocks of a zone. *)
LEMMA ZoneReplies ==
  ASSUME NEW k, NEW s, NEW all, ZoneAsked(k, s, all)
  PROVE  ZoneIn(all, ZoneFrom(all, 1))
<1>0. /\ k.cmd \in {"ReadConfigZone", "ReadConfigSlot"}
      /\ WantsMet(k, s, all) /\ Len(all) = Len(ChipCommands(k, s))
  BY DEF ZoneAsked
<1>1. ChipCommands(k, s) = read_config_zone
  BY <1>0 DEF ChipCommands
<1>2. Len(read_config_zone) = 4 /\ \A b \in 1..4 : read_config_zone[b].want = 32
  BY ConfigReads
<1>3. all \in Seq(Bytes) /\ Len(all) = 4 /\ \A i \in 1..4 : Len(all[i]) = 32
  BY <1>0, <1>1, <1>2 DEF WantsMet
<1>4. 1 \in Nat /\ 1 >= 1 /\ 1 + 3 <= Len(all) /\ \A i \in 1..(1 + 3) : Len(all[i]) = 32
  BY <1>3
<1>5. /\ Zoned(32, all[1], all[1 + 1], all[1 + 2], all[1 + 3], ZoneFrom(all, 1))
      /\ ZoneFrom(all, 1) \in Bytes /\ Len(ZoneFrom(all, 1)) = 128
  <2>1. BlocksAt(all, 1)
    BY <1>3, <1>4 DEF BlocksAt
  <2> QED BY <2>1, ZoneRead
<1> QED BY <1>3, <1>5 DEF ZoneIn

(* read_config_zone's method answers the block that was asked for. *)
LEMMA ConfigResult ==
  ASSUME NEW k, k.cmd = "ReadConfigZone", NEW b \in Nat, b <= 3, k.args[1] = b, NEW s, NEW all,
         WantsMet(k, s, all), Len(all) = Len(ChipCommands(k, s))
  PROVE  Result(k, all, s) = all[b + 1] /\ all[b + 1] \in Bytes /\ Len(all[b + 1]) = 32
<1>1. /\ all \in Seq(Bytes) /\ Len(all) = 4
      /\ Zoned(32, all[1], all[2], all[3], all[4], ZoneFrom(all, 1))
  <2>0. ZoneAsked(k, s, all)
    BY DEF ZoneAsked
  <2>1. ZoneIn(all, ZoneFrom(all, 1))
    BY <2>0, ZoneReplies
  <2> QED BY <2>1 DEF ZoneIn
<1>2. Result(k, all, s) = Field(ZoneFrom(all, 1), 32 * b, 32)
  BY DEF Result
<1> DEFINE z == ZoneFrom(all, 1)
<1> HIDE DEF z
<1>3. Field(z, 0, 32) = all[1] /\ Field(z, 32, 32) = all[2] /\ Field(z, 64, 32) = all[3]
      /\ Field(z, 96, 32) = all[4]
  BY <1>1 DEF Zoned, z
<1>4. Result(k, all, s) = all[b + 1]
  <2>1. b = 0 \/ b = 1 \/ b = 2 \/ b = 3
    OBVIOUS
  <2> QED BY <1>2, <1>3, <2>1 DEF z
<1>5. b + 1 \in 1..Len(all)
  BY <1>1
<1>6. all[b + 1] \in Bytes
  BY <1>1, <1>5, ElementOfSeq
<1>7. Len(all[b + 1]) = 32
  <2>1. ChipCommands(k, s) = read_config_zone
    BY DEF ChipCommands
  <2>2. read_config_zone[b + 1].want = 32
    BY ConfigReads
  <2> QED BY <1>5, <2>1, <2>2 DEF WantsMet
<1> QED BY <1>4, <1>6, <1>7

(* read_config_slot answers bytes. *)
LEMMA SlotResult ==
  ASSUME NEW k, k.cmd = "ReadConfigSlot", NEW b \in Nat, b <= 15, k.args[1] = b, NEW s, NEW all,
         WantsMet(k, s, all), Len(all) = Len(ChipCommands(k, s))
  PROVE  Result(k, all, s) \in Bytes
<1>1. PICK z, n : z = ZoneFrom(all, 1) /\ z \in Bytes /\ Len(z) = n /\ n = 128
  <2>0. ZoneAsked(k, s, all)
    BY DEF ZoneAsked
  <2>1. ZoneIn(all, ZoneFrom(all, 1))
    BY <2>0, ZoneReplies
  <2>2. PICK z : z = ZoneFrom(all, 1)
    OBVIOUS
  <2>3. z \in Bytes /\ Len(z) = 128
    BY <2>1, <2>2 DEF ZoneIn
  <2> QED BY <2>2, <2>3, ZenonT(60)
<1>2. Result(k, all, s) = Field(z, 20 + 2 * b, 2) \o Field(z, 96 + 2 * b, 2)
  BY <1>1 DEF Result, read_config_slot
<1>3. 20 + 2 * b \in Nat /\ 96 + 2 * b \in Nat /\ 2 \in Nat
      /\ 20 + 2 * b + 2 <= Len(z) /\ 96 + 2 * b + 2 <= Len(z)
  <2>1. Len(z) = n /\ n = 128
    BY <1>1
  <2>2. 20 + 2 * b + 2 <= n /\ 96 + 2 * b + 2 <= n
    BY <2>1
  <2> QED BY <2>1, <2>2
<1>4. Field(z, 20 + 2 * b, 2) \in Bytes
  BY <1>1, <1>3, FieldType
<1>5. Field(z, 96 + 2 * b, 2) \in Bytes
  BY <1>1, <1>3, FieldType
<1> QED BY <1>2, <1>4, <1>5, Joined

(* read_counter answers bytes. *)
LEMMA CounterResult ==
  ASSUME NEW k, k.cmd = "ReadCounter", NEW s, NEW all,
         WantsMet(k, s, all), Len(all) = Len(ChipCommands(k, s))
  PROVE  Result(k, all, s) \in Bytes
<1>1. ChipCommands(k, s) = <<counter_read(k.args[1])>>
  BY DEF ChipCommands
<1>2. Len(ChipCommands(k, s)) = 1 /\ ChipCommands(k, s)[1].want = 4
  BY <1>1 DEF counter_read, ChipCommand
<1>3. all \in Seq(Bytes) /\ 1 \in 1..Len(all) /\ Len(all[1]) = 4
  <2>1. all \in Seq(Bytes) /\ \A i \in 1..Len(all) : Len(all[i]) = ChipCommands(k, s)[i].want
    BY Zenon DEF WantsMet
  <2>2. Len(all) = 1
    BY <1>2
  <2>3. 1 \in 1..Len(all)
    BY <2>2
  <2>4. Len(all[1]) = ChipCommands(k, s)[1].want
    BY <2>1, <2>3, Zenon
  <2> QED BY <1>2, <2>1, <2>3, <2>4
<1>4. PICK r : r = all[1]
  OBVIOUS
<1>5. r \in Bytes /\ Len(r) = 4
  BY <1>3, <1>4, ElementOfSeq
<1>6. {1, 2, 3, 4} \subseteq 1..Len(r)
  BY <1>5
<1>7. r[1] \in Byte /\ r[2] \in Byte /\ r[3] \in Byte /\ r[4] \in Byte
  BY <1>5, <1>6, ElementOfSeq DEF Bytes
<1>8. FromLowHigh(r[1], r[2]) \in Word /\ FromLowHigh(r[3], r[4]) \in Word
  BY <1>7, FromBytes
<1>9. LowHigh(FromLowHigh(r[1], r[2])) \in Bytes /\ LowHigh(FromLowHigh(r[3], r[4])) \in Bytes
  BY <1>8, LowHighWord
<1>10. Result(k, all, s) = LowHigh(FromLowHigh(r[1], r[2])) \o LowHigh(FromLowHigh(r[3], r[4]))
  BY <1>4 DEF Result, ToLeBytes, FromLeBytes
<1> QED BY <1>9, <1>10, Joined

(* The payload of an answer is made of bytes. *)
LEMMA ResultType ==
  ASSUME NEW k, WellFormed(k), k.cmd \notin CredentialCalls, NEW s \in Bytes, NEW all,
         WantsMet(k, s, all), Len(all) = Len(ChipCommands(k, s))
  PROVE  Result(k, all, s) \in Bytes
<1>0. all \in Seq(Bytes) /\ Len(all) >= 1
  BY MethodCommands DEF WantsMet
<1>1. CASE k.cmd = "Info"
  BY <1>1, InfoResult
<1>2. CASE k.cmd = "ReadConfigZone"
  <2>1. k.args[1] \in Nat /\ k.args[1] <= 3
    BY <1>2 DEF WellFormed
  <2> QED BY <1>2, <2>1, ConfigResult
<1>3. CASE k.cmd = "ReadConfigSlot"
  <2>1. k.args[1] \in Nat /\ k.args[1] <= 15
    BY <1>3 DEF WellFormed, TakesSlot
  <2> QED BY <1>3, <2>1, SlotResult
<1>4. CASE k.cmd = "ReadCounter"
  BY <1>4, CounterResult
<1>5. CASE k.cmd \in {"WriteConfigZone", "ProvisionSlot", "LockConfigZone", "LockDataZone", "LockSlot"}
  BY <1>5, SmallBytes DEF Result
<1>6. CASE k.cmd \notin {"Info", "ReadConfigZone", "ReadConfigSlot", "ReadCounter"} \cup
                        {"WriteConfigZone", "ProvisionSlot", "LockConfigZone", "LockDataZone", "LockSlot"}
  <2>1. Result(k, all, s) = all[1]
    BY <1>6 DEF Result
  <2>2. 1 \in 1..Len(all)
    BY <1>0
  <2> QED BY <1>0, <2>1, <2>2, ElementOfSeq
<1> QED BY <1>1, <1>2, <1>3, <1>4, <1>5, <1>6

(***************************************************************************)
(* The marks of the fault history, and the answers that carry them.        *)
(***************************************************************************)
Noisy == [kind |-> "Noise"]

(* What a method fails with is neither "no fault" nor noise. *)
LEMMA ErrorIsNoMark ==
  ASSUME NEW e, IsError(e)
  PROVE  e \notin {NoFault, Noisy}
<1>1. {"none", "Noise"} \cap ({"Chip"} \cup DOMAIN SubCodes \cup DOMAIN StatusOf) = {}
  BY DEF SubCodes, StatusOf
<1>2. e.kind \in {"Chip"} \cup DOMAIN SubCodes \cup DOMAIN StatusOf
  BY ChipErrorRoundTrip DEF IsError
<1>3. NoFault.kind = "none" /\ Noisy.kind = "Noise"
  BY DEF NoFault, Noisy
<1> QED BY <1>1, <1>2, <1>3, Zenon

(* Results and errors apart. *)
LEMMA ErrIsNotOk ==
  ASSUME NEW e, NEW v
  PROVE  Err(e).ok = FALSE /\ Err(e).error = e /\ Ok(v).ok = TRUE /\ Ok(v).value = v
BY DEF Err, Ok

(* A status the handler answers by itself is not a success. *)
LEMMA RejectionShown ==
  ASSUME NEW s \in Rejections
  PROVE  Whole(write_status(s, <<>>)) /\ receive(write_status(s, <<>>)).ok = FALSE
<1>1. /\ s \in DOMAIN ResponseStatus
      /\ s \notin {"Ok", "AteccChipError", "AteccCommunicationError"}
  BY DEF Rejections, ResponseStatus
<1>2. PICK p \in Bytes : p = <<>> /\ Len(p) <= 125
  BY SmallBytes
<1>3. Whole(write_status(s, p)) /\ receive(write_status(s, p)) = Err([kind |-> s, data |-> p])
  BY <1>1, <1>2, StatusRead
<1> QED BY <1>2, <1>3, ErrIsNotOk

(* A result of bytes is sent whole, and one that fits arrives. *)
LEMMA SuccessShown ==
  ASSUME NEW k, NEW p \in Bytes
  PROVE  /\ Whole(Respond(k, Ok(p)))
         /\ Len(p) <= 125 => receive(Respond(k, Ok(p))) = Ok(p)
<1>1. Respond(k, Ok(p)) = write_status("Ok", p)
  BY DEF Respond, Ok
<1>2. "Ok" \in DOMAIN ResponseStatus
  BY DEF ResponseStatus
<1> QED BY <1>1, <1>2, StatusWhole, StatusRead

(* What the driver makes of a flipped bit reaches the operator. *)
LEMMA RefusalShown ==
  ASSUME NEW k, NEW r \in Refused
  PROVE  Whole(Respond(k, r)) /\ receive(Respond(k, r)) = r /\ r.ok = FALSE
         /\ r.error.kind \in {"BadCrc", "MalformedResponse"}
<1>1. PICK m \in {"BadCrc", "MalformedResponse"} : r = Failure(m)
  BY DEF Refused
<1>2. m \in DOMAIN SubCodes /\ m \notin DOMAIN StatusOf /\ m # "Chip"
  BY DEF SubCodes, StatusOf
<1>3. IsError([kind |-> m]) /\ r = Err([kind |-> m])
  BY <1>1, <1>2, FailureKinds
<1>4. ShownAs(k.cmd, [kind |-> m]) = [kind |-> m]
  BY <1>2 DEF ShownAs
<1>5. PICK e : e = [kind |-> m]
  OBVIOUS
<1>6. IsError(e) /\ r = Err(e) /\ ShownAs(k.cmd, e) = e /\ e.kind = m
  BY <1>3, <1>4, <1>5
<1>7. r.ok = FALSE /\ r.error = e
  BY <1>6, ErrIsNotOk
<1>8. Whole(Respond(k, r)) /\ receive(Respond(k, r)) = r
  BY <1>6, ErrorShown
<1> QED BY <1>6, <1>7, <1>8

(* The chip of a new token. *)
LEMMA FactoryChip ==
  ASSUME NEW c, c \in {Blank(zone) : zone \in Zones}
  PROVE  ChipOk(c)
<1>1. PICK z \in Zones : c = Blank(z)
  OBVIOUS
<1>2. z \in Bytes /\ Len(z) = 128
  BY WirePathAssumption
<1>3. c = [zone |-> z, data |-> <<>>, keys |-> [slot \in Slots |-> 0]]
  BY <1>1 DEF Blank
<1>4. c.zone = z /\ c.data = <<>> /\ c.keys = [slot \in Slots |-> 0]
  BY <1>3
<1>5. DOMAIN <<>> = {}
  OBVIOUS
<1>6. [slot \in Slots |-> 0] \in [Slots -> 0..2]
  OBVIOUS
<1> QED BY <1>2, <1>3, <1>4, <1>5, <1>6 DEF ChipOk

(* What the credential methods and the touch wait return. *)
LEMMA CredentialResultsShown ==
  ASSUME NEW c, NEW r \in CredentialResults(c)
  PROVE  (\E p \in Bytes : r = Ok(p)) \/ (\E e : IsError(e) /\ r = Err(e))
<1>1. {"PinRequired", "TouchTimeout", "EmergencyResetNotPermitted", "PinIncorrect", "PinBlocked",
       "InvalidFormat", "PukIncorrect", "Bricked"} \subseteq DOMAIN StatusOf
  BY DEF StatusOf
<1>2. "BufferTooSmall" \in DOMAIN SubCodes
  BY DEF SubCodes
<1>3. \A s \in {9, 10, 11, 12}, n \in {8, 32, 64} : Sample(s, n) \in Bytes
  BY SampleType
<1>4. /\ <<>> \in Bytes /\ Len(<<>>) <= 125 /\ <<3, 5, 1>> \in Bytes /\ <<0, 2, 0>> \in Bytes
      /\ <<3, 5>> \in Bytes /\ Len(<<3, 5>>) <= 125
      /\ \A n \in {2, 4} : <<n>> \in Bytes /\ Len(<<n>>) <= 125
  BY DEF Bytes, Byte
<1>5. IsError([kind |-> "BufferTooSmall"])
  BY <1>2, FailureKinds
<1>6. \A k \in DOMAIN StatusOf, d \in {<<>>, <<3, 5>>, <<2>>, <<4>>} :
        IsError([kind |-> k, data |-> d])
  BY <1>4, Zenon DEF IsError
<1> HIDE DEF CredentialResults
<1>7. \/ r \in {Ok(Sample(9, 64)), Ok(<<3, 5, 1>>), Ok(<<0, 2, 0>>), Ok(Sample(10, 8)), Ok(<<>>),
               Ok(Sample(11, 8)), Ok(Sample(12, 32))}
      \/ r = Failure("BufferTooSmall")
      \/ \E k \in DOMAIN StatusOf, d \in {<<>>, <<3, 5>>, <<2>>, <<4>>} :
           r = Err([kind |-> k, data |-> d])
  BY <1>1 DEF CredentialResults
<1>8. CASE r \in {Ok(Sample(9, 64)), Ok(<<3, 5, 1>>), Ok(<<0, 2, 0>>), Ok(Sample(10, 8)), Ok(<<>>),
                  Ok(Sample(11, 8)), Ok(Sample(12, 32))}
  BY <1>3, <1>4, <1>8
<1>9. CASE r = Failure("BufferTooSmall")
  BY <1>5, <1>9 DEF Failure
<1>10. CASE \E k \in DOMAIN StatusOf, d \in {<<>>, <<3, 5>>, <<2>>, <<4>>} :
              r = Err([kind |-> k, data |-> d])
  BY <1>6, <1>10
<1> QED BY <1>7, <1>8, <1>9, <1>10

(***************************************************************************)
(* A command under way.                                                    *)
(***************************************************************************)
(* A call typed is a record; no command line is NoCall.                    *)
LEMMA TypedRecord ==
  ASSUME NEW line \in CommandLines, NEW g
  PROVE  /\ Typed(line, g) = [cmd |-> Typed(line, g).cmd, args |-> Typed(line, g).args]
         /\ line # NoCall
<1>1. line = [cmd |-> line.cmd, args |-> line.args]
  BY LineType, Zenon
<1>2. line.cmd # "none"
  BY LineType
<1>3. NoCall.cmd = "none"
  BY DEF NoCall
<1>4. line # NoCall
  BY <1>2, <1>3
<1>5. Typed(line, g) = [cmd |-> Typed(line, g).cmd, args |-> Typed(line, g).args]
  BY <1>1 DEF Typed
<1> QED BY <1>4, <1>5

(* The next request of a command line under way is the one typed. *)
LEMMA NextCarried ==
  ASSUME Progress
  PROVE  /\ Carries(NextRequest, Typed(ask, got)) /\ ask \in CommandLines /\ got \in Seq(Bytes)
         /\ Len(main(ask, got).value) = Size(ask, got) /\ Len(got) < Size(ask, got)
<1>1. ask \in CommandLines /\ got \in Seq(Bytes) /\ main(ask, got).ok
      /\ Len(got) < Len(main(ask, got).value)
  BY WirePathAssumption DEF Progress
<1>2. Asks(main(ask, got), ask, got)
  BY <1>1, RequestsAsked
<1>3. Len(main(ask, got).value) = Size(ask, got)
  BY <1>2 DEF Asks
<1> QED BY <1>1, <1>2, <1>3, Zenon DEF Asks, NextRequest

(* A report of hsm-host's, as the handler takes it. *)
LEMMA ReportTaken ==
  ASSUME Progress
  PROVE  /\ Whole(Report)
         /\ \/ \E s \in Rejections : handle_one_request(Report) = Err(s)
            \/ handle_one_request(Report) = Ok(Typed(ask, got))
<1>1. Carries(NextRequest, Typed(ask, got)) /\ ask \in CommandLines
  BY NextCarried
<1>2. Typed(ask, got) = [cmd |-> Typed(ask, got).cmd, args |-> Typed(ask, got).args]
  BY <1>1, TypedRecord, Zenon
<1> QED BY <1>1, <1>2, Sent, Zenon DEF Report

(* Once lock-config has its four answers they are the zone. *)
LEMMA ZoneAsRead ==
  ASSUME ChipOk(chip), ZoneKnown, ask.cmd = "LockConfig", got \in Seq(Bytes), Len(got) = 4
  PROVE  FullZone(got) = chip.zone
<1>1. \A b \in 1..4 : got[b] = Field(chip.zone, 32 * (b - 1), 32)
  BY DEF ZoneKnown, ConfigBlock
<1>2. PICK n \in Nat : n = 32
  OBVIOUS
<1>3. /\ got[1] = Field(chip.zone, 0, n) /\ got[2] = Field(chip.zone, n, n)
      /\ got[3] = Field(chip.zone, n + n, n) /\ got[4] = Field(chip.zone, n + n + n, n)
  <2>1. 32 * (1 - 1) = 0 /\ 32 * (2 - 1) = n /\ 32 * (3 - 1) = n + n /\ 32 * (4 - 1) = n + n + n
    BY <1>2
  <2>2. 1 \in 1..4 /\ 2 \in 1..4 /\ 3 \in 1..4 /\ 4 \in 1..4
    OBVIOUS
  <2>3. /\ got[1] = Field(chip.zone, 32 * (1 - 1), 32) /\ got[2] = Field(chip.zone, 32 * (2 - 1), 32)
        /\ got[3] = Field(chip.zone, 32 * (3 - 1), 32) /\ got[4] = Field(chip.zone, 32 * (4 - 1), 32)
    BY <1>1, <2>2, Zenon
  <2> QED BY <1>2, <2>1, <2>3, Zenon
<1>4. PICK z \in Bytes : z = chip.zone /\ Len(z) = n + n + n + n
  BY <1>2 DEF ChipOk
<1>5. Field(z, 0, n) \o Field(z, n, n) \o Field(z, n + n, n) \o Field(z, n + n + n, n) = z
  BY <1>4, BlocksRejoin, Zenon
<1> QED BY <1>3, <1>4, <1>5, Zenon DEF FullZone

(* What the operator typed, in the terms of CalledAsTyped. *)
LEMMA TypedIsCalled ==
  ASSUME ChipOk(chip), Progress, ZoneKnown
  PROVE  Typed(ask, got) =
        CASE ask.cmd = "ReadConfig"  -> [cmd |-> "ReadConfigZone", args |-> <<Len(got)>>]
          [] ask.cmd = "WriteConfig" ->
               [cmd |-> "WriteConfigZone",
                args |-> <<Len(got), [i \in 1..32 |-> ask.args[1][32 * Len(got) + i]]>>]
          [] ask.cmd = "LockConfig"  ->
               IF Len(got) < 4 THEN [cmd |-> "ReadConfigZone", args |-> <<Len(got)>>]
                 ELSE [cmd |-> "LockConfigZone", args |-> <<crc16(chip.zone)>>]
          [] OTHER -> ask
<1>1. got \in Seq(Bytes) /\ Len(got) < Size(ask, got) /\ Len(got) \in Nat
  BY NextCarried
<1>2. CASE ask.cmd = "LockConfig" /\ ~(Len(got) < 4)
  <2>0. Size(ask, got) = 5
    BY <1>2 DEF Size
  <2>1. Len(got) = 4
    <3>1. PICK n \in Nat : n = Len(got) /\ n < 5 /\ ~(n < 4)
      BY <1>1, <1>2, <2>0, Zenon
    <3> QED BY <3>1
  <2>2. FullZone(got) = chip.zone
    BY <1>1, <1>2, <2>1, ZoneAsRead
  <2> QED BY <1>2, <2>2 DEF Typed
<1>3. CASE ~(ask.cmd = "LockConfig" /\ ~(Len(got) < 4))
  BY <1>3, Zenon DEF Typed
<1> QED BY <1>2, <1>3

(* The chip hears the next command of the method and serves it. *)
LEMMA Heard ==
  ASSUME WireInv, ChipWork
  PROVE  /\ Fits(NextCommand)
         /\ Serves(NextCommand, ChipAnswer(Frame, chip))
         /\ call.cmd = "ReadConfigZone" =>
              /\ ChipAnswer(Frame, chip) = Says(ConfigBlock(Len(replies) + 1), chip)
              /\ NextCommand.want = 32
<1>1. WellFormed(call) /\ call.cmd \notin CredentialCalls /\ ChipOk(chip) /\ replies \in Seq(Bytes)
      /\ Len(replies) < Len(ChipCommands(call, serial))
  BY DEF WireInv, ServiceInv, ChipWork, RepliesOk
<1> DEFINE f == ChipCommands(call, serial)
           n == Len(replies) + 1
           x == NextCommand
<1>2. Len(f) \in Nat /\ \A i \in 1..Len(f) : IsCommand(f[i])
  BY <1>1, MethodCommands, Zenon
<1>3. n \in 1..Len(f)
  BY <1>1, <1>2
<1>4. x = f[n]
  BY DEF NextCommand
<1>5. IsCommand(x)
  BY <1>2, <1>3, <1>4, Zenon
<1>6. CASE TRUE
  <2> HIDE DEF x
  <2>1. Fits(x) /\ Serves(x, Does(x, chip))
    BY <1>1, <1>5, CommandServed, Zenon
  <2>2. ChipAnswer(Frame, chip) = Does(x, chip)
    <3>1. /\ x.op \in Byte /\ x.p1 \in Byte /\ x.p2 \in Word /\ x.data \in Bytes
          /\ Len(x.data) <= 155 /\ Len(x.data) \in Nat
      BY <2>1 DEF Fits, Bytes
    <3>2. ChipAnswer(build_command_frame(x.op, x.p1, x.p2, x.data).value, chip)
            = Execute(x.op, x.p1, x.p2, x.data, chip)
      BY <3>1, CommandHeard
    <3> QED BY <3>2, Zenon DEF Does, Frame, x
  <2>3. call.cmd = "ReadConfigZone" =>
          Does(x, chip) = Says(Field(chip.zone, 32 * (n - 1), 32), chip) /\ x.want = 32
    <3>1. HAVE call.cmd = "ReadConfigZone"
    <3>2. f = read_config_zone
      BY <3>1 DEF ChipCommands
    <3>3. n \in 1..4
      BY <1>3, <3>2, ConfigReads
    <3>4. x = read_config_zone[n]
      BY <1>4, <3>2, Zenon
    <3> HIDE DEF n
    <3> QED BY <1>1, <3>3, <3>4, ConfigReadServed, Zenon
  <2> QED BY <2>1, <2>2, <2>3, Zenon DEF ConfigBlock, x
<1> QED BY <1>6

(* Which method lock-config has under way. *)
LEMMA LockUnderWay ==
  ASSUME WireInv, ChipWork, ask.cmd = "LockConfig"
  PROVE  /\ ask # NoCall /\ Progress /\ ZoneKnown
         /\ Len(got) < 4 => call.cmd = "ReadConfigZone" /\ call.args[1] = Len(got)
         /\ ~(Len(got) < 4) => call.cmd = "LockConfigZone"
<1>1. ask # NoCall
  BY DEF NoCall
<1>2. Progress /\ ZoneKnown
  BY <1>1 DEF WireInv, ServiceInv, ChipWork
<1>3. call = IF Len(got) < 4 THEN [cmd |-> "ReadConfigZone", args |-> <<Len(got)>>]
               ELSE [cmd |-> "LockConfigZone", args |-> <<crc16(chip.zone)>>]
  BY <1>1 DEF WireInv, CalledAsTyped, ChipWork
<1> QED BY <1>1, <1>2, <1>3

(* The cached serial number is bytes. *)
LEMMA SerialCached ==
  ASSUME NEW all, WantsMet(call, serial, all), serial \in Bytes
  PROVE  Cached(all) \in Bytes
<1>1. CASE call.cmd = "Info" /\ serial = <<>> /\ Len(all) >= 5
  <2>1. cached_serial(ZoneFrom(all, 2)) \in Bytes
    BY <1>1, InfoZone, Zenon
  <2> QED BY <1>1, <2>1 DEF Cached
<1>2. CASE ~(call.cmd = "Info" /\ serial = <<>> /\ Len(all) >= 5)
  BY <1>2 DEF Cached
<1> QED BY <1>1, <1>2

(* A method that fails keeps the invariant: its error is on its way. *)
LEMMA MethodFails ==
  ASSUME WireInv, ChipWork, NEW e, Answered(Err(e)), serial' = Cached(replies),
         UNCHANGED <<ask, got, shown, call>>,
         ChipOk(chip'), call.cmd = "ReadConfigZone" => chip' = chip,
         \/ IsError(e) /\ fault' \in {e, NoFault}
         \/ Err(e) \in Refused /\ fault' = Noisy
  PROVE  WireInv'
<1>0. /\ ask = NoCall \/ ask \in Asked
      /\ serial \in Bytes /\ stage = "service" /\ call.cmd \notin CredentialCalls
      /\ ask # NoCall => Progress /\ call.cmd = NextRequest.cmd
      /\ RepliesOk(replies)
  BY DEF WireInv, ServiceInv, ChipWork
<1>1. wire' = Respond(call, Err(e)) /\ stage' = "answered"
  BY DEF Answered
<1>2. serial' \in Bytes
  <2>1. WantsMet(call, serial, replies)
    BY <1>0 DEF WantsMet, RepliesOk
  <2> QED BY <1>0, <2>1, SerialCached
<1>3. ask' # NoCall => Progress' /\ call'.cmd = NextRequest'.cmd
  BY <1>0 DEF Progress, NextRequest
<1>4. /\ Whole(wire') /\ receive(wire').ok = FALSE
      /\ fault' = Noisy => receive(wire') \in Refused
      /\ fault' \notin {NoFault, Noisy} => receive(wire') = Err(ShownAs(call'.cmd, fault'))
  <2>1. CASE IsError(e) /\ fault' \in {e, NoFault}
    <3>1. Whole(wire') /\ receive(wire') = Err(ShownAs(call.cmd, e))
      BY <1>1, <2>1, ErrorShown
    <3>2. e \notin {NoFault, Noisy} /\ NoFault # Noisy
      BY <2>1, ErrorIsNoMark DEF NoFault, Noisy
    <3> QED BY <2>1, <3>1, <3>2, ErrIsNotOk
  <2>2. CASE Err(e) \in Refused /\ fault' = Noisy
    BY <1>1, <2>2, RefusalShown
  <2> QED BY <2>1, <2>2
<1>5. ask'.cmd = "LockConfig" /\ Len(got') < 4 => ZoneKnown'
  BY LockUnderWay DEF ZoneKnown, ConfigBlock
<1>6. AnsweredInv'
  BY <1>3, <1>4, <1>5 DEF AnsweredInv, Noisy
<1> QED BY <1>0, <1>1, <1>2, <1>6
        DEF WireInv, AskingInv, SentInv, ServiceInv, CorruptionRefused, ErrorsNamed, CalledAsTyped, Ended

(* One good reply more, and the replies still match the commands. *)
LEMMA ReplyKept ==
  ASSUME WireInv, ChipWork, NEW v \in Bytes, Len(v) = NextCommand.want,
         call.cmd = "ReadConfigZone" => v = ConfigBlock(Len(replies) + 1)
  PROVE  /\ RepliesOk(Append(replies, v)) /\ WantsMet(call, serial, Append(replies, v))
         /\ Append(replies, v) \in Seq(Bytes)
         /\ Len(Append(replies, v)) = Len(replies) + 1 /\ Len(replies) \in Nat
<1>1. RepliesOk(replies) /\ replies \in Seq(Bytes)
  BY DEF WireInv, ServiceInv, ChipWork, RepliesOk
<1>2. PICK all : all = Append(replies, v)
  OBVIOUS
<1>3. /\ all \in Seq(Bytes) /\ Len(all) = Len(replies) + 1 /\ Len(replies) \in Nat
      /\ all[Len(replies) + 1] = v
      /\ \A i \in 1..Len(replies) : all[i] = replies[i]
  BY <1>1, <1>2, AppendProperties
<1>4. ASSUME NEW i \in 1..Len(all)
      PROVE  /\ Len(all[i]) = ChipCommands(call, serial)[i].want
             /\ call.cmd = "ReadConfigZone" => all[i] = ConfigBlock(i)
  <2>1. i \in 1..Len(replies) \/ i = Len(replies) + 1
    BY <1>3
  <2>2. CASE i \in 1..Len(replies)
    BY <1>1, <1>3, <2>2, Zenon DEF RepliesOk
  <2>3. CASE i = Len(replies) + 1
    BY <1>3, <2>3, Zenon DEF NextCommand
  <2> QED BY <2>1, <2>2, <2>3
<1>5. RepliesOk(all) /\ WantsMet(call, serial, all)
  BY <1>3, <1>4 DEF RepliesOk, WantsMet
<1> QED BY <1>2, <1>3, <1>5

(* A good reply that is not the method's last keeps the invariant. *)
LEMMA MethodGoesOn ==
  ASSUME WireInv, ChipWork, NEW v \in Bytes, Len(v) = NextCommand.want,
         call.cmd = "ReadConfigZone" => v = ConfigBlock(Len(replies) + 1) /\ chip' = chip,
         ChipOk(chip'), fault' = NoFault, replies' = Append(replies, v),
         Len(replies') # Len(ChipCommands(call, serial)),
         UNCHANGED <<ask, got, shown, call, wire, stage, serial>>
  PROVE  WireInv'
<1>0. /\ ask = NoCall \/ ask \in Asked
      /\ serial \in Bytes /\ stage = "service" /\ call.cmd \notin CredentialCalls /\ WellFormed(call)
      /\ ask # NoCall => Progress /\ ZoneKnown /\ call.cmd = NextRequest.cmd
      /\ Len(replies) < Len(ChipCommands(call, serial))
      /\ CalledAsTyped
  BY DEF WireInv, ServiceInv, ChipWork
<1>1. /\ RepliesOk(replies') /\ replies' \in Seq(Bytes)
      /\ Len(replies') = Len(replies) + 1 /\ Len(replies) \in Nat
  BY ReplyKept
<1>2. Len(ChipCommands(call, serial)) \in Nat
  BY <1>0, MethodCommands, Zenon
<1>3. Len(replies') < Len(ChipCommands(call, serial))
  BY <1>0, <1>1, <1>2
<1>4. ask.cmd = "LockConfig" => chip' = chip
  <2>1. SUFFICES ASSUME ask.cmd = "LockConfig", ~(Len(got) < 4) PROVE FALSE
    BY LockUnderWay
  <2>2. call.cmd = "LockConfigZone"
    BY <2>1, LockUnderWay
  <2>3. Len(ChipCommands(call, serial)) = 1
    BY <2>2 DEF ChipCommands
  <2> QED BY <1>1, <1>3, <2>3
<1>5. ask' # NoCall => Progress' /\ ZoneKnown' /\ call'.cmd = NextRequest'.cmd
  BY <1>0, <1>4 DEF Progress, ZoneKnown, ConfigBlock, NextRequest
<1>6. RepliesOk(replies)'
  <2>1. call.cmd = "ReadConfigZone" => chip' = chip
    OBVIOUS
  <2> QED BY <1>1, <2>1 DEF RepliesOk, ConfigBlock
<1>7. ServiceInv'
  BY <1>0, <1>3, <1>5, <1>6 DEF ServiceInv
<1>8. CalledAsTyped'
  BY <1>0, <1>4 DEF CalledAsTyped
<1> QED BY <1>0, <1>7, <1>8
        DEF WireInv, AskingInv, SentInv, AnsweredInv, CorruptionRefused, ErrorsNamed, Ended

(* Block b of the zone was asked for, and the replies are in. *)
BlockAsked(k, s, all, b) ==
  /\ b \in Nat /\ b <= 3 /\ k.cmd = "ReadConfigZone" /\ k.args[1] = b
  /\ WantsMet(k, s, all) /\ Len(all) = Len(ChipCommands(k, s))

(* The answer to read-config-zone, by the replies. *)
LEMMA BlockResult ==
  ASSUME NEW k, NEW s, NEW all, NEW b, BlockAsked(k, s, all, b)
  PROVE  Result(k, all, s) = all[b + 1] /\ Len(all[b + 1]) = 32
BY ConfigResult DEF BlockAsked

(* The same of the call under way. *)
LEMMA BlockReturned ==
  ASSUME NEW all, BlockAsked(call, serial, all, Len(got))
  PROVE  Result(call, all, serial) = all[Len(got) + 1] /\ Len(all[Len(got) + 1]) = 32
BY BlockResult, SMT

(* The method's last reply keeps the invariant: its result is sent whole,  *)
(* and lock-config's read of a block returns that block.                   *)
LEMMA MethodEnds ==
  ASSUME WireInv, ChipWork, NEW v \in Bytes, Len(v) = NextCommand.want,
         call.cmd = "ReadConfigZone" => v = ConfigBlock(Len(replies) + 1) /\ chip' = chip,
         ChipOk(chip'), fault' = NoFault,
         NEW all, all = Append(replies, v), Len(all) = Len(ChipCommands(call, serial)),
         Answered(Ok(Result(call, all, serial))), serial' = Cached(all),
         UNCHANGED <<ask, got, shown, call>>
  PROVE  WireInv'
<1>0. /\ ask = NoCall \/ ask \in Asked
      /\ serial \in Bytes /\ stage = "service" /\ call.cmd \notin CredentialCalls /\ WellFormed(call)
      /\ ask # NoCall => Progress /\ ZoneKnown /\ call.cmd = NextRequest.cmd
  BY DEF WireInv, ServiceInv, ChipWork
<1>1. RepliesOk(all) /\ WantsMet(call, serial, all)
  BY ReplyKept
<1>2. serial' \in Bytes
  BY <1>0, <1>1, SerialCached
<1>3. PICK p \in Bytes : p = Result(call, all, serial)
  BY <1>0, <1>1, ResultType
<1>4. wire' = Respond(call, Ok(p)) /\ stage' = "answered"
  BY <1>3 DEF Answered
<1>5. Whole(wire')
  BY <1>4, SuccessShown
<1>6. ask' # NoCall => Progress'
  BY <1>0 DEF Progress
<1>7. ask'.cmd = "LockConfig" /\ Len(got') < 4 =>
        ZoneKnown' /\ receive(wire').value = ConfigBlock(Len(got) + 1)'
  <2>1. SUFFICES ASSUME ask.cmd = "LockConfig", Len(got) < 4
                 PROVE  ZoneKnown' /\ receive(wire').value = ConfigBlock(Len(got) + 1)'
    OBVIOUS
  <2>2. /\ call.cmd = "ReadConfigZone" /\ call.args[1] = Len(got) /\ Progress /\ ZoneKnown
        /\ chip' = chip
    BY <2>1, LockUnderWay
  <2>3. Len(got) \in Nat /\ Len(got) <= 3
    <3>1. Len(got) \in Nat
      BY <2>2 DEF Progress
    <3> QED BY <2>1, <3>1
  <2>4. p = all[Len(got) + 1] /\ Len(p) = 32
    <3>1. BlockAsked(call, serial, all, Len(got))
      BY <1>1, <2>2, <2>3 DEF BlockAsked
    <3>2. Result(call, all, serial) = all[Len(got) + 1] /\ Len(all[Len(got) + 1]) = 32
      BY <3>1, BlockReturned, Zenon
    <3> QED BY <1>3, <3>2, Zenon
  <2>5. Len(got) + 1 \in 1..Len(all)
    <3>1. ChipCommands(call, serial) = read_config_zone
      BY <2>2 DEF ChipCommands
    <3>2. Len(all) = 4
      BY <3>1, ConfigReads
    <3> QED BY <2>3, <3>2
  <2>6. p = ConfigBlock(Len(got) + 1)
    BY <1>1, <2>2, <2>4, <2>5, Zenon DEF RepliesOk
  <2>7. Len(p) <= 125
    BY <2>4
  <2>8. receive(wire').value = p
    <3>1. receive(Respond(call, Ok(p))) = Ok(p)
      BY <2>7, SuccessShown, Zenon
    <3>2. Ok(p).value = p
      BY ErrIsNotOk
    <3> QED BY <1>4, <3>1, <3>2, Zenon
  <2> QED BY <2>2, <2>6, <2>8 DEF ZoneKnown, ConfigBlock
<1>8. AnsweredInv'
  <2>1. NoFault # [kind |-> "Noise"]
    BY DEF NoFault
  <2> QED BY <1>5, <1>6, <1>7, <2>1 DEF AnsweredInv
<1> QED BY <1>0, <1>2, <1>4, <1>8
        DEF WireInv, AskingInv, SentInv, ServiceInv, CorruptionRefused, ErrorsNamed, CalledAsTyped, Ended

(***************************************************************************)
(* The steps of a method.                                                  *)
(***************************************************************************)
(* What the driver can make of a reply, with what the history records. *)
Fails(r, f) ==
  \/ \E e : r = Err(e) /\ IsError(e) /\ f \in {e, NoFault}
  \/ \E e : r = Err(e) /\ r \in Refused /\ f = Noisy

Succeeds(r, f) == r.ok = TRUE /\ r.value \in Bytes /\ Len(r.value) = NextCommand.want /\ f = NoFault

(* A step of the method on whatever reply the driver has read. *)
LEMMA ReplyTaken ==
  ASSUME WireInv, ChipWork, NEW sent, NEW changed, Take(sent, changed),
         UNCHANGED <<ask, got, shown, call>>,
         ChipOk(changed), call.cmd = "ReadConfigZone" => changed = chip,
         NEW r, r = Seen(NextCommand, sent),
         \/ Fails(r, fault')
         \/ /\ Succeeds(r, fault')
            /\ call.cmd = "ReadConfigZone" => r.value = ConfigBlock(Len(replies) + 1)
  PROVE  WireInv'
<1> DEFINE all == Append(replies, r.value)
           last == Len(all) = Len(ChipCommands(call, serial))
<1>1. /\ chip' = changed
      /\ ~r.ok => Answered(r) /\ serial' = Cached(replies)
      /\ r.ok /\ ~last => replies' = all /\ UNCHANGED <<wire, stage, serial>>
      /\ r.ok /\ last => Answered(Ok(Result(call, all, serial))) /\ serial' = Cached(all)
  BY DEF Take, Seen
<1>2. ChipOk(chip') /\ (call.cmd = "ReadConfigZone" => chip' = chip)
  BY <1>1
<1>3. CASE Fails(r, fault')
  <2>1. PICK e : r = Err(e) /\ (\/ IsError(e) /\ fault' \in {e, NoFault}
                                \/ Err(e) \in Refused /\ fault' = Noisy)
    BY <1>3 DEF Fails
  <2>2. Answered(Err(e)) /\ serial' = Cached(replies)
    BY <1>1, <2>1, ErrIsNotOk
  <2> QED BY <1>2, <2>1, <2>2, MethodFails
<1>4. CASE Succeeds(r, fault')
           /\ (call.cmd = "ReadConfigZone" => r.value = ConfigBlock(Len(replies) + 1))
  <2>1. PICK v \in Bytes : v = r.value /\ Len(v) = NextCommand.want
    BY <1>4 DEF Succeeds
  <2>2. r.ok = TRUE /\ fault' = NoFault
    BY <1>4 DEF Succeeds
  <2>3. call.cmd = "ReadConfigZone" => v = ConfigBlock(Len(replies) + 1) /\ chip' = chip
    BY <1>2, <1>4, <2>1
  <2>4. CASE ~last
    BY <1>1, <1>2, <2>1, <2>2, <2>3, <2>4, MethodGoesOn
  <2>5. CASE last
    <3>1. PICK a : a = Append(replies, v)
      OBVIOUS
    <3>2. /\ Len(a) = Len(ChipCommands(call, serial))
          /\ Answered(Ok(Result(call, a, serial))) /\ serial' = Cached(a)
      BY <1>1, <2>1, <2>2, <2>5, <3>1
    <3> QED BY <1>2, <2>1, <2>2, <2>3, <3>1, <3>2, MethodEnds
  <2> QED BY <2>4, <2>5
<1> QED BY <1>3, <1>4

(* ChipReplies keeps the invariant. *)
LEMMA ChipRepliesStep ==
  ASSUME WireInv, ChipReplies
  PROVE  WireInv'
<1> DEFINE answer == ChipAnswer(Frame, chip)
           r == Seen(NextCommand, Framed(answer.reply))
<1>0. /\ ChipWork /\ Take(Framed(answer.reply), answer.chip) /\ fault' = Policy(answer.reply)
      /\ UNCHANGED <<ask, got, shown, call>>
  BY DEF ChipReplies
<1>1. /\ Fits(NextCommand) /\ Serves(NextCommand, answer)
      /\ call.cmd = "ReadConfigZone" =>
           answer = Says(ConfigBlock(Len(replies) + 1), chip) /\ NextCommand.want = 32
  BY <1>0, Heard
<1>2. ChipOk(answer.chip)
  BY <1>1 DEF Serves
<1>3. call.cmd = "ReadConfigZone" => answer.chip = chip /\ answer.reply = ConfigBlock(Len(replies) + 1)
  BY <1>1 DEF Says
<1> HIDE DEF answer
<1>4. \/ r = Err(Policy(answer.reply)) /\ IsError(Policy(answer.reply))
      \/ Policy(answer.reply) = NoFault /\ r = Err([kind |-> "MalformedResponse"])
      \/ /\ Policy(answer.reply) = NoFault /\ r.ok = TRUE /\ r.value \in Bytes
         /\ Len(r.value) = NextCommand.want
         /\ NextCommand.want # 0 => r.value = answer.reply
  BY <1>1, ServedReply, Zenon
<1> HIDE DEF r
<1>5. CASE r = Err(Policy(answer.reply)) /\ IsError(Policy(answer.reply))
  <2>1. Fails(r, fault')
    BY <1>0, <1>5 DEF Fails
  <2> QED BY <1>0, <1>2, <1>3, <2>1, ReplyTaken DEF r
<1>6. CASE Policy(answer.reply) = NoFault /\ r = Err([kind |-> "MalformedResponse"])
  <2>1. "MalformedResponse" \in DOMAIN SubCodes
    BY DEF SubCodes
  <2>2. IsError([kind |-> "MalformedResponse"])
    BY <2>1, FailureKinds
  <2>3. Fails(r, fault')
    BY <1>0, <1>6, <2>2 DEF Fails
  <2> QED BY <1>0, <1>2, <1>3, <2>3, ReplyTaken DEF r
<1>7. CASE /\ Policy(answer.reply) = NoFault /\ r.ok = TRUE /\ r.value \in Bytes
           /\ Len(r.value) = NextCommand.want
           /\ NextCommand.want # 0 => r.value = answer.reply
  <2>1. Succeeds(r, fault')
    BY <1>0, <1>7 DEF Succeeds
  <2>2. call.cmd = "ReadConfigZone" => r.value = ConfigBlock(Len(replies) + 1)
    BY <1>1, <1>3, <1>7
  <2> QED BY <1>0, <1>2, <1>3, <2>1, <2>2, ReplyTaken DEF r
<1> QED BY <1>4, <1>5, <1>6, <1>7

(* ChipRefuses keeps the invariant. *)
LEMMA ChipRefusesStep ==
  ASSUME WireInv, NEW status \in ChipRefusals, ChipRefuses(status)
  PROVE  WireInv'
<1>0. /\ ChipWork /\ Take(Framed(<<status>>), chip) /\ fault' = from_status_byte(status)
      /\ UNCHANGED <<ask, got, shown, call>> /\ ChipOk(chip)
  BY DEF ChipRefuses, WireInv
<1>1. status \in Byte /\ status # 0 /\ Fits(NextCommand)
  BY <1>0, Heard, WirePathAssumption
<1>2. PICK r : r = Seen(NextCommand, Framed(<<status>>))
  OBVIOUS
<1>3. r = Err(from_status_byte(status)) /\ IsError(from_status_byte(status))
  BY <1>1, <1>2, RefusedReply
<1>4. Fails(r, fault')
  BY <1>0, <1>3 DEF Fails
<1> QED BY <1>0, <1>2, <1>4, ReplyTaken

(* NoisyReply keeps the invariant. *)
LEMMA NoisyReplyStep ==
  ASSUME WireInv, NEW where \in Noise, NoisyReply(where)
  PROVE  WireInv'
<1> DEFINE answer == ChipAnswer(Frame, chip)
           sent == FlipIn(Framed(answer.reply), where)
<1>0. /\ ChipWork /\ Take(sent, answer.chip) /\ fault' = Noisy
      /\ sent # Framed(answer.reply) /\ UNCHANGED <<ask, got, shown, call>>
  BY DEF NoisyReply, Noisy
<1>1. /\ Fits(NextCommand) /\ Serves(NextCommand, answer)
      /\ call.cmd = "ReadConfigZone" => answer = Says(ConfigBlock(Len(replies) + 1), chip)
  BY <1>0, Heard
<1>2. ChipOk(answer.chip)
  BY <1>1 DEF Serves
<1>3. call.cmd = "ReadConfigZone" => answer.chip = chip
  BY <1>1 DEF Says
<1> HIDE DEF answer
<1>4. PICK r : r = Seen(NextCommand, sent)
  OBVIOUS
<1>5. r \in Refused
  BY <1>0, <1>1, <1>4, FlippedReply
<1>6. Fails(r, fault')
  BY <1>0, <1>5 DEF Fails, Refused, Failure
<1> QED BY <1>0, <1>2, <1>3, <1>4, <1>6, ReplyTaken

(* BusFails keeps the invariant. *)
LEMMA BusFailsStep ==
  ASSUME WireInv, NEW kind \in {"Hal", "WakeFailed", "SelfTestFailure", "Timeout"},
         NEW done \in BOOLEAN, BusFails(kind, done)
  PROVE  WireInv'
<1>0. /\ ChipWork /\ chip' = IF done THEN ChipAnswer(Frame, chip).chip ELSE chip
      /\ Answered(Failure(kind)) /\ fault' = [kind |-> kind] /\ serial' = Cached(replies)
      /\ UNCHANGED <<ask, got, shown, call>> /\ ChipOk(chip)
  BY DEF BusFails, WireInv
<1>1. kind \in DOMAIN SubCodes
  BY DEF SubCodes
<1>2. PICK e : e = [kind |-> kind] /\ IsError(e) /\ Failure(kind) = Err(e)
  BY <1>1, FailureKinds
<1>3. /\ ChipOk(ChipAnswer(Frame, chip).chip)
      /\ call.cmd = "ReadConfigZone" => ChipAnswer(Frame, chip).chip = chip
  BY <1>0, Heard DEF Serves, Says
<1>4. ChipOk(chip') /\ (call.cmd = "ReadConfigZone" => chip' = chip)
  BY <1>0, <1>3
<1>5. Answered(Err(e)) /\ fault' \in {e, NoFault}
  BY <1>0, <1>2
<1> QED BY <1>0, <1>2, <1>4, <1>5, MethodFails

(***************************************************************************)
(* The other steps.                                                        *)
(***************************************************************************)
(* The invariant holds of a new token.                                     *)
LEMMA WireInit == Init => WireInv
<1> SUFFICES ASSUME Init PROVE WireInv
  OBVIOUS
<1>1. ChipOk(chip) /\ serial \in Bytes /\ stage = "idle" /\ ask = NoCall
  BY FactoryChip, SmallBytes DEF Init
<1> QED BY <1>1 DEF WireInv, AskingInv, SentInv, ServiceInv, AnsweredInv, CorruptionRefused,
                    ErrorsNamed, CalledAsTyped, Ended

(* No answers yet. *)
LEMMA NoAnswers ==
  \E g \in Seq(Bytes) : g = <<>> /\ Len(g) = 0
<1>1. <<>> \in Seq(Bytes) /\ Len(<<>>) = 0
  OBVIOUS
<1> QED BY <1>1, Zenon

(* Start keeps the invariant: hsm-host has a first request or ends. *)
LEMMA StartStep ==
  ASSUME WireInv, NEW line \in Asked, Start(line)
  PROVE  WireInv'
<1>1. /\ ask' = line /\ got' = <<>> /\ fault' = NoFault /\ UNCHANGED <<serial, chip>>
      /\ main(line, <<>>).ok => stage' = "asking"
      /\ ~main(line, <<>>).ok => stage' = "idle"
  BY DEF Start
<1>2. line \in CommandLines /\ ChipOk(chip) /\ serial \in Bytes
  BY WirePathAssumption DEF WireInv
<1>3. NoFault # [kind |-> "Noise"]
  BY DEF NoFault
<1>4. CASE main(line, <<>>).ok
  <2>1. PICK g \in Seq(Bytes) : g = <<>> /\ Len(g) = 0
    BY NoAnswers, Zenon
  <2>2. Asks(main(line, g), line, g)
    BY <1>2, <1>4, <2>1, RequestsAsked
  <2>3. Len(g) < Len(main(line, g).value)
    <3>1. Len(main(line, g).value) = Size(line, g)
      BY <2>2 DEF Asks
    <3>2. 0 < 4
      OBVIOUS
    <3>3. Size(line, g) \in {1, 4}
      BY <2>1, <3>2, Zenon DEF Size
    <3> QED BY <2>1, <3>1, <3>3
  <2>4. Progress'
    BY <1>1, <1>4, <2>1, <2>3, Zenon DEF Progress
  <2>5. ZoneKnown'
    BY <1>1, <2>1 DEF ZoneKnown
  <2> QED BY <1>1, <1>2, <1>4, <2>4, <2>5
          DEF WireInv, AskingInv, SentInv, ServiceInv, AnsweredInv, CorruptionRefused, ErrorsNamed,
              CalledAsTyped, Ended
<1>5. CASE ~main(line, <<>>).ok
  BY <1>1, <1>2, <1>3, <1>5
     DEF WireInv, AskingInv, SentInv, ServiceInv, AnsweredInv, CorruptionRefused, ErrorsNamed,
         CalledAsTyped, Ended
<1> QED BY <1>4, <1>5

(* Stray keeps the invariant. *)
LEMMA StrayStep ==
  ASSUME WireInv, NEW opcode \in StrayOpcodes, NEW line \in Asked, Stray(opcode, line)
  PROVE  WireInv'
<1> DEFINE q == main(line, <<>>).value[1]
<1>1. /\ main(line, <<>>).ok /\ opcode # CommandOpcode[q.cmd]
      /\ wire' = to_report(opcode, q.payload).value
      /\ stage' = "sent" /\ ask' = NoCall /\ fault' = NoFault /\ UNCHANGED <<serial, chip>>
  BY DEF Stray
<1>2. line \in CommandLines /\ opcode \in Byte /\ ChipOk(chip) /\ serial \in Bytes
  BY WirePathAssumption DEF WireInv
<1>3. PICK g \in Seq(Bytes) : g = <<>> /\ Len(g) = 0
  BY NoAnswers, Zenon
<1>4. Asks(main(line, g), line, g)
  BY <1>1, <1>2, <1>3, RequestsAsked
<1>5. Len(g) < Size(line, g) /\ Len(g) + 1 = 1
  BY <1>3 DEF Size
<1>6. Carries(main(line, g).value[1], Typed(line, g))
  BY <1>4, <1>5 DEF Asks
<1>7. Carries(q, Typed(line, g))
  BY <1>3, <1>6
<1> HIDE DEF q
<1>8. /\ Whole(wire')
      /\ handle_one_request(wire').ok => handle_one_request(wire').value.cmd \notin Irreversible
  BY <1>1, <1>2, <1>7, StraySent
<1> QED BY <1>1, <1>2, <1>8
        DEF WireInv, AskingInv, SentInv, ServiceInv, AnsweredInv, CorruptionRefused, ErrorsNamed,
            CalledAsTyped, Ended

(* Decline keeps the invariant. *)
LEMMA DeclineStep ==
  ASSUME WireInv, Decline
  PROVE  WireInv'
<1>1. fault' = NoFault /\ stage' = "idle" /\ UNCHANGED <<ask, serial, chip>>
  BY DEF Decline, WireInv, AskingInv
<1>2. NoFault # [kind |-> "Noise"]
  BY DEF NoFault
<1> QED BY <1>1, <1>2
        DEF WireInv, AskingInv, SentInv, ServiceInv, AnsweredInv, CorruptionRefused, ErrorsNamed,
            CalledAsTyped, Ended

(* send_command keeps the invariant. *)
LEMMA SendStep ==
  ASSUME WireInv, send_command
  PROVE  WireInv'
<1>1. /\ Progress /\ ZoneKnown /\ fault = NoFault /\ wire' = Report /\ stage' = "sent"
      /\ UNCHANGED <<ask, got, serial, chip, fault>>
  BY DEF send_command, WireInv, AskingInv, Report
<1>2. Whole(wire')
  BY <1>1, ReportTaken
<1>3. ask' # NoCall
  BY <1>1, NextCarried, TypedRecord
<1>4. Progress' /\ ZoneKnown' /\ Report' = Report
  BY <1>1 DEF Progress, ZoneKnown, ConfigBlock, Report, NextRequest
<1> QED BY <1>1, <1>2, <1>3, <1>4
        DEF WireInv, AskingInv, SentInv, ServiceInv, AnsweredInv, CorruptionRefused, ErrorsNamed,
            CalledAsTyped, Ended

(* NewToken leads to the invariant. *)
LEMMA NewTokenStep ==
  ASSUME NewToken
  PROVE  WireInv'
<1>1. ChipOk(chip') /\ serial' \in Bytes /\ stage' = "idle" /\ ask' = NoCall
  BY FactoryChip, SmallBytes DEF NewToken
<1> QED BY <1>1 DEF WireInv, AskingInv, SentInv, ServiceInv, AnsweredInv, CorruptionRefused,
                    ErrorsNamed, CalledAsTyped, Ended

(* So does a step that changes nothing. *)
LEMMA StutterStep ==
  ASSUME WireInv, UNCHANGED vars
  PROVE  WireInv'
<1>1. (Progress' <=> Progress) /\ (ZoneKnown' <=> ZoneKnown) /\ Report' = Report
      /\ NextRequest' = NextRequest
  BY DEF vars, Progress, ZoneKnown, ConfigBlock, Report, NextRequest
<1>2. RepliesOk(replies)' <=> RepliesOk(replies)
  BY DEF vars, RepliesOk, ConfigBlock
<1>3. AskingInv' /\ SentInv'
  BY <1>1 DEF vars, WireInv, AskingInv, SentInv
<1>4. ServiceInv'
  BY <1>1, <1>2 DEF vars, WireInv, ServiceInv
<1>5. AnsweredInv'
  BY <1>1 DEF vars, WireInv, AnsweredInv, ConfigBlock
<1>6. CorruptionRefused' /\ ErrorsNamed' /\ CalledAsTyped'
  BY <1>1 DEF vars, WireInv, CorruptionRefused, ErrorsNamed, CalledAsTyped, Ended
<1> QED BY <1>3, <1>4, <1>5, <1>6 DEF vars, WireInv

(* CredentialReturns keeps the invariant. *)
LEMMA CredentialStep ==
  ASSUME WireInv, CredentialReturns
  PROVE  WireInv'
<1>0. /\ stage = "service" /\ call.cmd \in CredentialCalls /\ UNCHANGED <<ask, got, call, chip>>
      /\ ChipOk(chip) /\ serial \in Bytes /\ (ask = NoCall \/ ask \in Asked)
      /\ ask # NoCall => Progress /\ ZoneKnown /\ call.cmd = NextRequest.cmd
      /\ CalledAsTyped
  BY DEF CredentialReturns, WireInv, ServiceInv
<1>1. PICK r \in CredentialResults(call.cmd) :
        Answered(r) /\ fault' = IF r.ok THEN NoFault ELSE r.error
  BY DEF CredentialReturns
<1>2. wire' = Respond(call, r) /\ stage' = "answered"
  BY <1>1 DEF Answered
<1>3. serial' \in Bytes
  <2>1. serial' = serial \/ serial' = cached_serial(chip.zone)
    BY DEF CredentialReturns
  <2>2. PICK z \in Bytes : z = chip.zone /\ Len(z) = 128
    BY <1>0 DEF ChipOk
  <2>3. cached_serial(z) \in Bytes
    BY <2>2, SerialType
  <2> QED BY <1>0, <2>1, <2>2, <2>3
<1>4. NoFault # [kind |-> "Noise"]
  BY DEF NoFault
<1>5. /\ Whole(wire') /\ fault' # [kind |-> "Noise"]
      /\ fault' # NoFault => receive(wire') = Err(ShownAs(call.cmd, fault'))
  <2>1. ASSUME NEW p \in Bytes, r = Ok(p)
        PROVE  Whole(wire') /\ fault' = NoFault
    BY <1>1, <1>2, <2>1, SuccessShown, ErrIsNotOk
  <2>2. ASSUME NEW e, IsError(e), r = Err(e)
        PROVE  /\ Whole(wire') /\ fault' # [kind |-> "Noise"]
               /\ receive(wire') = Err(ShownAs(call.cmd, fault'))
    <3>1. fault' = e
      BY <1>1, <2>2, ErrIsNotOk
    <3>2. e # [kind |-> "Noise"]
      BY <2>2, ErrorIsNoMark DEF Noisy
    <3> QED BY <1>2, <2>2, <3>1, <3>2, ErrorShown
  <2> QED BY <1>1, <1>4, <2>1, <2>2, CredentialResultsShown
<1>6. ask.cmd # "LockConfig"
  <2>1. SUFFICES ASSUME ask.cmd = "LockConfig" PROVE FALSE
    OBVIOUS
  <2>2. ask # NoCall
    BY <2>1 DEF NoCall
  <2>3. call.cmd \in {"ReadConfigZone", "LockConfigZone"}
    BY <1>0, <2>1, <2>2 DEF CalledAsTyped
  <2> QED BY <1>0, <2>3 DEF CredentialCalls
<1>7. ask' # NoCall => Progress' /\ call'.cmd = NextRequest'.cmd
  BY <1>0 DEF Progress, NextRequest
<1>8. AnsweredInv'
  BY <1>0, <1>5, <1>6, <1>7 DEF AnsweredInv
<1> QED BY <1>0, <1>2, <1>3, <1>8
        DEF WireInv, AskingInv, SentInv, ServiceInv, CorruptionRefused, ErrorsNamed, CalledAsTyped, Ended

(* Dispatch keeps the invariant: the report is rejected, the method        *)
(* refuses, or it begins with what was typed.                              *)
LEMMA DispatchStep ==
  ASSUME WireInv, Dispatch
  PROVE  WireInv'
<1> DEFINE h == handle_one_request(wire)
<1>0. /\ Whole(wire) /\ fault = NoFault /\ ChipOk(chip) /\ serial \in Bytes
      /\ ask = NoCall \/ ask \in Asked
      /\ ask # NoCall => Progress /\ ZoneKnown /\ wire = Report
      /\ ask = NoCall /\ h.ok => h.value.cmd \notin Irreversible
      /\ replies' = <<>> /\ UNCHANGED <<ask, got, serial, chip>>
  BY DEF Dispatch, WireInv, SentInv
<1>1. NoFault # [kind |-> "Noise"]
  BY DEF NoFault
<1>2. ask' # NoCall => Progress' /\ ZoneKnown' /\ NextRequest' = NextRequest
  BY <1>0 DEF Progress, ZoneKnown, ConfigBlock, NextRequest
<1>3. ask'.cmd = "LockConfig" => ask' # NoCall
  BY DEF NoCall
<1>4. (\E s \in Rejections : h = Err(s)) \/ (\E k : h = Ok(k))
  BY <1>0, Handled, Zenon
<1>5. ASSUME NEW s \in Rejections, h = Err(s)
      PROVE  WireInv'
  <2>1. h.ok = FALSE /\ h.error = s
    BY <1>5, ErrIsNotOk
  <2>2. wire' = write_status(s, <<>>) /\ stage' = "answered" /\ fault' = fault
    BY <2>1 DEF Dispatch
  <2>3. Whole(wire') /\ receive(wire').ok = FALSE
    BY <2>2, RejectionShown
  <2>4. AnsweredInv'
    BY <1>0, <1>1, <1>2, <1>3, <2>2, <2>3 DEF AnsweredInv
  <2> QED BY <1>0, <2>2, <2>4
          DEF WireInv, AskingInv, SentInv, ServiceInv, CorruptionRefused, ErrorsNamed, CalledAsTyped,
              Ended
<1>6. ASSUME NEW k, h = Ok(k)
      PROVE  WireInv'
  <2>1. h.ok = TRUE /\ h.value = k
    BY <1>6, ErrIsNotOk
  <2>2. ask # NoCall => k = Typed(ask, got) /\ k.cmd = NextRequest.cmd
    <3>1. SUFFICES ASSUME ask # NoCall PROVE k = Typed(ask, got) /\ k.cmd = NextRequest.cmd
      OBVIOUS
    <3>2. Progress /\ wire = Report
      BY <1>0, <3>1
    <3>3. k = Typed(ask, got)
      BY <2>1, <3>2, ReportTaken, ErrIsNotOk
    <3>4. NextRequest.cmd = Typed(ask, got).cmd
      BY <3>2, NextCarried DEF Carries
    <3> QED BY <3>3, <3>4
  <2>3. CASE \E e : IsError(e) /\ Refusal(k) = Err(e)
    <3>1. PICK e : IsError(e) /\ Refusal(k) = Err(e)
      BY <2>3
    <3>2. Refusal(k).ok = FALSE /\ Refusal(k).error = e
      BY <3>1, ErrIsNotOk
    <3>3. /\ wire' = Respond(k, Err(e)) /\ call' = k /\ fault' = e /\ stage' = "answered"
      BY <2>1, <3>1, <3>2 DEF Dispatch
    <3>4. Whole(wire') /\ receive(wire') = Err(ShownAs(k.cmd, e))
      BY <3>1, <3>3, ErrorShown
    <3>5. e \notin {NoFault, [kind |-> "Noise"]}
      BY <3>1, ErrorIsNoMark DEF Noisy
    <3>6. receive(wire').ok = FALSE
      BY <3>4, ErrIsNotOk
    <3>7. AnsweredInv'
      BY <1>0, <1>2, <1>3, <2>2, <3>3, <3>4, <3>5, <3>6 DEF AnsweredInv
    <3> QED BY <1>0, <3>3, <3>7
            DEF WireInv, AskingInv, SentInv, ServiceInv, CorruptionRefused, ErrorsNamed,
                CalledAsTyped, Ended
  <2>4. CASE Refusal(k).ok = TRUE /\ WellFormed(k)
    <3>1. call' = k /\ stage' = "service" /\ fault' = fault
      BY <2>1, <2>4 DEF Dispatch
    <3>2. k.cmd \notin CredentialCalls =>
            Len(ChipCommands(k, serial)) \in Nat /\ Len(ChipCommands(k, serial)) >= 1
      BY <2>4, MethodCommands, Zenon
    <3>3. RepliesOk(replies)'
      <4>1. replies' \in Seq(Bytes) /\ Len(replies') = 0
        BY <1>0
      <4> QED BY <4>1 DEF RepliesOk
    <3>4. k.cmd \notin CredentialCalls => Len(replies') < Len(ChipCommands(k, serial))
      <4>1. Len(replies') = 0
        BY <1>0
      <4> QED BY <3>2, <4>1
    <3>5. ServiceInv'
      BY <1>0, <1>2, <2>2, <2>4, <3>1, <3>3, <3>4 DEF ServiceInv
    <3>6. CalledAsTyped'
      <4>1. CASE ask = NoCall
        BY <1>0, <2>1, <3>1, <4>1 DEF CalledAsTyped
      <4>2. CASE ask # NoCall
        BY <1>0, <2>2, <3>1, <4>2, TypedIsCalled DEF CalledAsTyped
      <4> QED BY <4>1, <4>2
    <3> QED BY <1>0, <3>1, <3>5, <3>6
            DEF WireInv, AskingInv, SentInv, AnsweredInv, CorruptionRefused, ErrorsNamed, Ended
  <2> QED BY <1>0, <1>6, <2>3, <2>4, CallChecked
<1> QED BY <1>4, <1>5, <1>6

(* Receive keeps the invariant: the next request follows from the answers  *)
(* so far, and an error is shown as it came.                               *)
LEMMA ReceiveStep ==
  ASSUME WireInv, Receive
  PROVE  WireInv'
<1>0. /\ Whole(wire) /\ ChipOk(chip) /\ serial \in Bytes /\ AnsweredInv
      /\ ask = NoCall \/ ask \in Asked
      /\ stage = "answered" /\ UNCHANGED <<ask, serial, chip, fault>>
  BY DEF Receive, WireInv, AnsweredInv
<1>1. CASE ask = NoCall
  <2>1. stage' = "idle"
    BY <1>1 DEF Receive
  <2> QED BY <1>0, <1>1, <2>1
          DEF WireInv, AskingInv, SentInv, ServiceInv, AnsweredInv, CorruptionRefused, ErrorsNamed,
              CalledAsTyped, Ended
<1>2. CASE ask # NoCall
  <2> DEFINE r == answer_to(NextRequest, wire)
             all == Append(got, r.value)
  <2>1. /\ Progress
        /\ fault = [kind |-> "Noise"] => receive(wire) \in Refused
        /\ fault \notin {NoFault, [kind |-> "Noise"]} =>
             receive(wire) = Err(ShownAs(NextRequest.cmd, fault))
        /\ ask.cmd = "LockConfig" /\ Len(got) < 4 =>
             ZoneKnown /\ (receive(wire).ok => receive(wire).value = ConfigBlock(Len(got) + 1))
    BY <1>0, <1>2 DEF AnsweredInv
  <2>2. IF r.ok /\ Len(all) < Len(main(ask, all).value)
          THEN stage' = "asking" /\ got' = all
          ELSE /\ stage' = "idle"
               /\ got' = IF r.ok THEN all ELSE got
               /\ shown' = IF r.ok THEN Ok(shows(ask, all)) ELSE r
    BY <1>2 DEF Receive
  <2>3. \/ \E v \in Bytes : receive(wire) = Ok(v) /\ r = Ok(v)
        \/ \E e : receive(wire) = Err(e) /\ r = Err(e)
        \/ receive(wire).ok = TRUE /\ r = Failure("BadLength")
    <3>1. (\E v \in Bytes : receive(wire) = Ok(v)) \/ (\E e : receive(wire) = Err(e))
      BY <1>0, Received
    <3>2. ASSUME NEW v \in Bytes, receive(wire) = Ok(v)
          PROVE  r = Ok(v) \/ (receive(wire).ok = TRUE /\ r = Failure("BadLength"))
      BY <3>2, ErrIsNotOk DEF answer_to
    <3>3. ASSUME NEW e, receive(wire) = Err(e)
          PROVE  r = Err(e)
      BY <3>3, ErrIsNotOk DEF answer_to
    <3> QED BY <3>1, <3>2, <3>3, Zenon
  <2>4. receive(wire).ok = TRUE => fault = NoFault
    BY <2>1, RefusalShown, ErrIsNotOk
  <2>5. NoFault # [kind |-> "Noise"]
    BY DEF NoFault
  <2> HIDE DEF r
  <2>6. CASE r.ok # TRUE
    <3>1. r.ok = FALSE
      BY <2>3, <2>6, ErrIsNotOk, ZenonT(60) DEF Failure
    <3>2. stage' = "idle" /\ got' = got /\ shown' = r
      BY <2>2, <3>1
    <3>3. NextRequest' = NextRequest
      BY <1>0, <3>2 DEF NextRequest
    <3>4. fault # NoFault => r = receive(wire)
      BY <2>3, <2>4
    <3>5. CorruptionRefused'
      BY <1>0, <2>1, <2>5, <3>1, <3>2, <3>4, RefusalShown DEF CorruptionRefused
    <3>6. ErrorsNamed'
      <4>1. SUFFICES ASSUME fault \notin {NoFault, [kind |-> "Noise"]}, ~Misnamed(NextRequest.cmd, fault)
                     PROVE  r.error = Named(NextRequest.cmd, fault)
        BY <1>0, <3>1, <3>2, <3>3 DEF ErrorsNamed
      <4>2. r = Err(ShownAs(NextRequest.cmd, fault))
        BY <2>1, <3>4, <4>1
      <4>3. r.error = ShownAs(NextRequest.cmd, fault)
        BY <4>2, ErrIsNotOk
      <4> QED BY <4>1, <4>3, NamedShown
    <3> QED BY <1>0, <3>2, <3>5, <3>6
            DEF WireInv, AskingInv, SentInv, ServiceInv, AnsweredInv, CalledAsTyped
  <2>7. CASE r.ok = TRUE
    <3>1. PICK v \in Bytes : receive(wire) = Ok(v) /\ r = Ok(v)
      BY <2>3, <2>7, ErrIsNotOk DEF Failure
    <3>2. r.value = v /\ fault' = NoFault /\ receive(wire).ok = TRUE /\ receive(wire).value = v
      BY <1>0, <2>4, <3>1, ErrIsNotOk
    <3>3. CASE ~(Len(all) < Len(main(ask, all).value))
      <4>1. stage' = "idle"
        BY <2>2, <2>7, <3>3
      <4> QED BY <1>0, <2>5, <3>2, <4>1
              DEF WireInv, AskingInv, SentInv, ServiceInv, AnsweredInv, CorruptionRefused, ErrorsNamed,
                  CalledAsTyped, Ended
    <3>4. CASE Len(all) < Len(main(ask, all).value)
      <4>1. stage' = "asking" /\ got' = all
        BY <2>2, <2>7, <3>4
      <4>2. /\ got \in Seq(Bytes) /\ ask \in CommandLines /\ main(ask, got).ok
            /\ ask \in Asked
        BY <1>0, <1>2, <2>1, NextCarried DEF Progress
      <4>3. /\ all \in Seq(Bytes) /\ Len(all) = Len(got) + 1 /\ Len(got) \in Nat
            /\ all[Len(got) + 1] = v /\ \A i \in 1..Len(got) : all[i] = got[i]
        <5>1. PICK g : g = Append(got, v)
          OBVIOUS
        <5>2. /\ g \in Seq(Bytes) /\ Len(g) = Len(got) + 1 /\ Len(got) \in Nat
              /\ g[Len(got) + 1] = v /\ \A i \in 1..Len(got) : g[i] = got[i]
          BY <4>2, <5>1, AppendProperties
        <5> QED BY <3>2, <5>1, <5>2
      <4> HIDE DEF all
      <4>4. main(ask, all).ok
        BY <4>2, <4>3, SameVerdict
      <4>5. Progress'
        BY <1>0, <3>4, <4>1, <4>2, <4>3, <4>4, Zenon DEF Progress
      <4>6. ZoneKnown'
        <5>1. SUFFICES ASSUME ask.cmd = "LockConfig" PROVE ZoneKnown'
          BY <1>0 DEF ZoneKnown
        <5>2. Len(got) < 4
          <6>1. Asks(main(ask, all), ask, all)
            BY <4>2, <4>3, <4>4, RequestsAsked
          <6>2. Len(main(ask, all).value) = Size(ask, all)
            BY <6>1 DEF Asks
          <6>3. Len(all) < 5
            BY <3>4, <4>3, <5>1, <6>2 DEF Size
          <6> QED BY <4>3, <6>3
        <5>3. ZoneKnown /\ v = ConfigBlock(Len(got) + 1)
          BY <2>1, <3>2, <5>1, <5>2
        <5>4. \A b \in 1..Len(all) : all[b] = ConfigBlock(b)
          <6>1. \A b \in 1..Len(got) : got[b] = ConfigBlock(b)
            BY <5>1, <5>3 DEF ZoneKnown
          <6>2. TAKE b \in 1..Len(all)
          <6>3. b \in 1..Len(got) \/ b = Len(got) + 1
            BY <4>3
          <6> QED BY <4>3, <5>3, <6>1, <6>3, Zenon
        <5> QED BY <1>0, <4>1, <5>4 DEF ZoneKnown, ConfigBlock
      <4> QED BY <1>0, <3>2, <4>1, <4>5, <4>6
              DEF WireInv, AskingInv, SentInv, ServiceInv, AnsweredInv, CorruptionRefused, ErrorsNamed,
                  CalledAsTyped, Ended
    <3> QED BY <3>3, <3>4
  <2> QED BY <2>6, <2>7
<1> QED BY <1>1, <1>2

(***************************************************************************)
(* The theorems.                                                           *)
(***************************************************************************)
(* Every step keeps the invariant.                                         *)
LEMMA WireStep == WireInv /\ [Next]_vars => WireInv'
<1> SUFFICES ASSUME WireInv, [Next]_vars PROVE WireInv'
  OBVIOUS
<1>1. ASSUME NEW line \in Asked, Start(line) PROVE WireInv'
  BY <1>1, StartStep
<1>2. ASSUME NEW opcode \in StrayOpcodes, NEW line \in Asked, Stray(opcode, line) PROVE WireInv'
  BY <1>2, StrayStep
<1>3. CASE Decline
  BY <1>3, DeclineStep
<1>4. CASE send_command
  BY <1>4, SendStep
<1>5. CASE Dispatch
  BY <1>5, DispatchStep
<1>6. CASE ChipReplies
  BY <1>6, ChipRepliesStep
<1>7. ASSUME NEW status \in ChipRefusals, ChipRefuses(status) PROVE WireInv'
  BY <1>7, ChipRefusesStep
<1>8. ASSUME NEW where \in Noise, NoisyReply(where) PROVE WireInv'
  BY <1>8, NoisyReplyStep
<1>9. ASSUME NEW kind \in {"Hal", "WakeFailed", "SelfTestFailure", "Timeout"}, NEW done \in BOOLEAN,
             BusFails(kind, done)
      PROVE  WireInv'
  BY <1>9, BusFailsStep
<1>10. CASE CredentialReturns
  BY <1>10, CredentialStep
<1>11. CASE Receive
  BY <1>11, ReceiveStep
<1>12. CASE NewToken
  BY <1>12, NewTokenStep
<1>13. CASE UNCHANGED vars
  BY <1>13, StutterStep
<1> QED BY <1>1, <1>2, <1>3, <1>4, <1>5, <1>6, <1>7, <1>8, <1>9, <1>10, <1>11, <1>12, <1>13, Zenon
        DEF Next

(* The inductive invariant holds for any set of command lines, stray       *)
(* opcodes, chip refusals and flipped bits, and any bounds.                *)
THEOREM WireInvHolds == Spec => []WireInv
BY WireInit, WireStep, PTL DEF Spec

(* No reply with a flipped bit passes for a reply, in any method: the      *)
(* command ends in BadCrc or MalformedResponse.                            *)
THEOREM CorruptionRefusedHolds == Spec => []CorruptionRefused
<1>1. WireInv => CorruptionRefused
  BY DEF WireInv
<1> QED BY <1>1, WireInvHolds, PTL

(* The operator always sees the failure that happened, under the name the  *)
(* documents give it, a data zone's or a slot's lock that the chip refuses *)
(* with an ExecutionError apart.                                           *)
THEOREM ErrorsNamedHolds == Spec => []ErrorsNamed
<1>1. WireInv => ErrorsNamed
  BY DEF WireInv
<1> QED BY <1>1, WireInvHolds, PTL

(* The service is only ever called with what was typed, the lock with the  *)
(* CRC of the zone it locks, and no stray report reaches an irreversible   *)
(* method.                                                                 *)
THEOREM CalledAsTypedHolds == Spec => []CalledAsTyped
<1>1. WireInv => CalledAsTyped
  BY DEF WireInv
<1> QED BY <1>1, WireInvHolds, PTL

(***************************************************************************)
(* What each chip command does to the chip, and that no command touches    *)
(* the factory area.                                                       *)
(***************************************************************************)
(* The chip does what it was told: a status 0, or the data that was due. *)
Granted(x, e) == IF x.want = 0 THEN e.reply = <<0>> ELSE Len(e.reply) = x.want

(* What the driver hands to the method then. *)
Handed(x, e) == IF x.want = 0 THEN <<>> ELSE e.reply

(* The driver reports success exactly when the chip granted the command,   *)
(* and hands over its reply.                                               *)
LEMMA GrantedReply ==
  ASSUME NEW x, Fits(x), NEW e, Serves(x, e), NEW r, r = Seen(x, Framed(e.reply))
  PROVE  /\ Granted(x, e) => r = Ok(Handed(x, e))
         /\ ~Granted(x, e) => r.ok = FALSE
<1> DEFINE p == e.reply
<1>0. p \in Bytes /\ x.want \in {0, 4, 32, 64} /\ (Len(p) = 1 \/ (Len(p) = x.want /\ x.want # 0))
  BY DEF Serves, Fits
<1>00. r = Seen(x, Framed(p))
  OBVIOUS
<1> HIDE DEF p
<1>1. CASE Len(p) = 1
  <2>1. PICK s \in Byte : p = <<s>>
    BY <1>0, <1>1, OneByteReply
  <2>2. p = <<0>> <=> s = 0
    BY <2>1
  <2>3. CASE x.want = 0
    <3>1. r = IF s = 0 THEN Ok(<<>>) ELSE Err(from_status_byte(s))
      BY <1>00, <2>1, <2>3, StatusToStatus DEF Seen
    <3>2. Granted(x, e) <=> s = 0
      BY <2>2, <2>3 DEF Granted, p
    <3>3. Handed(x, e) = <<>>
      BY <2>3 DEF Handed
    <3> QED BY <3>1, <3>2, <3>3, ErrIsNotOk
  <2>4. CASE x.want # 0
    <3>1. x.want \in {4, 32, 64}
      BY <1>0, <2>4
    <3>2. r = IF s = 0 THEN Failure("MalformedResponse") ELSE Err(from_status_byte(s))
      BY <1>00, <2>1, <2>4, <3>1, StatusToData, Zenon DEF Seen
    <3>3. ~Granted(x, e)
      BY <1>1, <3>1 DEF Granted, p
    <3> QED BY <3>2, <3>3, ErrIsNotOk DEF Failure
  <2> QED BY <2>3, <2>4
<1>2. CASE ~(Len(p) = 1)
  <2>1. x.want \in {4, 32, 64} /\ Len(p) = x.want /\ x.want # 0
    BY <1>0, <1>2
  <2>2. r = Ok(p)
    BY <1>0, <1>00, <2>1, DataRead DEF Seen
  <2>3. Granted(x, e) /\ Handed(x, e) = p
    BY <2>1 DEF Granted, Handed, p
  <2> QED BY <2>2, <2>3
<1> QED BY <1>1, <1>2

(* The chip of a reply. *)
LEMMA SaysIs ==
  ASSUME NEW p, NEW c
  PROVE  Says(p, c).reply = p /\ Says(p, c).chip = c
BY DEF Says

(* The bytes of an overwritten zone. *)
LEMMA OverwriteAt ==
  ASSUME NEW z, NEW at \in Nat, NEW d \in Bytes, NEW i \in 1..128
  PROVE  Overwrite(z, at, d)[i] = IF i > at /\ i <= at + Len(d) THEN d[i - at] ELSE z[i]
<1>1. Len(d) \in Nat
  BY DEF Bytes
<1>2. i \in (at + 1)..(at + Len(d)) <=> i > at /\ i <= at + Len(d)
  BY <1>1
<1> QED BY <1>2 DEF Overwrite

(* A chip with another zone. *)
LEMMA ZoneOf ==
  ASSUME NEW c, ChipOk(c), NEW z
  PROVE  /\ [c EXCEPT !.zone = z].zone = z
         /\ [c EXCEPT !.zone = z].data = c.data /\ [c EXCEPT !.zone = z].keys = c.keys
<1>1. [c EXCEPT !.zone = z] = [zone |-> z, data |-> c.data, keys |-> c.keys]
  BY DEF ChipOk
<1> QED BY <1>1

(* A chip with other slots or keys has the same zone. *)
LEMMA ZoneStays ==
  ASSUME NEW c, ChipOk(c), NEW d
  PROVE  /\ [c EXCEPT !.data = d].zone = c.zone /\ [c EXCEPT !.data = d].data = d
         /\ [c EXCEPT !.keys = d].zone = c.zone
<1>1. [c EXCEPT !.data = d] = [zone |-> c.zone, data |-> d, keys |-> c.keys]
  BY DEF ChipOk
<1>2. [c EXCEPT !.keys = d] = [zone |-> c.zone, data |-> c.data, keys |-> d]
  BY DEF ChipOk
<1> QED BY <1>1, <1>2

(* A lock byte cleared, and the others. *)
LEMMA LockByte ==
  ASSUME NEW c, ChipOk(c), NEW i \in {87, 88}, NEW z, z = [c EXCEPT !.zone[i] = 0].zone
  PROVE  z[i] = 0 /\ \A j \in 1..128 : j # i => z[j] = c.zone[j]
<1> DEFINE y == [c.zone EXCEPT ![i] = 0]
<1>1. z = y
  <2>1. [c EXCEPT !.zone[i] = 0] = [zone |-> y, data |-> c.data, keys |-> c.keys]
    BY DEF ChipOk
  <2> HIDE DEF y
  <2> QED BY <2>1
<1>2. DOMAIN c.zone = 1..128
  BY DEF ChipOk, Bytes
<1>3. i \in 1..128
  OBVIOUS
<1> QED BY <1>1, <1>2, <1>3

(* The factory area, which no command writes. *)
SameFactory(c, d) == \A i \in 1..16 : d.zone[i] = c.zone[i]

(* A write that the chip does not bar is past the factory area and clear   *)
(* of the lock bytes.                                                      *)
LEMMA NotBarred ==
  ASSUME NEW w \in Nat, NEW n \in {4, 32}, ~Barred(4 * w, n)
  PROVE  4 * w >= 16 /\ (4 * w >= 88 \/ 4 * w + n <= 84)
<1>1. (4 * w) \div 4 = w
  OBVIOUS
<1>2. CASE n = 4
  <2>1. (4 * w + n - 1) \div 4 = w
    BY <1>2
  <2>2. w \in (4 * w) \div 4 .. (4 * w + n - 1) \div 4
    BY <1>1, <2>1
  <2>3. w \notin ReadOnlyWords
    BY <2>2 DEF Barred
  <2> QED BY <1>2, <2>3 DEF ReadOnlyWords
<1>3. CASE n = 32
  <2>1. (4 * w + n - 1) \div 4 = w + 7
    BY <1>3
  <2>2. \A i \in ReadOnlyWords : ~(i >= w /\ i <= w + 7)
    <3>1. w .. (w + 7) \cap ReadOnlyWords = {}
      BY <1>1, <2>1, Zenon DEF Barred
    <3>2. \A i \in ReadOnlyWords : i \in Int
      BY DEF ReadOnlyWords
    <3> HIDE DEF ReadOnlyWords
    <3> QED BY <3>1, <3>2
  <2>3. w > 3 /\ ~(21 >= w /\ 21 <= w + 7)
    BY <2>2 DEF ReadOnlyWords
  <2> QED BY <1>3, <2>3
<1> QED BY <1>2, <1>3

(* A write to the configuration zone leaves the factory area and the lock  *)
(* bytes alone, whatever the chip makes of it.                             *)
LEMMA StoredKeeps ==
  ASSUME NEW c, ChipOk(c), NEW w \in Nat, NEW d \in Bytes, Len(d) \in {4, 32}, NEW e, e = Stored(c, 4 * w, d)
  PROVE  SameFactory(c, e.chip) /\ e.chip.zone[88] = c.zone[88]
<1>1. CASE ConfigLocked(c) \/ Barred(4 * w, Len(d))
  <2>1. e.chip = c
    BY <1>1, SaysIs DEF Stored
  <2> QED BY <2>1 DEF SameFactory
<1>2. CASE ~(ConfigLocked(c) \/ Barred(4 * w, Len(d)))
  <2> DEFINE z == Overwrite(c.zone, 4 * w, d)
  <2>1. e.chip.zone = z
    <3>1. e = Says(<<0>>, [c EXCEPT !.zone = Overwrite(@, 4 * w, d)])
      BY <1>2 DEF Stored
    <3>2. e.chip = [c EXCEPT !.zone = z]
      BY <3>1, SaysIs
    <3>3. [c EXCEPT !.zone = z].zone = z
      BY ZoneOf, Zenon
    <3> QED BY <3>2, <3>3, Zenon
  <2>2. 4 * w >= 16 /\ (4 * w >= 88 \/ 4 * w + Len(d) <= 84)
    BY <1>2, NotBarred
  <2>3. ASSUME NEW i \in 1..128, i <= 16 \/ i = 88 PROVE z[i] = c.zone[i]
    <3>0. 4 * w \in Nat
      OBVIOUS
    <3>1. z[i] = IF i > 4 * w /\ i <= 4 * w + Len(d) THEN d[i - 4 * w] ELSE c.zone[i]
      BY <3>0, OverwriteAt, Zenon
    <3>2. ~(i > 4 * w /\ i <= 4 * w + Len(d))
      BY <2>2, <2>3
    <3> QED BY <3>1, <3>2, Zenon
  <2> HIDE DEF z
  <2> QED BY <2>1, <2>3 DEF SameFactory
<1> QED BY <1>1, <1>2

(* Clearing a bit that is set clears it. *)
LEMMA BitGone ==
  ASSUME NEW w \in Word, NEW k \in 0..15, Bits(w, k, 1) # 0
  PROVE  Bits(w - 2^k, k, 1) = 0
<1>0. w \in Nat /\ w <= 65535
  BY WordRange
<1> DEFINE P(j) == Bits(w, j, 1) # 0 => Bits(w - 2^j, j, 1) = 0
<1>2. P(0) /\ P(1) /\ P(2) /\ P(3) /\ P(4) /\ P(5) /\ P(6) /\ P(7)
  BY <1>0 DEF Bits
<1>3. P(8) /\ P(9) /\ P(10) /\ P(11) /\ P(12) /\ P(13) /\ P(14) /\ P(15)
  BY <1>0 DEF Bits
<1>4. P(k)
  <2> HIDE DEF P
  <2>1. k \in {0, 1, 2, 3, 4, 5, 6, 7, 8, 9, 10, 11, 12, 13, 14, 15}
    OBVIOUS
  <2> QED BY <1>2, <1>3, <2>1
<1> QED BY <1>4

(* A slot that was not locked is locked afterwards, and the rest of the    *)
(* zone is what it was.                                                    *)
LEMMA SlotSealed ==
  ASSUME NEW c, ChipOk(c), NEW s \in Slots, ~SlotLocked(c, s)
  PROVE  SlotLocked(SlotClosed(c, s), s) /\ SameFactory(c, SlotClosed(c, s))
<1> DEFINE w == ZoneWord(c.zone, 88)
           v == w - 2^s
           d == LowHigh(v)
           z == Overwrite(c.zone, 88, d)
<1>0. s \in 0..15
  BY DEF Slots
<1>1. w \in Word
  <2>1. c.zone \in Bytes /\ Len(c.zone) = 128
    BY DEF ChipOk
  <2>2. PICK n \in Nat : n = 128
    OBVIOUS
  <2>3. 88 + 1 \in 1..n /\ 88 + 2 \in 1..n /\ Len(c.zone) = n
    BY <2>1, <2>2
  <2>4. c.zone[88 + 1] \in Byte /\ c.zone[88 + 2] \in Byte
    BY <2>1, <2>3, ElementOfSeq DEF Bytes
  <2> QED BY <2>4, FromBytes DEF ZoneWord
<1>2. Bits(w, s, 1) # 0
  BY DEF SlotLocked
<1> HIDE DEF w
<1>3. v \in Word /\ Bits(v, s, 1) = 0
  BY <1>0, <1>1, <1>2, BitCleared, BitGone, Zenon
<1> HIDE DEF v
<1>4. d \in Bytes /\ Len(d) = 2 /\ FromLowHigh(d[1], d[2]) = v
  BY <1>3, LowHighWord, Zenon
<1> HIDE DEF d
<1>5. SlotClosed(c, s).zone = z
  <2>1. SlotClosed(c, s) = [c EXCEPT !.zone = z]
    BY DEF SlotClosed, d, v, w
  <2>2. [c EXCEPT !.zone = z].zone = z
    BY ZoneOf, Zenon
  <2> QED BY <2>1, <2>2, Zenon
<1>6. \A i \in 1..128 : z[i] = IF i > 88 /\ i <= 88 + Len(d) THEN d[i - 88] ELSE c.zone[i]
  <2>1. 88 \in Nat
    OBVIOUS
  <2> QED BY <1>4, <2>1, OverwriteAt, Zenon
<1> HIDE DEF z
<1>7. z[88 + 1] = d[1] /\ z[88 + 2] = d[2]
  <2>1. 89 \in 1..128 /\ 90 \in 1..128
    OBVIOUS
  <2>2. z[89] = d[89 - 88] /\ z[90] = d[90 - 88]
    BY <1>4, <1>6, <2>1
  <2> QED BY <2>2
<1>8. \A i \in 1..16 : z[i] = c.zone[i]
  <2>1. TAKE i \in 1..16
  <2>2. i \in 1..128 /\ ~(i > 88)
    OBVIOUS
  <2> QED BY <1>6, <2>2, Zenon
<1>9. ZoneWord(z, 88) = v
  BY <1>4, <1>7 DEF ZoneWord
<1> QED BY <1>3, <1>5, <1>8, <1>9, Zenon DEF SlotLocked, SameFactory

(* No command changes the factory area. *)
LEMMA FactoryKept ==
  ASSUME NEW c, ChipOk(c), NEW x, IsCommand(x)
  PROVE  SameFactory(c, Does(x, c).chip)
<1>0. SameFactory(c, c)
  BY DEF SameFactory
<1>00. \A p : Says(p, c).chip = c
  BY SaysIs
<1>1. CASE x = info_revision
  BY <1>0, <1>00, <1>1, InfoServed
<1>2. CASE x = lock_data_zone
  <2> DEFINE e == [c EXCEPT !.zone[87] = 0]
  <2>1. Does(x, c) = Says(<<15>>, c) \/ Does(x, c) = Says(<<0>>, e)
    BY <1>2, LockDataServed
  <2>2. SameFactory(c, e)
    <3>1. \A j \in 1..128 : j # 87 => e.zone[j] = c.zone[j]
      BY LockByte
    <3> HIDE DEF e
    <3> QED BY <3>1 DEF SameFactory
  <2> HIDE DEF e
  <2> QED BY <1>0, <2>1, <2>2, SaysIs
<1>3. ASSUME NEW b \in 1..4, x = read_config_zone[b] PROVE SameFactory(c, Does(x, c).chip)
  BY <1>0, <1>00, <1>3, ConfigReadServed, Zenon
<1>4. ASSUME NEW s \in Slots, x \in {genkey_public(s), genkey_create(s), lock_slot(s)}
      PROVE  SameFactory(c, Does(x, c).chip)
  <2>1. CASE x = lock_slot(s)
    <3>1. \/ Does(x, c) = Says(<<15>>, c)
          \/ Does(x, c) = Says(<<0>>, SlotClosed(c, s)) /\ ~SlotLocked(c, s)
      BY <2>1, LockSlotServed DEF Lockable
    <3> QED BY <1>0, <3>1, SaysIs, SlotSealed
  <2>2. CASE x = genkey_public(s)
    BY <1>0, <1>00, <2>2, KeysServed
  <2>3. CASE x = genkey_create(s)
    <3>1. \/ Does(x, c) = Says(<<15>>, c)
          \/ Does(x, c) = Says(PublicKey(Renewed(c, s), s), Renewed(c, s))
      BY <2>3, KeysServed
    <3>2. SameFactory(c, Renewed(c, s))
      <4>1. Renewed(c, s).zone = c.zone
        BY RenewedOk
      <4> QED BY <4>1 DEF SameFactory
    <3> QED BY <1>0, <3>1, <3>2, SaysIs
  <2> QED BY <1>4, <2>1, <2>2, <2>3, Zenon
<1>5. ASSUME NEW s \in Slots, NEW b \in Byte, x = read_slot_block(s, b)
      PROVE  SameFactory(c, Does(x, c).chip)
  BY <1>0, <1>00, <1>5, SlotBlockServed
<1>6. ASSUME NEW s \in Slots, NEW b \in Byte, NEW o \in Byte, x = read_slot_word(s, b, o)
      PROVE  SameFactory(c, Does(x, c).chip)
  BY <1>0, <1>00, <1>6, SlotWordServed
<1>7. ASSUME NEW b \in 0..3, NEW d \in Bytes, Len(d) = 32,
             x = write_32("Config", config_or_otp_address(b, 0), d)
      PROVE  SameFactory(c, Does(x, c).chip)
  <2>0. PICK u \in Nat : u = 8 * b
    OBVIOUS
  <2>1. Does(x, c) = Stored(c, 4 * u, d)
    <3>1. Does(x, c) = Stored(c, 32 * b, d)
      BY <1>7, BlockWriteServed, Zenon
    <3>2. 32 * b = 4 * u
      BY <2>0
    <3> QED BY <3>1, <3>2
  <2>2. Len(d) \in {4, 32}
    BY <1>7
  <2>3. PICK e : e = Does(x, c) /\ e = Stored(c, 4 * u, d)
    BY <2>1
  <2>4. SameFactory(c, e.chip)
    BY <2>2, <2>3, StoredKeeps
  <2> QED BY <2>3, <2>4, Zenon
<1>8. ASSUME NEW b \in 0..3, NEW w \in 0..7, NEW d \in Bytes, Len(d) = 4,
             x = write_4("Config", config_or_otp_address(b, w), d)
      PROVE  SameFactory(c, Does(x, c).chip)
  <2>0. PICK u \in Nat : u = 8 * b + w
    OBVIOUS
  <2>1. Does(x, c) = Stored(c, 4 * u, d)
    <3>1. Does(x, c) = Stored(c, 32 * b + 4 * w, d)
      BY <1>8, WordWriteServed
    <3>2. 32 * b + 4 * w = 4 * u
      BY <2>0
    <3> QED BY <3>1, <3>2
  <2>2. Len(d) \in {4, 32}
    BY <1>8
  <2>3. PICK e : e = Does(x, c) /\ e = Stored(c, 4 * u, d)
    BY <2>1
  <2>4. SameFactory(c, e.chip)
    BY <2>2, <2>3, StoredKeeps
  <2> QED BY <2>3, <2>4, Zenon
<1>9. ASSUME NEW s \in Slots, NEW d \in Bytes, Len(d) = 32, x = write_slot_block(s, 0, d)
      PROVE  SameFactory(c, Does(x, c).chip)
  <2> DEFINE e == [c EXCEPT !.data = Put(@, s, d)]
  <2>1. Does(x, c) = Says(<<15>>, c) \/ Does(x, c) = Says(<<0>>, e)
    BY <1>9, SlotWriteServed
  <2>2. e.zone = c.zone
    BY ZoneStays, Zenon
  <2> HIDE DEF e
  <2>3. SameFactory(c, e)
    BY <2>2 DEF SameFactory
  <2> QED BY <1>0, <2>1, <2>3, SaysIs
<1>10. ASSUME NEW i \in 0..1, x = counter_read(i) PROVE SameFactory(c, Does(x, c).chip)
  BY <1>0, <1>00, <1>10, CounterServed
<1>11. ASSUME NEW w \in Word, x = lock_config_zone(w) PROVE SameFactory(c, Does(x, c).chip)
  <2> DEFINE e == [c EXCEPT !.zone[88] = 0]
  <2>1. Does(x, c) = Says(<<15>>, c) \/ Does(x, c) = Says(<<0>>, e)
    BY <1>11, LockConfigServed
  <2>2. SameFactory(c, e)
    <3>1. \A j \in 1..128 : j # 88 => e.zone[j] = c.zone[j]
      BY LockByte
    <3> HIDE DEF e
    <3> QED BY <3>1 DEF SameFactory
  <2> HIDE DEF e
  <2> QED BY <1>0, <2>1, <2>2, SaysIs
<1> QED BY <1>1, <1>2, <1>3, <1>4, <1>5, <1>6, <1>7, <1>8, <1>9, <1>10, <1>11, Zenon DEF IsCommand

(* Two buffers that agree on a range have the same field there. *)
LEMMA SameField ==
  ASSUME NEW y \in Bytes, NEW z \in Bytes, NEW m \in Nat, NEW n \in Nat,
         m + n <= Len(y), m + n <= Len(z), \A i \in 1..n : z[m + i] = y[m + i]
  PROVE  Field(z, m, n) = Field(y, m, n)
<1>1. /\ Field(y, m, n) \in Bytes /\ Len(Field(y, m, n)) = n
      /\ \A i \in 1..n : Field(y, m, n)[i] = y[m + i]
  BY FieldType
<1>2. /\ Field(z, m, n) \in Bytes /\ Len(Field(z, m, n)) = n
      /\ \A i \in 1..n : Field(z, m, n)[i] = z[m + i]
  BY FieldType
<1>3. \A i \in 1..n : Field(z, m, n)[i] = Field(y, m, n)[i]
  BY <1>1, <1>2, Zenon
<1> QED BY <1>1, <1>2, <1>3, BytesEqual

(* The serial number is read off the factory area. *)
LEMMA SerialKept ==
  ASSUME NEW c, ChipOk(c), NEW d, ChipOk(d), SameFactory(c, d)
  PROVE  cached_serial(d.zone) = cached_serial(c.zone)
<1>1. c.zone \in Bytes /\ d.zone \in Bytes /\ Len(c.zone) = 128 /\ Len(d.zone) = 128
  BY DEF ChipOk
<1>2. 0 + 4 <= Len(c.zone) /\ 0 + 4 <= Len(d.zone) /\ 8 + 5 <= Len(c.zone) /\ 8 + 5 <= Len(d.zone)
  BY <1>1
<1>3. \A i \in 1..4 : d.zone[0 + i] = c.zone[0 + i]
  BY DEF SameFactory
<1>4. \A i \in 1..5 : d.zone[8 + i] = c.zone[8 + i]
  BY DEF SameFactory
<1>5. Field(d.zone, 0, 4) = Field(c.zone, 0, 4) /\ Field(d.zone, 8, 5) = Field(c.zone, 8, 5)
  <2>1. c.zone \in Bytes /\ d.zone \in Bytes /\ 0 \in Nat /\ 4 \in Nat /\ 5 \in Nat /\ 8 \in Nat
    BY <1>1
  <2> QED BY <1>2, <1>3, <1>4, <2>1, SameField
<1> QED BY <1>5, Zenon DEF cached_serial

(***************************************************************************)
(* Methods of one chip command: granted exactly when the chip's policy and *)
(* locks allow them, and true of the chip then.                            *)
(***************************************************************************)
(* The methods that give the chip one command. *)
SingleCalls ==
  {"GetPubkey", "GenKey", "ReadSlotBlock", "ReadSlotWord", "ReadCounter"}
    \cup {"ProvisionSlot", "LockConfigZone", "LockDataZone", "LockSlot"}

(* When the chip's policy and locks let a method through. *)
Allowed(k, c) ==
  CASE k.cmd = "GetPubkey" -> Published(c, k.args[1])
    [] k.cmd = "GenKey" -> Renewable(c, k.args[1])
    [] k.cmd \in {"ReadSlotBlock", "ReadSlotWord"} -> ~Secret(c, k.args[1])
    [] k.cmd = "ProvisionSlot" -> Writable(c, k.args[1])
    [] k.cmd = "WriteConfigZone" -> ~ConfigLocked(c)
    [] k.cmd = "LockConfigZone" -> ~ConfigLocked(c) /\ k.args[1] = crc16(c.zone)
    [] k.cmd = "LockDataZone" -> ConfigLocked(c) /\ ~DataLocked(c)
    [] k.cmd = "LockSlot" -> Lockable(c, k.args[1])
    [] OTHER -> TRUE

(* A method with one command x: the chip grants it when the policy allows, *)
(* and its result is then true of the chip.                                *)
Kept(k, s, x, c) ==
  /\ ChipCommands(k, s) = <<x>>
  /\ Granted(x, Does(x, c)) <=> Allowed(k, c)
  /\ Granted(x, Does(x, c)) =>
       Tells(k, Does(x, c).chip, Result(k, <<Handed(x, Does(x, c))>>, s))

(* The status 0 grants a command that wants a status, and no other does. *)
LEMMA StatusGrants ==
  ASSUME NEW x, x.want = 0, NEW b \in Nat, NEW c, NEW e, e = Says(<<b>>, c)
  PROVE  (Granted(x, e) <=> b = 0) /\ Handed(x, e) = <<>> /\ e.chip = c
<1>1. e.reply = <<b>> /\ e.chip = c
  BY SaysIs
<1>2. <<b>> = <<0>> <=> b = 0
  OBVIOUS
<1> QED BY <1>1, <1>2 DEF Granted, Handed

(* No status grants a command that wants data. *)
LEMMA StatusGrantsNoData ==
  ASSUME NEW x, x.want \in {4, 32, 64}, NEW b, NEW c, NEW e, e = Says(<<b>>, c)
  PROVE  ~Granted(x, e)
<1>1. e.reply = <<b>> /\ Len(<<b>>) = 1
  BY SaysIs
<1>2. x.want # 0 /\ x.want # 1
  OBVIOUS
<1>3. Len(e.reply) = 1
  BY <1>1, Zenon
<1> QED BY <1>2, <1>3, Zenon DEF Granted

(* Data of the length that is due grants the command and is handed over. *)
LEMMA DataGrants ==
  ASSUME NEW x, x.want # 0, NEW c, NEW p, Len(p) = x.want
  PROVE  Granted(x, Says(p, c)) /\ Handed(x, Says(p, c)) = p
<1> DEFINE e == Says(p, c)
<1>1. e.reply = p /\ e.chip = c
  BY SaysIs
<1> HIDE DEF e
<1>2. Granted(x, e) /\ Handed(x, e) = p
  BY <1>1 DEF Granted, Handed
<1> QED BY <1>2 DEF e

(* A command that answers a key, and leaves the chip as e, unless the chip *)
(* bars it.                                                                *)
LEMMA KeyKept ==
  ASSUME NEW k, k.cmd \in {"GetPubkey", "GenKey"}, k.args[1] \in Slots, NEW s, NEW c,
         NEW x, ChipCommands(k, s) = <<x>>, x.want = 64, NEW e, ChipOk(e),
         Does(x, c) = IF Allowed(k, c) THEN Says(PublicKey(e, k.args[1]), e) ELSE Says(<< 15 >>, c)
  PROVE  Kept(k, s, x, c)
<1> DEFINE d == Does(x, c)
           v == PublicKey(e, k.args[1])
<1>1. d = IF Allowed(k, c) THEN Says(v, e) ELSE Says(<<15>>, c)
  OBVIOUS
<1>2. Len(v) = 64
  BY PublicKeyType
<1>3. Result(k, <<v>>, s) = v
  BY DEF Result
<1>4. Tells(k, e, v)
  BY DEF Tells
<1> HIDE DEF d, v
<1>5. CASE ~Allowed(k, c)
  <2>1. ~Granted(x, d)
    BY <1>1, <1>5, StatusGrantsNoData
  <2> QED BY <1>5, <2>1 DEF Kept, d
<1>6. CASE Allowed(k, c)
  <2>1. d = Says(v, e)
    BY <1>1, <1>6
  <2>2. x.want # 0 /\ Len(v) = x.want
    BY <1>2
  <2>3. d.reply = v /\ d.chip = e
    BY <2>1, SaysIs
  <2>4. Granted(x, d) /\ Handed(x, d) = v
    BY <2>2, <2>3 DEF Granted, Handed
  <2> QED BY <1>3, <1>4, <1>6, <2>3, <2>4 DEF Kept, d
<1> QED BY <1>5, <1>6

(* The public key of a slot. *)
LEMMA PubkeyKept ==
  ASSUME NEW k, WellFormed(k), k.cmd = "GetPubkey", NEW c, ChipOk(c), NEW s
  PROVE  Kept(k, s, genkey_public(k.args[1]), c)
<1> DEFINE x == genkey_public(k.args[1])
<1>0. k.args[1] \in Slots
  BY SlotRange DEF WellFormed, TakesSlot
<1>1. ChipCommands(k, s) = <<x>> /\ x.want = 64
  BY DEF ChipCommands, genkey_public, ChipCommand
<1>2. Does(x, c) = IF Allowed(k, c) THEN Says(PublicKey(c, k.args[1]), c) ELSE Says(<<15>>, c)
  BY <1>0, KeysServed DEF Allowed
<1> HIDE DEF x
<1> QED BY <1>0, <1>1, <1>2, KeyKept DEF x

(* A new key pair. *)
LEMMA GenKeyKept ==
  ASSUME NEW k, WellFormed(k), k.cmd = "GenKey", NEW c, ChipOk(c), NEW s
  PROVE  Kept(k, s, genkey_create(k.args[1]), c)
<1> DEFINE x == genkey_create(k.args[1])
           e == Renewed(c, k.args[1])
<1>0. k.args[1] \in Slots
  BY SlotRange DEF WellFormed, TakesSlot
<1>1. ChipCommands(k, s) = <<x>> /\ x.want = 64
  BY DEF ChipCommands, genkey_create, ChipCommand
<1>2. Does(x, c) = IF Allowed(k, c) THEN Says(PublicKey(e, k.args[1]), e) ELSE Says(<< 15 >>, c)
  BY <1>0, KeysServed DEF Allowed
<1>3. ChipOk(e)
  BY <1>0, RenewedOk
<1> HIDE DEF x, e
<1> QED BY <1>0, <1>1, <1>2, <1>3, KeyKept DEF x

(* A block of a slot. *)
LEMMA SlotBlockKept ==
  ASSUME NEW k, WellFormed(k), k.cmd = "ReadSlotBlock", NEW c, ChipOk(c), NEW s
  PROVE  Kept(k, s, read_slot_block(k.args[1], k.args[2]), c)
<1> DEFINE x == read_slot_block(k.args[1], k.args[2])
           d == Does(x, c)
           v == SlotBlock(c, k.args[1], k.args[2])
<1>0. k.args[1] \in Slots /\ k.args[1] \in Nat /\ k.args[2] \in Byte /\ k.args[2] \in Nat
  BY SlotRange, ByteRange DEF WellFormed, TakesSlot
<1>1. ChipCommands(k, s) = <<x>>
  BY DEF ChipCommands
<1>2. x.want = 32
  BY DEF read_slot_block, read_32, ChipCommand, BLOCK_SIZE
<1>3. d = IF Secret(c, k.args[1]) THEN Says(<<15>>, c) ELSE Says(v, c)
  BY <1>0, SlotBlockServed
<1>4. Len(v) = 32
  BY <1>0, SlotBlockType
<1>5. Allowed(k, c) <=> ~Secret(c, k.args[1])
  BY DEF Allowed
<1>6. \A y : Result(k, <<y>>, s) = y
  BY DEF Result
<1>9. \A y : Tells(k, y, SlotBlock(y, k.args[1], k.args[2]))
  BY DEF Tells
<1>90. v = SlotBlock(c, k.args[1], k.args[2])
  OBVIOUS
<1> HIDE DEF d, x, v
<1>7. CASE Secret(c, k.args[1])
  <2>1. ~Granted(x, d)
    BY <1>2, <1>3, <1>7, StatusGrantsNoData
  <2> QED BY <1>1, <1>5, <1>7, <2>1 DEF Kept, x, d
<1>8. CASE ~Secret(c, k.args[1])
  <2>1. Granted(x, d) /\ Handed(x, d) = v /\ d.chip = c
    <3>1. x.want # 0 /\ Len(v) = x.want
      BY <1>2, <1>4
    <3>2. d = Says(v, c)
      BY <1>3, <1>8
    <3>3. Granted(x, Says(v, c)) /\ Handed(x, Says(v, c)) = v
      BY <3>1, DataGrants
    <3> QED BY <3>2, <3>3, SaysIs
  <2>2. Tells(k, d.chip, Result(k, <<Handed(x, d)>>, s))
    BY <1>6, <1>9, <1>90, <2>1, Zenon
  <2> QED BY <1>1, <1>5, <1>8, <2>1, <2>2 DEF Kept, x, d
<1> QED BY <1>7, <1>8

(* A word of a slot. *)
LEMMA SlotWordKept ==
  ASSUME NEW k, WellFormed(k), k.cmd = "ReadSlotWord", NEW c, ChipOk(c), NEW s
  PROVE  Kept(k, s, read_slot_word(k.args[1], k.args[2], k.args[3]), c)
<1> DEFINE x == read_slot_word(k.args[1], k.args[2], k.args[3])
           d == Does(x, c)
           b == SlotBlock(c, k.args[1], k.args[2])
           v == Field(b, 4 * (k.args[3] % 8), 4)
<1>0. /\ k.args[1] \in Slots /\ k.args[1] \in Nat /\ k.args[2] \in Byte /\ k.args[2] \in Nat
      /\ k.args[3] \in Byte /\ k.args[3] \in Nat
  BY SlotRange, ByteRange DEF WellFormed, TakesSlot
<1>1. ChipCommands(k, s) = <<x>>
  BY DEF ChipCommands
<1>2. x.want = 4
  BY DEF read_slot_word, read_4, ChipCommand, WORD_SIZE
<1>3. d = IF Secret(c, k.args[1]) THEN Says(<<15>>, c) ELSE Says(v, c)
  BY <1>0, SlotWordServed
<1>4. Len(v) = 4
  <2>1. b \in Bytes /\ Len(b) = 32
    BY <1>0, SlotBlockType
  <2>2. PICK m \in Nat : m = 4 * (k.args[3] % 8) /\ m + 4 <= 32
    BY <1>0
  <2> HIDE DEF b
  <2>3. 4 \in Nat /\ m + 4 <= Len(b)
    BY <2>1, <2>2
  <2> QED BY <2>1, <2>2, <2>3, FieldType
<1>5. Allowed(k, c) <=> ~Secret(c, k.args[1])
  BY DEF Allowed
<1>6. \A y : Result(k, <<y>>, s) = y
  BY DEF Result
<1>9. Tells(k, c, v)
  BY DEF Tells
<1> HIDE DEF d, x, v
<1>7. CASE Secret(c, k.args[1])
  <2>1. ~Granted(x, d)
    BY <1>2, <1>3, <1>7, StatusGrantsNoData
  <2> QED BY <1>1, <1>5, <1>7, <2>1 DEF Kept, x, d
<1>8. CASE ~Secret(c, k.args[1])
  <2>1. Granted(x, d) /\ Handed(x, d) = v /\ d.chip = c
    <3>1. x.want # 0 /\ Len(v) = x.want
      BY <1>2, <1>4
    <3>2. d = Says(v, c)
      BY <1>3, <1>8
    <3>3. Granted(x, Says(v, c)) /\ Handed(x, Says(v, c)) = v
      BY <3>1, DataGrants
    <3> QED BY <3>2, <3>3, SaysIs
  <2>2. Tells(k, d.chip, Result(k, <<Handed(x, d)>>, s))
    BY <1>6, <1>9, <2>1, Zenon
  <2> QED BY <1>1, <1>5, <1>8, <2>1, <2>2 DEF Kept, x, d
<1> QED BY <1>7, <1>8

(* Two pairs of bytes are four bytes. *)
LEMMA TwoPairs ==
  ASSUME NEW p \in Byte, NEW q \in Byte, NEW r \in Byte, NEW t \in Byte
  PROVE <<p, q>> \o <<r, t>> = <<p, q, r, t>>
<1> DEFINE u == <<p, q>>
           v == <<r, t>>
           w == <<p, q, r, t>>
<1>1. u \in Bytes /\ v \in Bytes /\ w \in Bytes /\ Len(u) = 2 /\ Len(v) = 2 /\ Len(w) = 4
  BY DEF Bytes
<1>2. u[1] = p /\ u[2] = q /\ v[1] = r /\ v[2] = t /\ w[1] = p /\ w[2] = q /\ w[3] = r /\ w[4] = t
  OBVIOUS
<1> HIDE DEF u, v, w
<1>30. u \o v \in Bytes /\ Len(u \o v) = Len(u) + Len(v)
  BY <1>1, Joined
<1>31. Len(u \o v) = Len(w)
  BY <1>1, <1>30
<1>3. /\ u \o v \in Bytes
      /\ \A i \in 1..Len(u) : (u \o v)[i] = u[i]
      /\ \A i \in 1..Len(v) : (u \o v)[Len(u) + i] = v[i]
  BY <1>1, Joined
<1>4. (u \o v)[1] = p /\ (u \o v)[2] = q /\ (u \o v)[3] = r /\ (u \o v)[4] = t
  <2>1. 1 \in 1..Len(u) /\ 2 \in 1..Len(u) /\ 1 \in 1..Len(v) /\ 2 \in 1..Len(v)
    BY <1>1
  <2>2. Len(u) + 1 = 3 /\ Len(u) + 2 = 4
    BY <1>1
  <2>3. (u \o v)[1] = u[1] /\ (u \o v)[2] = u[2] /\ (u \o v)[Len(u) + 1] = v[1] /\ (u \o v)[Len(u) + 2] = v[2]
    BY <1>3, <2>1, Zenon
  <2> QED BY <1>2, <2>2, <2>3
<1>5. \A i \in 1..Len(w) : w[i] = (u \o v)[i]
  <2> DEFINE z == u \o v
  <2> HIDE DEF z
  <2>1. z[1] = w[1] /\ z[2] = w[2] /\ z[3] = w[3] /\ z[4] = w[4]
    BY <1>2, <1>4 DEF z
  <2>2. \A i \in 1..Len(w) : w[i] = z[i]
    BY <1>1, <2>1
  <2> QED BY <2>2 DEF z
<1>6. u \o v = w
  BY <1>1, <1>3, <1>31, <1>5, BytesEqual, Zenon
<1> QED BY <1>6 DEF u, v, w

(* A monotonic counter, read and written back as a number. *)
LEMMA CounterKept ==
  ASSUME NEW k, WellFormed(k), k.cmd = "ReadCounter", NEW c, ChipOk(c), NEW s
  PROVE  Kept(k, s, counter_read(k.args[1]), c)
<1> DEFINE x == counter_read(k.args[1])
           d == Does(x, c)
           v == CountOf(k.args[1])
<1>0. k.args[1] \in 0..1
  BY DEF WellFormed
<1>1. ChipCommands(k, s) = <<x>>
  BY DEF ChipCommands
<1>2. x.want = 4
  BY DEF counter_read, ChipCommand
<1>3. d = Says(v, c) /\ Len(v) = 4
  BY <1>0, CounterServed
<1>4. ToLeBytes(FromLeBytes(v)) = v
  <2> DEFINE i == k.args[1]
  <2>1. FromLeBytes(v) = <<1, i + 517>>
    BY <1>0 DEF FromLeBytes, CountOf, FromLowHigh
  <2>2. (i + 517) % 256 = 5 + i /\ (i + 517) \div 256 = 2 /\ 1 % 256 = 1 /\ 1 \div 256 = 0
    BY <1>0
  <2>3. LowHigh(i + 517) = <<5 + i, 2>> /\ LowHigh(1) = <<1, 0>>
    BY <2>2 DEF LowHigh
  <2>4. ToLeBytes(<<1, i + 517>>) = LowHigh(i + 517) \o LowHigh(1)
    <3> DEFINE w == <<1, i + 517>>
    <3>1. w[1] = 1 /\ w[2] = i + 517
      OBVIOUS
    <3> HIDE DEF w
    <3>2. ToLeBytes(w) = LowHigh(i + 517) \o LowHigh(1)
      BY <3>1, Zenon DEF ToLeBytes
    <3> QED BY <3>2 DEF w
  <2>5. <<5 + i, 2>> \o <<1, 0>> = <<5 + i, 2, 1, 0>>
    <3>1. 5 + i \in Byte /\ 2 \in Byte /\ 1 \in Byte /\ 0 \in Byte
      BY <1>0 DEF Byte
    <3> HIDE DEF i
    <3> QED BY <3>1, TwoPairs, Zenon
  <2> QED BY <2>1, <2>3, <2>4, <2>5 DEF CountOf
<1>5. Allowed(k, c)
  BY DEF Allowed
<1>6. Result(k, <<v>>, s) = v
  BY <1>4 DEF Result
<1>7. Tells(k, c, v)
  BY DEF Tells
<1> HIDE DEF d, x, v
<1>8. Granted(x, d) /\ Handed(x, d) = v /\ d.chip = c
  <2>1. x.want # 0 /\ Len(v) = x.want
    BY <1>2, <1>3
  <2>2. Granted(x, Says(v, c)) /\ Handed(x, Says(v, c)) = v
    BY <2>1, DataGrants
  <2> QED BY <1>3, <2>2, SaysIs
<1>9. Tells(k, d.chip, Result(k, <<Handed(x, d)>>, s))
  BY <1>6, <1>7, <1>8
<1> QED BY <1>1, <1>5, <1>8, <1>9 DEF Kept, x, d

(* A command that changes the chip to e unless the chip bars it. *)
LEMMA ChangeKept ==
  ASSUME NEW k, NEW s, NEW c, NEW e,
         NEW x, ChipCommands(k, s) = <<x>>, x.want = 0,
         Allowed(k, c) => Does(x, c) = Says(<< 0 >>, e) /\ Tells(k, e, <<>>),
         ~Allowed(k, c) => Does(x, c) = Says(<< 15 >>, c),
         k.cmd \in {"ProvisionSlot", "LockConfigZone", "LockDataZone", "LockSlot"}
  PROVE  Kept(k, s, x, c)
<1> DEFINE d == Does(x, c)
<1>1. Result(k, <<<<>>>>, s) = <<>>
  BY DEF Result
<1>00. /\ Allowed(k, c) => d = Says(<<0>>, e) /\ Tells(k, e, <<>>)
       /\ ~Allowed(k, c) => d = Says(<<15>>, c)
  OBVIOUS
<1> HIDE DEF d
<1>2. CASE ~Allowed(k, c)
  <2>1. d = Says(<<15>>, c) /\ 15 \in Nat /\ 15 # 0
    BY <1>00, <1>2
  <2>2. ~Granted(x, d)
    BY <2>1, StatusGrants
  <2> QED BY <1>2, <2>2 DEF Kept, d
<1>3. CASE Allowed(k, c)
  <2>1. d = Says(<<0>>, e) /\ 0 \in Nat
    BY <1>00, <1>3
  <2>2. Granted(x, d) /\ Handed(x, d) = <<>> /\ d.chip = e
    BY <2>1, StatusGrants
  <2>3. Tells(k, d.chip, Result(k, <<Handed(x, d)>>, s))
    BY <1>00, <1>1, <1>3, <2>2, Zenon
  <2> QED BY <1>3, <2>2, <2>3 DEF Kept, d
<1> QED BY <1>2, <1>3

(* A secret written to its slot. *)
LEMMA SlotWriteKept ==
  ASSUME NEW k, WellFormed(k), k.cmd = "ProvisionSlot", NEW c, ChipOk(c), NEW s
  PROVE  Kept(k, s, write_slot_block(k.args[1], 0, k.args[2]), c)
<1> DEFINE x == write_slot_block(k.args[1], 0, k.args[2])
           f == Put(c.data, k.args[1], k.args[2])
           e == [c EXCEPT !.data = f]
<1>0. k.args[1] \in Slots /\ k.args[2] \in Bytes /\ Len(k.args[2]) = 32
  BY SlotRange DEF WellFormed, TakesSlot
<1>1. ChipCommands(k, s) = <<x>>
  BY DEF ChipCommands
<1>2. x.want = 0
  BY DEF write_slot_block, write_32, ChipCommand
<1>3. Does(x, c) = IF Writable(c, k.args[1]) THEN Says(<<0>>, e) ELSE Says(<<15>>, c)
  BY <1>0, SlotWriteServed
<1>4. Allowed(k, c) <=> Writable(c, k.args[1])
  BY DEF Allowed
<1>5. Tells(k, e, <<>>)
  <2>1. e.data = f
    BY ZoneStays, Zenon
  <2>2. k.args[1] \in DOMAIN f /\ f[k.args[1]] = k.args[2]
    BY DEF Put
  <2> HIDE DEF e, f
  <2>3. SlotBlock(e, k.args[1], 0) = k.args[2]
    BY <2>1, <2>2 DEF SlotBlock
  <2> QED BY <2>3 DEF Tells
<1>6. /\ Allowed(k, c) => Does(x, c) = Says(<<0>>, e) /\ Tells(k, e, <<>>)
      /\ ~Allowed(k, c) => Does(x, c) = Says(<<15>>, c)
  <2> HIDE DEF x, e
  <2> QED BY <1>3, <1>4, <1>5
<1>7. k.cmd \in {"ProvisionSlot", "LockConfigZone", "LockDataZone", "LockSlot"}
  OBVIOUS
<1>8. Kept(k, s, x, c)
  <2> HIDE DEF x, e
  <2> QED BY <1>1, <1>2, <1>6, <1>7, ChangeKept
<1> QED BY <1>8

(* The configuration zone locked. *)
LEMMA LockConfigKept ==
  ASSUME NEW k, WellFormed(k), k.cmd = "LockConfigZone", NEW c, ChipOk(c), NEW s
  PROVE  Kept(k, s, lock_config_zone(k.args[1]), c)
<1> DEFINE x == lock_config_zone(k.args[1])
           e == [c EXCEPT !.zone[88] = 0]
           bar == ConfigLocked(c) \/ k.args[1] # crc16(c.zone)
<1>0. k.args[1] \in Word
  BY DEF WellFormed
<1>1. ChipCommands(k, s) = <<x>>
  BY DEF ChipCommands
<1>2. x.want = 0
  BY DEF lock_config_zone, ChipCommand
<1>3. Does(x, c) = IF bar THEN Says(<<15>>, c) ELSE Says(<<0>>, e)
  BY <1>0, LockConfigServed
<1>4. Allowed(k, c) <=> ~bar
  BY DEF Allowed
<1>5. Tells(k, e, <<>>)
  <2>1. DOMAIN c.zone = 1..128
    BY DEF ChipOk, Bytes
  <2>2. e.zone[88] = 0
    <3> DEFINE y == [c.zone EXCEPT ![88] = 0]
    <3>1. e = [zone |-> y, data |-> c.data, keys |-> c.keys]
      BY DEF ChipOk
    <3>2. y[88] = 0
      BY <2>1
    <3> HIDE DEF e, y
    <3> QED BY <3>1, <3>2
  <2> HIDE DEF e
  <2> QED BY <2>2 DEF Tells, ConfigLocked
<1>6. /\ Allowed(k, c) => Does(x, c) = Says(<<0>>, e) /\ Tells(k, e, <<>>)
      /\ ~Allowed(k, c) => Does(x, c) = Says(<<15>>, c)
  <2> HIDE DEF x, e, bar
  <2> QED BY <1>3, <1>4, <1>5
<1>7. k.cmd \in {"ProvisionSlot", "LockConfigZone", "LockDataZone", "LockSlot"}
  OBVIOUS
<1>8. Kept(k, s, x, c)
  <2> HIDE DEF x, e
  <2> QED BY <1>1, <1>2, <1>6, <1>7, ChangeKept
<1> QED BY <1>8

(* The data zone locked. *)
LEMMA LockDataKept ==
  ASSUME NEW k, WellFormed(k), k.cmd = "LockDataZone", NEW c, ChipOk(c), NEW s
  PROVE  Kept(k, s, lock_data_zone, c)
<1> DEFINE x == lock_data_zone
           e == [c EXCEPT !.zone[87] = 0]
           bar == DataLocked(c) \/ ~ConfigLocked(c)
<1>1. ChipCommands(k, s) = <<x>>
  BY DEF ChipCommands
<1>2. x.want = 0
  BY DEF lock_data_zone, ChipCommand
<1>3. Does(x, c) = IF bar THEN Says(<<15>>, c) ELSE Says(<<0>>, e)
  BY LockDataServed
<1>4. Allowed(k, c) <=> ~bar
  BY DEF Allowed
<1>5. Tells(k, e, <<>>)
  <2>1. DOMAIN c.zone = 1..128
    BY DEF ChipOk, Bytes
  <2>2. e.zone[87] = 0
    <3> DEFINE y == [c.zone EXCEPT ![87] = 0]
    <3>1. e = [zone |-> y, data |-> c.data, keys |-> c.keys]
      BY DEF ChipOk
    <3>2. y[87] = 0
      BY <2>1
    <3> HIDE DEF e, y
    <3> QED BY <3>1, <3>2
  <2> HIDE DEF e
  <2> QED BY <2>2 DEF Tells, DataLocked
<1>6. /\ Allowed(k, c) => Does(x, c) = Says(<<0>>, e) /\ Tells(k, e, <<>>)
      /\ ~Allowed(k, c) => Does(x, c) = Says(<<15>>, c)
  <2> HIDE DEF x, e, bar
  <2> QED BY <1>3, <1>4, <1>5
<1>7. k.cmd \in {"ProvisionSlot", "LockConfigZone", "LockDataZone", "LockSlot"}
  OBVIOUS
<1>8. Kept(k, s, x, c)
  <2> HIDE DEF x, e
  <2> QED BY <1>1, <1>2, <1>6, <1>7, ChangeKept
<1> QED BY <1>8

(* A slot locked. *)
LEMMA LockSlotKept ==
  ASSUME NEW k, WellFormed(k), k.cmd = "LockSlot", NEW c, ChipOk(c), NEW s
  PROVE  Kept(k, s, lock_slot(k.args[1]), c)
<1> DEFINE x == lock_slot(k.args[1])
           e == SlotClosed(c, k.args[1])
           bar == ~Lockable(c, k.args[1])
<1>0. k.args[1] \in Slots
  BY SlotRange DEF WellFormed, TakesSlot
<1>1. ChipCommands(k, s) = <<x>>
  BY DEF ChipCommands
<1>2. x.want = 0
  BY DEF lock_slot, ChipCommand
<1>3. Does(x, c) = IF bar THEN Says(<<15>>, c) ELSE Says(<<0>>, e)
  BY <1>0, LockSlotServed
<1>4. Allowed(k, c) <=> ~bar
  BY DEF Allowed
<1>5. ASSUME ~bar PROVE Tells(k, e, <<>>)
  <2>1. SlotLocked(e, k.args[1])
    BY <1>0, <1>5, SlotSealed DEF Lockable
  <2> HIDE DEF e
  <2> QED BY <2>1 DEF Tells
<1>6. /\ Allowed(k, c) => Does(x, c) = Says(<<0>>, e) /\ Tells(k, e, <<>>)
      /\ ~Allowed(k, c) => Does(x, c) = Says(<<15>>, c)
  <2> HIDE DEF x, e, bar
  <2> QED BY <1>3, <1>4, <1>5
<1>7. k.cmd \in {"ProvisionSlot", "LockConfigZone", "LockDataZone", "LockSlot"}
  OBVIOUS
<1>8. Kept(k, s, x, c)
  <2> HIDE DEF x, e
  <2> QED BY <1>1, <1>2, <1>6, <1>7, ChangeKept
<1> QED BY <1>8

(* Every method with one command keeps its word. *)
LEMMA SingleKept ==
  ASSUME NEW k, WellFormed(k), k.cmd \in SingleCalls, NEW c, ChipOk(c), NEW s
  PROVE  \E x : Kept(k, s, x, c)
BY PubkeyKept, GenKeyKept, SlotBlockKept, SlotWordKept, CounterKept, SlotWriteKept,
   LockConfigKept, LockDataKept, LockSlotKept DEF SingleCalls

(***************************************************************************)
(* Methods that read: info, read_config_zone and read_config_slot.         *)
(***************************************************************************)
(* A command that reads: the chip grants it and stays as it is. *)
Reads(x, c) ==
  LET d == Does(x, c) IN Granted(x, d) /\ Handed(x, d) = d.reply /\ d.chip = c

(* The commands of the readers read. *)
LEMMA ReadsOnly ==
  ASSUME NEW c, ChipOk(c), NEW x, x = info_revision \/ \E b \in 1..4 : x = read_config_zone[b]
  PROVE  Reads(x, c)
<1>1. PICK v : Does(x, c) = Says(v, c) /\ x.want # 0 /\ Len(v) = x.want
  <2>1. CASE x = info_revision
    <3>1. Does(x, c) = Says(Revision, c)
      BY <2>1, InfoServed
    <3>2. x.want = 4 /\ Len(Revision) = 4
      BY <2>1 DEF info_revision, ChipCommand, Revision
    <3>3. x.want # 0 /\ Len(Revision) = x.want
      BY <3>2
    <3> QED BY <3>1, <3>3
  <2>2. ASSUME NEW b \in 1..4, x = read_config_zone[b]
        PROVE  \E v : Does(x, c) = Says(v, c) /\ x.want # 0 /\ Len(v) = x.want
    <3> DEFINE v == Field(c.zone, 32 * (b - 1), 32)
    <3>1. Does(x, c) = Says(v, c) /\ x.want = 32
      BY <2>2, ConfigReadServed
    <3>2. Len(v) = 32
      <4>1. PICK m \in Nat : m = 32 * (b - 1) /\ m + 32 <= 128
        OBVIOUS
      <4>2. c.zone \in Bytes /\ m + 32 <= Len(c.zone) /\ 32 \in Nat
        BY <4>1 DEF ChipOk
      <4> QED BY <4>1, <4>2, FieldType
    <3> HIDE DEF v
    <3>3. x.want # 0 /\ Len(v) = x.want
      BY <3>1, <3>2
    <3> QED BY <3>1, <3>3
  <2> QED BY <2>1, <2>2
<1>2. Granted(x, Says(v, c)) /\ Handed(x, Says(v, c)) = v
  BY <1>1, DataGrants
<1> QED BY <1>1, <1>2, SaysIs DEF Reads

(* The four blocks of a zone make the zone. *)
LEMMA ZoneRejoined ==
  ASSUME NEW z \in Bytes, Len(z) = 128, NEW all, NEW m \in Nat,
         \A b \in 1..4 : all[m + (b - 1)] = Field(z, 32 * (b - 1), 32)
  PROVE  ZoneFrom(all, m) = z
<1>1. /\ all[m] = Field(z, 0, 32) /\ all[m + 1] = Field(z, 32, 32)
      /\ all[m + 2] = Field(z, 64, 32) /\ all[m + 3] = Field(z, 96, 32)
  <2>1. /\ 1 \in 1..4 /\ m + (1 - 1) = m /\ 32 * (1 - 1) = 0
        /\ 2 \in 1..4 /\ m + (2 - 1) = m + 1 /\ 32 * (2 - 1) = 32
        /\ 3 \in 1..4 /\ m + (3 - 1) = m + 2 /\ 32 * (3 - 1) = 64
        /\ 4 \in 1..4 /\ m + (4 - 1) = m + 3 /\ 32 * (4 - 1) = 96
    OBVIOUS
  <2>2. /\ all[m + (1 - 1)] = Field(z, 32 * (1 - 1), 32) /\ all[m + (2 - 1)] = Field(z, 32 * (2 - 1), 32)
        /\ all[m + (3 - 1)] = Field(z, 32 * (3 - 1), 32) /\ all[m + (4 - 1)] = Field(z, 32 * (4 - 1), 32)
    BY <2>1, Zenon
  <2> QED BY <2>1, <2>2
<1>2. 32 \in Nat /\ 32 + 32 = 64 /\ 32 + 32 + 32 = 96
  OBVIOUS
<1>3. Field(z, 0, 32) \o Field(z, 32, 32) \o Field(z, 32 + 32, 32) \o Field(z, 32 + 32 + 32, 32) = z
  <2>1. PICK n \in Nat : n = 32 /\ Len(z) = n + n + n + n
    OBVIOUS
  <2>2. Field(z, 0, n) \o Field(z, n, n) \o Field(z, n + n, n) \o Field(z, n + n + n, n) = z
    BY <2>1, BlocksRejoin, Zenon
  <2> QED BY <2>1, <2>2, Zenon
<1>4. Field(z, 0, 32) \o Field(z, 32, 32) \o Field(z, 64, 32) \o Field(z, 96, 32) = z
  BY <1>2, <1>3, Zenon
<1> QED BY <1>1, <1>4, Zenon DEF ZoneFrom

(* The commands of a reader. *)
LEMMA ReaderCommands ==
  ASSUME NEW k, k.cmd \in Readers, NEW s, NEW f, f = ChipCommands(k, s), NEW i \in 1..Len(f)
  PROVE  f[i] = info_revision \/ \E b \in 1..4 : f[i] = read_config_zone[b]
<1>1. CASE k.cmd # "Info"
  <2>1. f = read_config_zone
    BY <1>1 DEF ChipCommands, Readers
  <2>2. i \in 1..4
    BY <2>1, ConfigReads
  <2> QED BY <2>1, <2>2
<1>2. CASE k.cmd = "Info"
  <2>1. /\ Len(f) = (IF s = <<>> THEN 9 ELSE 5) /\ f[1] = info_revision
        /\ \A b \in 1..4 : f[1 + b] = read_config_zone[b]
        /\ s = <<>> => \A b \in 1..4 : f[5 + b] = read_config_zone[b]
    BY <1>2, InfoCommands
  <2>2. CASE i \in 2..5
    <3>1. PICK b \in 1..4 : i = 1 + b
      <4>1. i - 1 \in 1..4 /\ i = 1 + (i - 1)
        BY <2>2
      <4> QED BY <4>1
    <3> QED BY <2>1, <3>1, Zenon
  <2>3. CASE i \in 6..9
    <3>1. PICK b \in 1..4 : i = 5 + b
      <4>1. i - 5 \in 1..4 /\ i = 5 + (i - 5)
        BY <2>3
      <4> QED BY <4>1
    <3>2. s = <<>>
      BY <2>1, <2>3
    <3> QED BY <2>1, <3>1, <3>2, Zenon
  <2>4. i = 1 \/ i \in 2..5 \/ i \in 6..9
    BY <2>1
  <2> QED BY <2>1, <2>2, <2>3, <2>4, Zenon
<1> QED BY <1>1, <1>2

(* What a reader has read so far: the chip's own answers. *)
ReadSoFar(k, s, all, c) ==
  \A i \in 1..Len(all) : all[i] = Does(ChipCommands(k, s)[i], c).reply

(* The blocks that have been read. *)
LEMMA BlockReplies ==
  ASSUME NEW k, NEW s, NEW all \in Seq(Bytes), NEW c, ChipOk(c), ReadSoFar(k, s, all, c),
         NEW m \in Nat, m >= 1, m + 3 <= Len(all),
         \A b \in 1..4 : ChipCommands(k, s)[(m - 1) + b] = read_config_zone[b]
  PROVE  ZoneFrom(all, m) = c.zone
<1>1. c.zone \in Bytes /\ Len(c.zone) = 128
  BY DEF ChipOk
<1>2. ASSUME NEW b \in 1..4 PROVE all[m + (b - 1)] = Field(c.zone, 32 * (b - 1), 32)
  <2>1. m + (b - 1) \in 1..Len(all) /\ m + (b - 1) = (m - 1) + b
    OBVIOUS
  <2>2. all[m + (b - 1)] = Does(ChipCommands(k, s)[m + (b - 1)], c).reply
    BY <2>1, Zenon DEF ReadSoFar
  <2>3. ChipCommands(k, s)[m + (b - 1)] = read_config_zone[b]
    BY <2>1, Zenon
  <2>4. Does(read_config_zone[b], c) = Says(Field(c.zone, 32 * (b - 1), 32), c)
    BY ConfigReadServed
  <2>5. Does(read_config_zone[b], c).reply = Field(c.zone, 32 * (b - 1), 32)
    BY <2>4, SaysIs
  <2> QED BY <2>2, <2>3, <2>5, Zenon
<1> QED BY <1>1, <1>2, ZoneRejoined

(* The commands of Info: the revision, and the zone once or twice. *)
InfoPlan(f, s) ==
  /\ f[1] = info_revision /\ (s = <<>> => Len(f) = 9) /\ (s # <<>> => Len(f) = 5)
  /\ \A b \in 1..4 : f[1 + b] = read_config_zone[b]
  /\ s = <<>> => \A b \in 1..4 : f[5 + b] = read_config_zone[b]

(* Info has these commands. *)
LEMMA InfoList ==
  ASSUME NEW k, k.cmd = "Info", NEW s
  PROVE  InfoPlan(ChipCommands(k, s), s)
BY InfoCommands DEF InfoPlan

(* A serial that is not read yet, or the chip's. *)
KnownSerial(s, c) == s \in {<<>>, cached_serial(c.zone)}

(* What Info answers. *)
LEMMA InfoTells ==
  ASSUME NEW k, k.cmd = "Info", NEW c, ChipOk(c), NEW s, KnownSerial(s, c),
         NEW all \in Seq(Bytes), ReadSoFar(k, s, all, c), Len(all) = Len(ChipCommands(k, s))
  PROVE  Tells(k, c, Result(k, all, s))
<1>0. PICK f : f = ChipCommands(k, s)
  OBVIOUS
<1>1. /\ f[1] = info_revision /\ (s = <<>> => Len(f) = 9) /\ (s # <<>> => Len(f) = 5)
      /\ \A b \in 1..4 : f[1 + b] = read_config_zone[b]
      /\ s = <<>> => \A b \in 1..4 : f[5 + b] = read_config_zone[b]
  <2>1. InfoPlan(f, s)
    BY <1>0, InfoList
  <2> QED BY <2>1, Zenon DEF InfoPlan
<1>2. Len(all) >= 5 /\ (s = <<>> => Len(all) >= 9)
  <2>1. Len(all) = Len(f)
    BY <1>0
  <2> QED BY <1>1, <2>1
<1>3. all[1] = Revision
  <2>1. 1 \in 1..Len(all)
    BY <1>2
  <2>2. all[1] = Does(info_revision, c).reply
    BY <1>0, <1>1, <2>1, Zenon DEF ReadSoFar
  <2> QED BY <2>2, InfoServed, SaysIs
<1>4. ZoneFrom(all, 2) = c.zone
  <2>1. 2 \in Nat /\ 2 >= 1 /\ 2 + 3 <= Len(all) /\ 2 - 1 = 1
    BY <1>2
  <2>2. \A b \in 1..4 : f[(2 - 1) + b] = read_config_zone[b]
    BY <1>1, <2>1, Zenon
  <2> QED BY <1>0, <2>1, <2>2, BlockReplies
<1>5. s = <<>> => ZoneFrom(all, 6) = c.zone
  <2> SUFFICES ASSUME s = <<>> PROVE ZoneFrom(all, 6) = c.zone
    OBVIOUS
  <2>1. 6 \in Nat /\ 6 >= 1 /\ 6 + 3 <= Len(all) /\ 6 - 1 = 5
    BY <1>2
  <2>2. \A b \in 1..4 : f[(6 - 1) + b] = read_config_zone[b]
    BY <1>1, <2>1, Zenon
  <2> QED BY <1>0, <2>1, <2>2, BlockReplies
<1>6. Result(k, all, s) = info(all, s)
  BY DEF Result
<1>7. info(all, s) = Revision \o cached_serial(c.zone) \o (IF is_provisioned(c.zone) THEN <<1>> ELSE <<0>>)
  <2>1. s = <<>> \/ s = cached_serial(c.zone)
    BY DEF KnownSerial
  <2> QED BY <1>3, <1>4, <1>5, <2>1, Zenon DEF info
<1> QED BY <1>6, <1>7 DEF Tells

(* What the other readers answer. *)
LEMMA ZoneTells ==
  ASSUME NEW k, k.cmd = "ReadConfigZone" \/ k.cmd = "ReadConfigSlot", NEW c, ChipOk(c), NEW s,
         NEW all \in Seq(Bytes), ReadSoFar(k, s, all, c), Len(all) = Len(ChipCommands(k, s))
  PROVE  Tells(k, c, Result(k, all, s))
<1>1. ChipCommands(k, s) = read_config_zone
  BY DEF ChipCommands
<1>2. Len(all) = 4
  BY <1>1, ConfigReads
<1>3. ZoneFrom(all, 1) = c.zone
  <2>1. 1 \in Nat /\ 1 >= 1 /\ 1 + 3 <= Len(all)
    BY <1>2
  <2>2. \A b \in 1..4 : (1 - 1) + b = b
    OBVIOUS
  <2>3. \A b \in 1..4 : ChipCommands(k, s)[(1 - 1) + b] = read_config_zone[b]
    BY <1>1, <2>2, Zenon
  <2> QED BY <2>1, <2>3, BlockReplies
<1> QED BY <1>3 DEF Result, Tells

(* The serial number a method has read is the chip's. *)
LEMMA SerialRead ==
  ASSUME NEW k, k.cmd = "Info", NEW c, ChipOk(c), NEW s, s = <<>>,
         NEW all \in Seq(Bytes), ReadSoFar(k, s, all, c), Len(all) >= 5
  PROVE  cached_serial(ZoneFrom(all, 2)) = cached_serial(c.zone)
<1> DEFINE f == ChipCommands(k, s)
<1>1. \A b \in 1..4 : f[1 + b] = read_config_zone[b]
  BY InfoCommands
<1>4. ZoneFrom(all, 2) = c.zone
  <2>1. 2 \in Nat /\ 2 >= 1 /\ 2 + 3 <= Len(all) /\ 2 - 1 = 1
    OBVIOUS
  <2>2. \A b \in 1..4 : f[(2 - 1) + b] = read_config_zone[b]
    BY <1>1, <2>1, Zenon
  <2> QED BY <2>1, <2>2, BlockReplies
<1> QED BY <1>4, Zenon

(***************************************************************************)
(* write_config_zone: the writes of a block, and how far they reach.       *)
(***************************************************************************)
(* The words that a block's writes go to, one after another. *)
WordOf(b, j) == IF b = 0 THEN j + 3 ELSE IF j <= 5 THEN j - 1 ELSE j

(* How many writes a block takes. *)
Writes(b) == IF b = 0 THEN 4 ELSE IF b = 2 THEN 7 ELSE 1

(* A write of the data e at an offset, as the (m + 1)-st of a block's. *)
PartOf(b, d, m, at, e) ==
  /\ Len(e) \in {4, 32} /\ ~Barred(at, Len(e))
  /\ at >= 32 * b /\ at + Len(e) = 32 * b + Reach(b, m + 1)
  /\ \A i \in 1..Len(e) : e[i] = d[(at - 32 * b) + i]
  /\ \A i \in 1..at : i > 32 * b + Reach(b, m) => (i - 1) \div 4 \in ReadOnlyWords

(* The command x does that write. *)
Follows(b, d, m, x, c) ==
  \E w \in Nat, e \in Bytes :
    x.want = 0 /\ Does(x, c) = Stored(c, 4 * w, e) /\ PartOf(b, d, m, 4 * w, e)

(* The chip lets one word be written that is not one of its own. *)
LEMMA WordNotBarred ==
  ASSUME NEW w \in Nat, w \notin ReadOnlyWords
  PROVE  ~Barred(4 * w, 4)
<1>1. (4 * w) \div 4 = w /\ (4 * w + 4 - 1) \div 4 = w
  OBVIOUS
<1>2. w..w = {w}
  OBVIOUS
<1>3. (4 * w) \div 4 .. (4 * w + 4 - 1) \div 4 = {w}
  BY <1>1, <1>2, Zenon
<1> QED BY <1>3, Zenon DEF Barred

(* The second and the fourth block are free of them. *)
LEMMA BlockNotBarred ==
  ASSUME NEW b \in {1, 3}
  PROVE  ~Barred(32 * b, 32)
<1>1. (32 * b) \div 4 = 8 * b /\ (32 * b + 32 - 1) \div 4 = 8 * b + 7
  OBVIOUS
<1>2. \A i \in (8 * b)..(8 * b + 7) : i \notin ReadOnlyWords
  BY DEF ReadOnlyWords
<1>3. (8 * b)..(8 * b + 7) \cap ReadOnlyWords = {}
  BY <1>2, Zenon
<1> QED BY <1>1, <1>3, Zenon DEF Barred

(* The word w of the zone takes the (m + 1)-st write of a block. *)
Placed(b, m, w) ==
  /\ w \in Nat /\ w \notin ReadOnlyWords /\ WordOf(b, m + 1) \in 0..7
  /\ 4 * w + 4 = 32 * b + Reach(b, m + 1)
  /\ 4 * w - 32 * b = 4 * WordOf(b, m + 1)
  /\ \A i \in 1..(4 * w) : i > 32 * b + Reach(b, m) => (i - 1) \div 4 \in ReadOnlyWords

(* Where a word's write goes and what it skips. *)
LEMMA WordPlace ==
  ASSUME NEW b \in {0, 2}, NEW m \in Nat, m < Writes(b), NEW w, w = 8 * b + WordOf(b, m + 1)
  PROVE  Placed(b, m, w)
<1>0. m < (IF b = 0 THEN 4 ELSE 7)
  BY DEF Writes
<1>1. CASE b = 0
  <2>1. WordOf(b, m + 1) = m + 4 /\ w = m + 4
    BY <1>1 DEF WordOf
  <2>2. Reach(b, m + 1) = 16 + 4 * (m + 1)
    BY <1>1 DEF Reach
  <2>3. Reach(b, m) = (IF m = 0 THEN 0 ELSE 16 + 4 * m)
    BY <1>1 DEF Reach
  <2>4. w \in Nat /\ w \notin ReadOnlyWords /\ WordOf(b, m + 1) \in 0..7 /\ 4 * w + 4 = 32 * b + Reach(b, m + 1)
    BY <1>0, <1>1, <2>1, <2>2 DEF ReadOnlyWords
  <2>5. ASSUME NEW i \in 1..(4 * w), i > 32 * b + Reach(b, m) PROVE (i - 1) \div 4 \in ReadOnlyWords
    <3>1. i <= 16 /\ i \in Nat /\ i >= 1
      BY <1>0, <1>1, <2>1, <2>3, <2>5
    <3>2. (i - 1) \div 4 \in 0..3
      BY <3>1
    <3> QED BY <3>2 DEF ReadOnlyWords
  <2> QED BY <1>1, <2>1, <2>4, <2>5 DEF Placed
<1>2. CASE b = 2
  <2>1. WordOf(b, m + 1) = (IF m <= 4 THEN m ELSE m + 1)
    BY <1>2 DEF WordOf
  <2>2. Reach(b, m + 1) = (IF m <= 4 THEN 4 * m + 4 ELSE 4 * m + 8)
    BY <1>2 DEF Reach
  <2>3. Reach(b, m) = (IF m <= 5 THEN 4 * m ELSE 4 * m + 4)
    BY <1>2 DEF Reach
  <2>4. w \in Nat /\ w \notin ReadOnlyWords /\ WordOf(b, m + 1) \in 0..7 /\ 4 * w + 4 = 32 * b + Reach(b, m + 1)
    BY <1>0, <1>2, <2>1, <2>2 DEF ReadOnlyWords
  <2>5. ASSUME NEW i \in 1..(4 * w), i > 32 * b + Reach(b, m) PROVE (i - 1) \div 4 \in ReadOnlyWords
    <3>1. i \in 85..88
      BY <1>0, <1>2, <2>1, <2>3, <2>5
    <3>2. (i - 1) \div 4 = 21
      BY <3>1
    <3> QED BY <3>2 DEF ReadOnlyWords
  <2> QED BY <1>2, <2>1, <2>4, <2>5 DEF Placed
<1> QED BY <1>1, <1>2

(* The words of a block that is written word by word. *)
LEMMA WordList ==
  ASSUME NEW b \in {0, 2}, NEW j \in Nat, j >= 1, j <= Writes(b)
  PROVE  /\ Len(writable_words_in_block(b)) = Writes(b)
         /\ writable_words_in_block(b)[j] = WordOf(b, j)
<1>1. CASE b = 0
  <2>1. j \in {1, 2, 3, 4}
    BY <1>1 DEF Writes
  <2> QED BY <1>1, <2>1 DEF writable_words_in_block, WordOf, Writes
<1>2. CASE b = 2
  <2>1. j \in {1, 2, 3, 4, 5, 6, 7}
    BY <1>2 DEF Writes
  <2> QED BY <1>2, <2>1 DEF writable_words_in_block, WordOf, Writes
<1> QED BY <1>1, <1>2

(* One write of a block. *)
LEMMA BlockFollows ==
  ASSUME NEW c, ChipOk(c), NEW b \in {1, 3}, NEW d \in Bytes, Len(d) = 32,
         NEW f, f = write_config_block(b, d)
  PROVE  Len(f) = 1 /\ Follows(b, d, 0, f[1], c)
<1> DEFINE x == write_32("Config", config_or_otp_address(b, 0), d)
<1>1. f = <<x>>
  BY Zenon DEF write_config_block, can_write_block_in_one_transfer
<1>2. x.want = 0
  BY DEF write_32, ChipCommand
<1>3. b \in 0..3 /\ b \in Nat
  OBVIOUS
<1>4. Does(x, c) = Stored(c, 32 * b, d)
  BY <1>3, BlockWriteServed
<1> HIDE DEF x
<1>5. PICK w \in Nat : w = 8 * b /\ 4 * w = 32 * b
  BY <1>3
<1>6. PartOf(b, d, 0, 4 * w, d)
  <2>1. ~Barred(4 * w, Len(d))
    <3>1. ~Barred(32 * b, 32)
      BY BlockNotBarred
    <3> QED BY <1>5, <3>1, Zenon
  <2>2. Reach(b, 0) = 0 /\ Reach(b, 0 + 1) = 32
    BY DEF Reach
  <2>3. \A i \in 1..Len(d) : d[i] = d[(4 * w - 32 * b) + i]
    <3>1. \A i \in 1..Len(d) : (4 * w - 32 * b) + i = i
      BY <1>3, <1>5
    <3> QED BY <3>1, Zenon
  <2>4. 4 * w + Len(d) = 32 * b + Reach(b, 0 + 1)
    BY <1>3, <1>5, <2>2
  <2>5. \A i \in 1..(4 * w) : ~(i > 32 * b + Reach(b, 0))
    BY <1>3, <1>5, <2>2
  <2>6. 4 * w >= 32 * b
    BY <1>3, <1>5
  <2> QED BY <2>1, <2>3, <2>4, <2>5, <2>6 DEF PartOf
<1>7. Does(x, c) = Stored(c, 4 * w, d)
  BY <1>4, <1>5, Zenon
<1>8. Len(f) = 1 /\ f[1] = x
  BY <1>1
<1> QED BY <1>2, <1>6, <1>7, <1>8, Zenon DEF Follows

(* The writes of a block that is written word by word. *)
LEMMA WordFollows ==
  ASSUME NEW c, ChipOk(c), NEW b \in {0, 2}, NEW d \in Bytes, Len(d) = 32,
         NEW f, f = write_config_block(b, d),
         NEW m \in Nat, m < Writes(b)
  PROVE  Len(f) = Writes(b) /\ Follows(b, d, m, f[m + 1], c)
<1> DEFINE words == writable_words_in_block(b)
           n == Writes(b)
           X(i) == write_4("Config", config_or_otp_address(b, words[i]), Field(d, 4 * words[i], 4))
           v == WordOf(b, m + 1)
           w == 8 * b + v
           e == Field(d, 4 * v, 4)
           x == write_4("Config", config_or_otp_address(b, v), e)
<1>1. m + 1 \in Nat /\ m + 1 >= 1 /\ m + 1 <= n /\ m + 1 \in 1..n /\ n \in Nat
  BY DEF Writes
<1>2. Len(words) = n /\ words[m + 1] = v
  <2>1. PICK j \in Nat : j = m + 1 /\ j >= 1 /\ j <= Writes(b)
    BY <1>1
  <2> QED BY <2>1, WordList, Zenon
<1>3. f = [i \in 1..Len(words) |-> X(i)]
  <2>1. ~can_write_block_in_one_transfer(b)
    BY DEF can_write_block_in_one_transfer
  <2> QED BY <2>1, Zenon DEF write_config_block
<1> HIDE DEF words, n, v
<1>4. f = [i \in 1..n |-> X(i)] /\ f[m + 1] = x
  BY <1>1, <1>2, <1>3
<1>5. Len(f) = n
  <2> HIDE DEF X
  <2>1. f = [i \in 1..n |-> f[i]]
    BY <1>4
  <2> QED BY <1>1, <2>1, FunctionLen
<1>6. /\ w \in Nat /\ w \notin ReadOnlyWords /\ v \in 0..7
      /\ 4 * w + 4 = 32 * b + Reach(b, m + 1) /\ 4 * w - 32 * b = 4 * v
      /\ \A i \in 1..(4 * w) : i > 32 * b + Reach(b, m) => (i - 1) \div 4 \in ReadOnlyWords
  <2>1. PICK u : u = 8 * b + WordOf(b, m + 1)
    OBVIOUS
  <2>2. Placed(b, m, u)
    BY <2>1, WordPlace, Zenon
  <2>3. u = w
    BY <2>1 DEF v
  <2> HIDE DEF w
  <2> QED BY <2>2, <2>3, Zenon DEF Placed, v
<1>7. e \in Bytes /\ Len(e) = 4 /\ \A i \in 1..4 : e[i] = d[4 * v + i]
  <2>1. 4 * v \in Nat /\ 4 \in Nat /\ 4 * v + 4 <= Len(d)
    BY <1>6
  <2> QED BY <2>1, FieldType
<1> HIDE DEF e
<1>8. x.want = 0
  BY DEF write_4, ChipCommand
<1>9. Does(x, c) = Stored(c, 4 * w, e)
  <2>1. b \in 0..3
    OBVIOUS
  <2>2. Does(x, c) = Stored(c, 32 * b + 4 * v, e)
    BY <1>6, <1>7, <2>1, WordWriteServed
  <2>3. 32 * b + 4 * v = 4 * w
    BY <1>6
  <2> QED BY <2>2, <2>3, Zenon
<1> HIDE DEF x
<1>10. PartOf(b, d, m, 4 * w, e)
  <2>1. ~Barred(4 * w, 4)
    BY <1>6, WordNotBarred
  <2>2. 4 * w >= 32 * b
    BY <1>6
  <2>3. 4 \in {4, 32}
    OBVIOUS
  <2> HIDE DEF w
  <2> QED BY <1>6, <1>7, <2>1, <2>2, <2>3, Zenon DEF PartOf
<1> HIDE DEF w
<1>11. Follows(b, d, m, x, c)
  BY <1>6, <1>7, <1>8, <1>9, <1>10, Zenon DEF Follows
<1> QED BY <1>4, <1>5, <1>11 DEF n

(* The writes of a block, whichever it is. *)
LEMMA ConfigFollows ==
  ASSUME NEW c, ChipOk(c), NEW b \in Nat, b <= 3, NEW d \in Bytes, Len(d) = 32,
         NEW f, f = write_config_block(b, d), NEW m \in Nat, m < Len(f)
  PROVE  Len(f) = Writes(b) /\ Follows(b, d, m, f[m + 1], c)
<1>1. CASE b \in {1, 3}
  <2>1. Len(f) = 1 /\ Follows(b, d, 0, f[1], c)
    BY <1>1, BlockFollows
  <2>2. m = 0 /\ m + 1 = 1
    BY <2>1
  <2> QED BY <1>1, <2>1, <2>2 DEF Writes
<1>2. CASE b \in {0, 2}
  <2>0. 0 \in Nat /\ 0 < Writes(b)
    BY DEF Writes
  <2>1. Len(f) = Writes(b)
    BY <1>2, <2>0, WordFollows
  <2>2. m < Writes(b)
    BY <2>1
  <2>3. Follows(b, d, m, f[m + 1], c)
    BY <1>2, <2>2, WordFollows
  <2> QED BY <1>2, <2>1, <2>3
<1> QED BY <1>1, <1>2

(* A write leaves the lock bytes alone. *)
LEMMA WriteKeepsLock ==
  ASSUME NEW c, ChipOk(c), NEW w \in Nat, NEW p \in Bytes, Len(p) \in {4, 32}
  PROVE  Stored(c, 4 * w, p).chip.zone[88] = c.zone[88]
<1>1. PICK e : e = Stored(c, 4 * w, p)
  OBVIOUS
<1>2. e.chip.zone[88] = c.zone[88]
  BY <1>1, StoredKeeps
<1> QED BY <1>1, <1>2

(* What the two answers to a write are worth. *)
LEMMA WriteAnswers ==
  ASSUME NEW x, x.want = 0, NEW c
  PROVE  /\ ~Granted(x, Says(<<3>>, c)) /\ Handed(x, Says(<<3>>, c)) = <<>>
         /\ Granted(x, Says(<<0>>, c)) /\ Handed(x, Says(<<0>>, c)) = <<>>
<1>1. PICK e : e = Says(<<3>>, c)
  OBVIOUS
<1>2. PICK g : g = Says(<<0>>, c)
  OBVIOUS
<1>3. 3 \in Nat /\ 0 \in Nat /\ 3 # 0
  OBVIOUS
<1>4. (Granted(x, e) <=> 3 = 0) /\ Handed(x, e) = <<>>
  BY <1>1, <1>3, StatusGrants
<1>5. (Granted(x, g) <=> 0 = 0) /\ Handed(x, g) = <<>>
  BY <1>2, <1>3, StatusGrants
<1> QED BY <1>1, <1>2, <1>3, <1>4, <1>5

(* What the chip makes of a write that it does not bar. *)
LEMMA StoredAnswers ==
  ASSUME NEW c, ChipOk(c), NEW w \in Nat, NEW p \in Bytes, Len(p) \in {4, 32},
         ~Barred(4 * w, Len(p)), NEW x, x.want = 0
  PROVE  LET e == Stored(c, 4 * w, p)
         IN  /\ Granted(x, e) <=> ~ConfigLocked(c)
             /\ Handed(x, e) = <<>>
             /\ ConfigLocked(e.chip) <=> ConfigLocked(c)
             /\ ~ConfigLocked(c) => e.chip.zone = Overwrite(c.zone, 4 * w, p)
<1> DEFINE e == Stored(c, 4 * w, p)
           z == Overwrite(c.zone, 4 * w, p)
           g == [c EXCEPT !.zone = z]
<1>1. ConfigLocked(e.chip) <=> ConfigLocked(c)
  BY WriteKeepsLock DEF ConfigLocked
<1>2. CASE ConfigLocked(c)
  <2>1. e = Says(<<3>>, c)
    BY <1>2 DEF Stored
  <2>2. ~Granted(x, e) /\ Handed(x, e) = <<>>
    BY <2>1, WriteAnswers
  <2> QED BY <1>1, <1>2, <2>2
<1>3. CASE ~ConfigLocked(c)
  <2>1. e = Says(<<0>>, g)
    BY <1>3 DEF Stored
  <2>2. g.zone = z
    <3> HIDE DEF z
    <3> QED BY ZoneOf
  <2> HIDE DEF g, e, z
  <2>3. Granted(x, e) /\ Handed(x, e) = <<>>
    BY <2>1, WriteAnswers
  <2>4. e.chip = g
    BY <2>1, SaysIs
  <2> QED BY <1>1, <1>3, <2>2, <2>3, <2>4 DEF e, z
<1> QED BY <1>2, <1>3

(* A part p of a blob, written from the offset at on, after the first n    *)
(* bytes were: the bytes between are the chip's own.                       *)
LEMMA PartGrows ==
  ASSUME NEW y, NEW blob, NEW n \in Nat, NEW at \in Nat, NEW p \in Bytes,
         NEW end \in Nat, end = at + Len(p), end <= 128,
         \A i \in 1..Len(p) : p[i] = blob[at + i],
         \A i \in 1..at : i > n => (i - 1) \div 4 \in ReadOnlyWords,
         WrittenTo(y, blob, n)
  PROVE  WrittenTo(Overwrite(y, at, p), blob, end)
<1> DEFINE z == Overwrite(y, at, p)
<1>0. Len(p) \in Nat
  BY DEF Bytes
<1>1. ASSUME NEW i \in 1..end PROVE (i - 1) \div 4 \in ReadOnlyWords \/ z[i] = blob[i]
  <2>2. i \in 1..128 /\ i \in Nat /\ i >= 1
    OBVIOUS
  <2>3. /\ i > at /\ i <= at + Len(p) => z[i] = p[i - at]
        /\ ~(i > at) => z[i] = y[i]
    BY <2>2, OverwriteAt
  <2> HIDE DEF z
  <2>4. CASE i > at
    <3>1. i <= at + Len(p) /\ i - at \in 1..Len(p) /\ at + (i - at) = i
      BY <1>0, <2>2, <2>4
    <3>2. z[i] = p[i - at]
      BY <2>3, <2>4, <3>1
    <3>3. p[i - at] = blob[at + (i - at)]
      BY <3>1, Zenon
    <3> QED BY <3>1, <3>2, <3>3, Zenon
  <2>5. CASE ~(i > at)
    <3>2. z[i] = y[i]
      BY <2>3, <2>5
    <3>3. CASE i > n
      <4>1. i \in 1..at
        BY <2>2, <2>5
      <4> QED BY <3>3, <4>1, Zenon
    <3>4. CASE ~(i > n)
      <4>1. i \in 1..n
        BY <2>2, <3>4
      <4> QED BY <3>2, <4>1, Zenon DEF WrittenTo
    <3> QED BY <3>3, <3>4
  <2> QED BY <2>4, <2>5
<1> HIDE DEF z
<1>2. WrittenTo(z, blob, end)
  BY <1>1 DEF WrittenTo
<1> QED BY <1>2 DEF z

(* The part p of a blob ends where the (m + 1)-st write of a block does. *)
InBlob(blob, b, m, at, p) ==
  /\ at + Len(p) = 32 * b + Reach(b, m + 1) /\ at + Len(p) <= 128 /\ at + Len(p) \in Nat
  /\ \A i \in 1..Len(p) : p[i] = blob[at + i]
  /\ \A i \in 1..at : i > 32 * b + Reach(b, m) => (i - 1) \div 4 \in ReadOnlyWords

(* The parts of a block are parts of the blob. *)
LEMMA PartOfBlob ==
  ASSUME NEW blob, NEW b \in Nat, b <= 3, NEW d,
         \A i \in 1..32 : d[i] = blob[32 * b + i],
         NEW m, Reach(b, m + 1) \in Nat, Reach(b, m + 1) <= 32,
         NEW at \in Nat, NEW p \in Bytes, PartOf(b, d, m, at, p)
  PROVE  InBlob(blob, b, m, at, p)
<1>1. /\ Len(p) \in {4, 32} /\ at >= 32 * b /\ at + Len(p) = 32 * b + Reach(b, m + 1)
      /\ \A i \in 1..Len(p) : p[i] = d[(at - 32 * b) + i]
      /\ \A i \in 1..at : i > 32 * b + Reach(b, m) => (i - 1) \div 4 \in ReadOnlyWords
  BY DEF PartOf
<1>21. PICK u \in Nat : u = 32 * b /\ u <= 96
  OBVIOUS
<1>22. PICK q \in Nat : q = Reach(b, m + 1) /\ q <= 32
  OBVIOUS
<1>23. PICK l \in Nat : l = Len(p)
  BY Joined, Zenon
<1>2. u = 32 * b /\ q = Reach(b, m + 1) /\ l = Len(p)
  BY <1>21, <1>22, <1>23, Zenon
<1>30. at + l = u + q /\ at >= u
  BY <1>1, <1>2, Zenon
<1>3. /\ at + l = u + q /\ at >= u /\ at + l <= 128 /\ at + l \in Nat /\ u <= 96 /\ q <= 32
  BY <1>21, <1>22, <1>30
<1>4. ASSUME NEW i \in 1..l PROVE p[i] = blob[at + i]
  <2>1. (at - u) + i \in 1..32 /\ u + ((at - u) + i) = at + i
    BY <1>3
  <2>2. p[i] = d[(at - u) + i]
    BY <1>1, <1>2, Zenon
  <2>3. d[(at - u) + i] = blob[u + ((at - u) + i)]
    BY <1>2, <2>1, Zenon
  <2> QED BY <2>1, <2>2, <2>3, Zenon
<1> QED BY <1>1, <1>2, <1>3, <1>4, Zenon DEF InBlob

(* The part of a blob's block that is written extends what is written. *)
LEMMA PartWritten ==
  ASSUME NEW blob, NEW b \in Nat, b <= 3, NEW d,
         \A i \in 1..32 : d[i] = blob[32 * b + i],
         NEW m, Reach(b, m + 1) \in Nat, Reach(b, m + 1) <= 32,
         NEW at \in Nat, NEW p \in Bytes, PartOf(b, d, m, at, p),
         Reach(b, m) \in Nat, NEW y, WrittenTo(y, blob, 32 * b + Reach(b, m))
  PROVE  WrittenTo(Overwrite(y, at, p), blob, 32 * b + Reach(b, m + 1))
<1>1. /\ at + Len(p) = 32 * b + Reach(b, m + 1) /\ at + Len(p) <= 128 /\ at + Len(p) \in Nat
      /\ \A i \in 1..Len(p) : p[i] = blob[at + i]
      /\ \A i \in 1..at : i > 32 * b + Reach(b, m) => (i - 1) \div 4 \in ReadOnlyWords
  <2>1. InBlob(blob, b, m, at, p)
    BY PartOfBlob
  <2> QED BY <2>1, Zenon DEF InBlob
<1>2. PICK n \in Nat : n = 32 * b + Reach(b, m)
  OBVIOUS
<1>3. PICK end \in Nat : end = at + Len(p) /\ end <= 128
  BY <1>1
<1>4. WrittenTo(y, blob, n) /\ \A i \in 1..at : i > n => (i - 1) \div 4 \in ReadOnlyWords
  BY <1>1, <1>2, Zenon
<1>5. WrittenTo(Overwrite(y, at, p), blob, end)
  BY <1>1, <1>3, <1>4, PartGrows
<1> QED BY <1>1, <1>3, <1>5, Zenon

(* A write that is granted extends what is written. *)
LEMMA WriteGrows ==
  ASSUME NEW c, ChipOk(c), NEW blob, NEW b \in Nat, b <= 3, NEW d,
         \A i \in 1..32 : d[i] = blob[32 * b + i],
         NEW m \in Nat, NEW x, Follows(b, d, m, x, c), Reach(b, m) \in Nat,
         Reach(b, m + 1) \in Nat, Reach(b, m + 1) <= 32
  PROVE  /\ Granted(x, Does(x, c)) <=> ~ConfigLocked(c)
         /\ Handed(x, Does(x, c)) = <<>>
         /\ ConfigLocked(Does(x, c).chip) <=> ConfigLocked(c)
         /\ Granted(x, Does(x, c)) /\ WrittenTo(c.zone, blob, 32 * b + Reach(b, m))
              => WrittenTo(Does(x, c).chip.zone, blob, 32 * b + Reach(b, m + 1))
<1> DEFINE e == Does(x, c)
<1>1. PICK w \in Nat, p \in Bytes :
        x.want = 0 /\ e = Stored(c, 4 * w, p) /\ PartOf(b, d, m, 4 * w, p)
  BY DEF Follows
<1>2. Len(p) \in {4, 32} /\ ~Barred(4 * w, Len(p)) /\ x.want = 0
  BY <1>1 DEF PartOf
<1> HIDE DEF e
<1>3. LET y == Stored(c, 4 * w, p)
      IN  /\ Granted(x, y) <=> ~ConfigLocked(c)
          /\ Handed(x, y) = <<>>
          /\ ConfigLocked(y.chip) <=> ConfigLocked(c)
          /\ ~ConfigLocked(c) => y.chip.zone = Overwrite(c.zone, 4 * w, p)
  BY <1>2, StoredAnswers
<1>4. /\ Granted(x, e) <=> ~ConfigLocked(c)
      /\ Handed(x, e) = <<>>
      /\ ConfigLocked(e.chip) <=> ConfigLocked(c)
      /\ ~ConfigLocked(c) => e.chip.zone = Overwrite(c.zone, 4 * w, p)
  BY <1>1, <1>3, Zenon
<1>5. ASSUME Granted(x, e), WrittenTo(c.zone, blob, 32 * b + Reach(b, m))
      PROVE  WrittenTo(e.chip.zone, blob, 32 * b + Reach(b, m + 1))
  <2>1. PICK at \in Nat : at = 4 * w
    OBVIOUS
  <2>2. PartOf(b, d, m, at, p)
    BY <1>1, <2>1, Zenon
  <2>6. WrittenTo(Overwrite(c.zone, at, p), blob, 32 * b + Reach(b, m + 1))
    BY <1>1, <1>5, <2>1, <2>2, PartWritten, Zenon
  <2>7. e.chip.zone = Overwrite(c.zone, at, p)
    BY <1>4, <1>5, <2>1, Zenon
  <2> QED BY <2>6, <2>7, Zenon
<1> QED BY <1>4, <1>5 DEF e

(* How far the writes of a block reach. *)
LEMMA ReachEnds ==
  ASSUME NEW b \in Nat, b <= 3
  PROVE  /\ Reach(b, 0) = 0 /\ Reach(b, Writes(b)) = 32
         /\ \A m \in Nat : m <= Writes(b) => Reach(b, m) \in Nat /\ Reach(b, m) <= 32
<1>1. b \in {0, 1, 2, 3}
  OBVIOUS
<1> QED BY <1>1 DEF Reach, Writes

(***************************************************************************)
(* What a step of a method comes to, whichever of the chip's actions takes *)
(* it, and what is known of the method under way.                          *)
(***************************************************************************)
(* What the chip does is what Does says of the next command of the plan. *)
LEMMA AnswerIs ==
  ASSUME WireInv, ChipWork
  PROVE  /\ ChipAnswer(Frame, chip) = Does(NextCommand, chip) /\ IsCommand(NextCommand)
         /\ Fits(NextCommand) /\ Serves(NextCommand, Does(NextCommand, chip))
         /\ Len(ChipCommands(call, serial)) \in Nat
         /\ Len(replies) \in Nat /\ Len(replies) < Len(ChipCommands(call, serial))
<1>1. WellFormed(call) /\ call.cmd \notin CredentialCalls /\ ChipOk(chip) /\ replies \in Seq(Bytes)
      /\ Len(replies) < Len(ChipCommands(call, serial))
  BY DEF WireInv, ServiceInv, ChipWork, RepliesOk
<1> DEFINE f == ChipCommands(call, serial)
           n == Len(replies) + 1
           x == NextCommand
<1>2. Len(f) \in Nat /\ \A i \in 1..Len(f) : IsCommand(f[i])
  BY <1>1, MethodCommands, Zenon
<1>3. n \in 1..Len(f) /\ Len(replies) \in Nat
  BY <1>1, <1>2
<1>4. x = f[n]
  BY DEF NextCommand
<1>5. IsCommand(x)
  BY <1>2, <1>3, <1>4, Zenon
<1> HIDE DEF x
<1>6. Fits(x) /\ Serves(x, Does(x, chip))
  BY <1>1, <1>5, CommandServed, Zenon
<1>7. ChipAnswer(Frame, chip) = Does(x, chip)
  <2>1. /\ x.op \in Byte /\ x.p1 \in Byte /\ x.p2 \in Word /\ x.data \in Bytes
        /\ Len(x.data) <= 155 /\ Len(x.data) \in Nat
    BY <1>6 DEF Fits, Bytes
  <2>2. ChipAnswer(build_command_frame(x.op, x.p1, x.p2, x.data).value, chip)
          = Execute(x.op, x.p1, x.p2, x.data, chip)
    BY <2>1, CommandHeard
  <2> QED BY <2>2, Zenon DEF Does, Frame, x
<1> QED BY <1>1, <1>2, <1>3, <1>5, <1>6, <1>7, Zenon DEF x

(* What a step of a method comes to: it ends in an error on the wire, goes *)
(* on, or ends with its result.                                            *)
WentWrong(x, d) ==
  /\ stage' = "answered" /\ receive(wire').ok = FALSE /\ serial' = Cached(replies)
  /\ chip' = chip \/ chip' = d.chip
  /\ clean' => clean /\ ~Granted(x, d)

WentOn(x, d) ==
  /\ Granted(x, d) /\ chip' = d.chip /\ replies' = Append(replies, Handed(x, d))
  /\ Len(replies') # Len(ChipCommands(call, serial))
  /\ UNCHANGED <<stage, serial, wire>> /\ (clean' => clean)

WentThrough(x, d, all) ==
  /\ Granted(x, d) /\ chip' = d.chip
  /\ all = Append(replies, Handed(x, d)) /\ Len(all) = Len(ChipCommands(call, serial))
  /\ Answered(Ok(Result(call, all, serial))) /\ serial' = Cached(all) /\ (clean' => clean)

Outcome ==
  \/ WentWrong(NextCommand, Does(NextCommand, chip))
  \/ WentOn(NextCommand, Does(NextCommand, chip))
  \/ \E all : WentThrough(NextCommand, Does(NextCommand, chip), all)

(* A reply that is no grant ends the method in an error on the wire. *)
LEMMA ErrorEnds ==
  ASSUME NEW r, r \in Refused \/ \E e : r = Err(e) /\ IsError(e), Answered(r)
  PROVE  stage' = "answered" /\ receive(wire').ok = FALSE
<1>1. wire' = Respond(call, r) /\ stage' = "answered"
  BY DEF Answered
<1>2. CASE r \in Refused
  <2>1. receive(Respond(call, r)) = r /\ r.ok = FALSE
    BY <1>2, RefusalShown
  <2> QED BY <1>1, <2>1
<1>3. ASSUME NEW e, r = Err(e), IsError(e)
      PROVE  receive(wire').ok = FALSE
  <2>1. receive(Respond(call, r)) = Err(ShownAs(call.cmd, e))
    BY <1>3, ErrorShown
  <2> QED BY <1>1, <2>1, ErrIsNotOk
<1> QED BY <1>1, <1>2, <1>3

(* The chip's own answer furthers the method when it grants the command,   *)
(* and ends it in an error when it does not.                               *)
LEMMA ChipRepliesOutcome ==
  ASSUME WireInv, ChipReplies
  PROVE  Outcome
<1> DEFINE x == NextCommand
           d == Does(NextCommand, chip)
           r == Seen(x, Framed(d.reply))
           all == Append(replies, r.value)
           last == Len(all) = Len(ChipCommands(call, serial))
<1>0. /\ ChipWork /\ Take(Framed(ChipAnswer(Frame, chip).reply), ChipAnswer(Frame, chip).chip)
      /\ clean' = clean
  BY DEF ChipReplies
<1>1. Fits(x) /\ Serves(x, d) /\ ChipAnswer(Frame, chip) = d
  BY <1>0, AnswerIs
<1>2. Take(Framed(d.reply), d.chip)
  BY <1>0, <1>1
<1>3. /\ chip' = d.chip
      /\ ~r.ok => Answered(r) /\ serial' = Cached(replies)
      /\ r.ok /\ ~last => replies' = all /\ UNCHANGED <<wire, stage, serial>>
      /\ r.ok /\ last => Answered(Ok(Result(call, all, serial))) /\ serial' = Cached(all)
  BY <1>2 DEF Take, Seen
<1> HIDE DEF d, x
<1>4. /\ Granted(x, d) => r = Ok(Handed(x, d))
      /\ ~Granted(x, d) => r.ok = FALSE
  BY <1>1, GrantedReply, Zenon
<1>5. \/ \E e : r = Err(e) /\ IsError(e)
      \/ r.ok = TRUE
  <2>1. \/ r = Err(Policy(d.reply)) /\ IsError(Policy(d.reply))
        \/ r = Err([kind |-> "MalformedResponse"])
        \/ r.ok = TRUE
    BY <1>1, ServedReply, Zenon
  <2>2. "MalformedResponse" \in DOMAIN SubCodes
    BY DEF SubCodes
  <2>3. IsError([kind |-> "MalformedResponse"])
    BY <2>2, FailureKinds
  <2> QED BY <2>1, <2>3
<1> HIDE DEF r
<1>6. CASE ~Granted(x, d)
  <2>1. r.ok = FALSE
    BY <1>4, <1>6
  <2>2. stage' = "answered" /\ receive(wire').ok = FALSE
    BY <1>3, <1>5, <2>1, ErrorEnds
  <2>3. WentWrong(x, d)
    BY <1>0, <1>3, <1>6, <2>1, <2>2 DEF WentWrong
  <2> QED BY <2>3 DEF Outcome, x, d
<1>7. CASE Granted(x, d)
  <2>1. r.ok = TRUE /\ r.value = Handed(x, d)
    BY <1>4, <1>7, ErrIsNotOk
  <2>2. CASE ~last
    <3>1. WentOn(x, d)
      BY <1>0, <1>3, <1>7, <2>1, <2>2 DEF WentOn
    <3> QED BY <3>1 DEF Outcome, x, d
  <2>3. CASE last
    <3>1. WentThrough(x, d, all)
      BY <1>0, <1>3, <1>7, <2>1, <2>3 DEF WentThrough
    <3> QED BY <3>1 DEF Outcome, x, d
  <2> QED BY <2>2, <2>3
<1> QED BY <1>6, <1>7

(* A status of the chip's own ends the method in an error. *)
LEMMA ChipRefusesOutcome ==
  ASSUME WireInv, NEW status \in ChipRefusals, ChipRefuses(status)
  PROVE  Outcome
<1>0. ChipWork /\ Take(Framed(<<status>>), chip) /\ clean' = FALSE
  BY DEF ChipRefuses, Injected
<1>1. status \in Byte /\ status # 0 /\ Fits(NextCommand)
  BY <1>0, Heard, WirePathAssumption
<1>2. PICK r : r = Seen(NextCommand, Framed(<<status>>))
  OBVIOUS
<1>3. r = Err(from_status_byte(status)) /\ IsError(from_status_byte(status))
  BY <1>1, <1>2, RefusedReply
<1>4. r.ok = FALSE
  BY <1>3, ErrIsNotOk
<1>5. chip' = chip /\ Answered(r) /\ serial' = Cached(replies)
  BY <1>0, <1>2, <1>4 DEF Take, Seen
<1>6. stage' = "answered" /\ receive(wire').ok = FALSE
  BY <1>3, <1>5, ErrorEnds
<1> QED BY <1>0, <1>5, <1>6 DEF Outcome, WentWrong

(* So does a reply with a flipped bit. *)
LEMMA NoisyReplyOutcome ==
  ASSUME WireInv, NEW where \in Noise, NoisyReply(where)
  PROVE  Outcome
<1> DEFINE answer == ChipAnswer(Frame, chip)
           sent == FlipIn(Framed(answer.reply), where)
<1>0. /\ ChipWork /\ Take(sent, answer.chip) /\ sent # Framed(answer.reply) /\ clean' = FALSE
  BY DEF NoisyReply, Injected
<1>1. Fits(NextCommand) /\ Serves(NextCommand, answer) /\ answer = Does(NextCommand, chip)
  BY <1>0, AnswerIs
<1> HIDE DEF answer
<1>2. PICK r : r = Seen(NextCommand, sent)
  OBVIOUS
<1>3. r \in Refused
  BY <1>0, <1>1, <1>2, FlippedReply
<1>4. r.ok = FALSE
  BY <1>3 DEF Refused, Failure, Err
<1>5. chip' = answer.chip /\ Answered(r) /\ serial' = Cached(replies)
  BY <1>0, <1>2, <1>4 DEF Take, Seen
<1>6. stage' = "answered" /\ receive(wire').ok = FALSE
  BY <1>3, <1>5, ErrorEnds
<1> QED BY <1>0, <1>1, <1>5, <1>6 DEF Outcome, WentWrong

(* So does a bus that fails, before the command or after it. *)
LEMMA BusFailsOutcome ==
  ASSUME WireInv, NEW kind \in {"Hal", "WakeFailed", "SelfTestFailure", "Timeout"},
         NEW done \in BOOLEAN, BusFails(kind, done)
  PROVE  Outcome
<1>0. /\ ChipWork /\ (chip' = ChipAnswer(Frame, chip).chip \/ chip' = chip)
      /\ Answered(Failure(kind)) /\ serial' = Cached(replies) /\ clean' = FALSE
  BY DEF BusFails, Injected
<1>1. kind \in DOMAIN SubCodes
  BY DEF SubCodes
<1>2. PICK e : e = [kind |-> kind] /\ IsError(e) /\ Failure(kind) = Err(e)
  BY <1>1, FailureKinds
<1>3. stage' = "answered" /\ receive(wire').ok = FALSE
  BY <1>0, <1>2, ErrorEnds
<1>4. ChipAnswer(Frame, chip) = Does(NextCommand, chip)
  BY <1>0, AnswerIs
<1> QED BY <1>0, <1>3, <1>4 DEF Outcome, WentWrong

(* The methods the chip's replies decide. *)
LEMMA MethodKinds ==
  ASSUME NEW k, WellFormed(k), k.cmd \notin CredentialCalls
  PROVE  k.cmd \in Readers \/ k.cmd \in SingleCalls \/ k.cmd = "WriteConfigZone"
<1>1. k.cmd \in Commands
  BY DEF WellFormed
<1>2. k.cmd \in {"Info", "GetPubkey", "GenKey", "ReadConfigZone", "ReadConfigSlot", "WriteConfigZone",
                 "ProvisionSlot", "ReadSlotBlock", "ReadSlotWord", "ReadCounter", "LockConfigZone",
                 "LockDataZone", "LockSlot"}
  BY <1>1 DEF CredentialCalls, Commands, RuntimeOpcodes, ProvisioningOpcodes, LockOpcodes
<1> QED BY <1>2 DEF Readers, SingleCalls

(* What is known of the method under way. *)
LEMMA UnderWay ==
  ASSUME WireInv, ChipWork
  PROVE  /\ stage = "service" /\ WellFormed(call) /\ call.cmd \notin CredentialCalls /\ ChipOk(chip)
         /\ serial \in Bytes /\ replies \in Seq(Bytes) /\ RepliesOk(replies)
         /\ ask # NoCall => Progress /\ ZoneKnown
         /\ ask = NoCall \/ ask \in Asked
BY DEF WireInv, ServiceInv, ChipWork, RepliesOk

(* A reader's next command reads, and is granted. *)
LEMMA NextReads ==
  ASSUME WireInv, ChipWork, call.cmd \in Readers
  PROVE  Reads(NextCommand, chip)
<1>1. /\ Len(ChipCommands(call, serial)) \in Nat
      /\ Len(replies) \in Nat /\ Len(replies) < Len(ChipCommands(call, serial))
  BY AnswerIs
<1>2. PICK f : f = ChipCommands(call, serial)
  OBVIOUS
<1>3. Len(replies) + 1 \in 1..Len(f)
  BY <1>1, <1>2
<1>4. NextCommand = f[Len(replies) + 1]
  BY <1>2 DEF NextCommand
<1>5. f[Len(replies) + 1] = info_revision \/ \E b \in 1..4 : f[Len(replies) + 1] = read_config_zone[b]
  BY <1>2, <1>3, ReaderCommands
<1>6. ChipOk(chip)
  BY UnderWay
<1> QED BY <1>4, <1>5, <1>6, ReadsOnly

(* A method of one command is at it. *)
LEMMA NextSingle ==
  ASSUME WireInv, ChipWork, call.cmd \in SingleCalls
  PROVE  /\ Kept(call, serial, NextCommand, chip)
         /\ Len(replies) = 0 /\ Len(ChipCommands(call, serial)) = 1 /\ replies = <<>>
<1>1. PICK x : Kept(call, serial, x, chip)
  BY UnderWay, SingleKept
<1>2. ChipCommands(call, serial) = <<x>>
  BY <1>1 DEF Kept
<1>3. Len(ChipCommands(call, serial)) = 1 /\ ChipCommands(call, serial)[1] = x
  BY <1>2
<1>4. Len(replies) = 0
  BY <1>3, AnswerIs
<1>5. NextCommand = x
  BY <1>3, <1>4 DEF NextCommand
<1>6. replies = <<>>
  <2>1. replies \in Seq(Bytes)
    BY UnderWay
  <2> QED BY <1>4, <2>1
<1> QED BY <1>1, <1>3, <1>4, <1>5, <1>6

(* A write of a block is at the next of its transfers. *)
LEMMA NextWrites ==
  ASSUME WireInv, ChipWork, call.cmd = "WriteConfigZone"
  PROVE  /\ call.args[1] \in Nat /\ call.args[1] <= 3
         /\ Len(ChipCommands(call, serial)) = Writes(call.args[1])
         /\ Follows(call.args[1], call.args[2], Len(replies), NextCommand, chip)
<1>1. WellFormed(call) /\ ChipOk(chip)
  BY UnderWay
<1>2. PICK b \in Nat, d \in Bytes : b = call.args[1] /\ b <= 3 /\ d = call.args[2] /\ Len(d) = 32
  BY <1>1 DEF WellFormed
<1>3. PICK f : f = ChipCommands(call, serial) /\ f = write_config_block(b, d)
  BY <1>2 DEF ChipCommands
<1>4. Len(replies) \in Nat /\ Len(replies) < Len(f)
  BY <1>3, AnswerIs
<1>5. Len(f) = Writes(b) /\ Follows(b, d, Len(replies), f[Len(replies) + 1], chip)
  BY <1>1, <1>2, <1>3, <1>4, ConfigFollows
<1>6. NextCommand = f[Len(replies) + 1]
  BY <1>3 DEF NextCommand
<1> QED BY <1>2, <1>3, <1>5, <1>6

(* The method under way is what was typed. *)
LEMMA CallIsTyped ==
  ASSUME WireInv, stage = "service", ask # NoCall
  PROVE  call = Typed(ask, got) /\ Progress /\ ZoneKnown /\ ask \in CommandLines
<1>1. Progress /\ ZoneKnown /\ ChipOk(chip) /\ CalledAsTyped
  BY DEF WireInv, ServiceInv
<1>2. call = Typed(ask, got)
  BY <1>1, TypedIsCalled DEF CalledAsTyped
<1> QED BY <1>1, <1>2, NextCarried

(* A part of the zone. *)
LEMMA ZoneField ==
  ASSUME NEW c, ChipOk(c), NEW m \in Nat, NEW n \in Nat, m + n <= 128
  PROVE  /\ Field(c.zone, m, n) \in Bytes /\ Len(Field(c.zone, m, n)) = n
         /\ \A i \in 1..n : Field(c.zone, m, n)[i] = c.zone[m + i]
<1>1. c.zone \in Bytes /\ m + n <= Len(c.zone)
  BY DEF ChipOk
<1> QED BY <1>1, FieldType

(* Lengths that are asked for are numbers. *)
LEMMA LengthsInNat == 2 \in Nat /\ 4 \in Nat /\ 32 \in Nat
OBVIOUS

(* What info tells has fourteen bytes. *)
LEMMA InfoBytes ==
  ASSUME NEW c, ChipOk(c), NEW f \in Bytes, Len(f) = 1
  PROVE  /\ cached_serial(c.zone) \in Bytes /\ Len(cached_serial(c.zone)) = 9
         /\ Revision \in Bytes /\ Len(Revision) = 4
         /\ Revision \o cached_serial(c.zone) \in Bytes /\ Len(Revision \o cached_serial(c.zone)) = 13
         /\ Revision \o cached_serial(c.zone) \o f \in Bytes
         /\ Len(Revision \o cached_serial(c.zone) \o f) = 14
<1>0. 0 \in Nat /\ 4 \in Nat /\ 8 \in Nat /\ 5 \in Nat /\ 0 + 4 <= 128 /\ 8 + 5 <= 128
  OBVIOUS
<1>1. PICK p \in Bytes : p = Field(c.zone, 0, 4) /\ Len(p) = 4
  <2>1. Field(c.zone, 0, 4) \in Bytes /\ Len(Field(c.zone, 0, 4)) = 4
    BY <1>0, ZoneField, Zenon
  <2> QED BY <2>1, Zenon
<1>2. PICK q \in Bytes : q = Field(c.zone, 8, 5) /\ Len(q) = 5
  <2>1. Field(c.zone, 8, 5) \in Bytes /\ Len(Field(c.zone, 8, 5)) = 5
    BY <1>0, ZoneField, Zenon
  <2> QED BY <2>1, Zenon
<1>3. PICK s \in Bytes : s = cached_serial(c.zone) /\ Len(s) = 9
  <2>1. p \o q \in Bytes /\ Len(p \o q) = 4 + 5
    <3>1. p \o q \in Bytes /\ Len(p \o q) = Len(p) + Len(q)
      BY <1>1, <1>2, Joined, Zenon
    <3> QED BY <1>1, <1>2, <3>1
  <2>2. cached_serial(c.zone) = p \o q
    BY <1>1, <1>2, Zenon DEF cached_serial
  <2>3. Len(p \o q) = 9
    BY <2>1
  <2> QED BY <2>1, <2>2, <2>3, Zenon
<1>4. PICK r \in Bytes : r = Revision /\ Len(r) = 4
  <2>1. 0 \in Byte /\ 96 \in Byte /\ 3 \in Byte
    BY ByteRange
  <2>2. <<0, 0, 96, 3>> \in Bytes /\ Len(<<0, 0, 96, 3>>) = 4
    BY <2>1 DEF Bytes
  <2> QED BY <2>2 DEF Revision
<1>5. PICK t \in Bytes : t = r \o s /\ Len(t) = 13
  <2>1. r \o s \in Bytes /\ Len(r \o s) = 4 + 9
    <3>1. r \o s \in Bytes /\ Len(r \o s) = Len(r) + Len(s)
      BY <1>3, <1>4, Joined, Zenon
    <3> QED BY <1>3, <1>4, <3>1
  <2>2. Len(r \o s) = 13
    BY <2>1
  <2> QED BY <2>1, <2>2, Zenon
<1>6. t \o f \in Bytes /\ Len(t \o f) = 14
  <2>1. t \o f \in Bytes /\ Len(t \o f) = 13 + 1
    <3>1. t \o f \in Bytes /\ Len(t \o f) = Len(t) + Len(f)
      BY <1>5, Joined, Zenon
    <3> QED BY <1>5, <3>1
  <2> QED BY <2>1
<1> QED BY <1>3, <1>4, <1>5, <1>6

(* The flag of info is one byte. *)
LEMMA FlagBytes ==
  ASSUME NEW z
  PROVE  \E f \in Bytes : f = (IF is_provisioned(z) THEN <<1>> ELSE <<0>>) /\ Len(f) = 1
<1>1. 1 \in Byte /\ 0 \in Byte
  BY ByteRange
<1>2. <<1>> \in Bytes /\ <<0>> \in Bytes /\ Len(<<1>>) = 1 /\ Len(<<0>>) = 1
  BY <1>1 DEF Bytes
<1> QED BY <1>2, Zenon

(* The length of a true answer, by command. *)
LEMMA TellsBytes ==
  ASSUME NEW k, WellFormed(k), NEW c, ChipOk(c), NEW v, Tells(k, c, v)
  PROVE  /\ v \in Bytes
         /\ k.cmd = "Info" => Len(v) = 14
         /\ k.cmd \in {"ReadConfigZone", "ReadSlotBlock"} => Len(v) = 32
         /\ k.cmd \in {"ReadConfigSlot", "ReadSlotWord", "ReadCounter"} => Len(v) = 4
         /\ k.cmd \in {"GetPubkey", "GenKey"} => Len(v) = 64
         /\ k.cmd \notin {"Info", "ReadConfigZone", "ReadSlotBlock"} \cup {"ReadConfigSlot", "ReadSlotWord", "ReadCounter"} \cup {"GetPubkey", "GenKey"} => v = <<>>
<1>1. CASE k.cmd = "Info"
  <2>1. PICK f \in Bytes : f = (IF is_provisioned(c.zone) THEN <<1>> ELSE <<0>>) /\ Len(f) = 1
    BY FlagBytes
  <2>2. v = Revision \o cached_serial(c.zone) \o f
    BY <1>1, <2>1 DEF Tells
  <2>3. v \in Bytes /\ Len(v) = 14
    BY <2>1, <2>2, InfoBytes
  <2> QED BY <1>1, <2>3
<1>2. CASE k.cmd = "ReadConfigZone"
  <2>1. PICK b \in Nat : b = k.args[1] /\ b <= 3
    BY <1>2 DEF WellFormed
  <2>2. PICK u \in Nat : u = 32 * b /\ u + 32 <= 128
    BY <2>1
  <2>3. Field(c.zone, u, 32) \in Bytes /\ Len(Field(c.zone, u, 32)) = 32
    BY <2>2, LengthsInNat, ZoneField, Zenon
  <2>4. v = Field(c.zone, u, 32)
    BY <1>2, <2>1, <2>2 DEF Tells
  <2> QED BY <1>2, <2>3, <2>4
<1>3. CASE k.cmd = "ReadConfigSlot"
  <2>1. PICK b \in Nat : b = k.args[1] /\ b <= 15
    BY <1>3 DEF WellFormed, TakesSlot
  <2>2. PICK p \in Bytes : p = Field(c.zone, 20 + 2 * b, 2) /\ Len(p) = 2
    <3>1. PICK u \in Nat : u = 20 + 2 * b /\ u + 2 <= 128
      BY <2>1
    <3>2. Field(c.zone, u, 2) \in Bytes /\ Len(Field(c.zone, u, 2)) = 2
      BY <3>1, LengthsInNat, ZoneField, Zenon
    <3> QED BY <3>1, <3>2, Zenon
  <2>3. PICK q \in Bytes : q = Field(c.zone, 96 + 2 * b, 2) /\ Len(q) = 2
    <3>1. PICK u \in Nat : u = 96 + 2 * b /\ u + 2 <= 128
      BY <2>1
    <3>2. Field(c.zone, u, 2) \in Bytes /\ Len(Field(c.zone, u, 2)) = 2
      BY <3>1, LengthsInNat, ZoneField, Zenon
    <3> QED BY <3>1, <3>2, Zenon
  <2>4. p \o q \in Bytes /\ Len(p \o q) = 2 + 2
    <3>1. p \o q \in Bytes /\ Len(p \o q) = Len(p) + Len(q)
      BY <2>2, <2>3, Joined, Zenon
    <3> QED BY <2>2, <2>3, <3>1
  <2>5. v = p \o q
    BY <1>3, <2>1, <2>2, <2>3 DEF Tells, read_config_slot
  <2> QED BY <1>3, <2>4, <2>5
<1>4. CASE k.cmd \in {"ReadSlotBlock", "ReadSlotWord"}
  <2>1. PICK s \in Nat, b \in Nat : s = k.args[1] /\ b = k.args[2]
    BY <1>4 DEF WellFormed, TakesSlot, Byte
  <2>2. PICK d \in Bytes : d = SlotBlock(c, s, b) /\ Len(d) = 32
    BY SlotBlockType
  <2>3. CASE k.cmd = "ReadSlotBlock"
    <3>1. v = d
      BY <2>1, <2>2, <2>3 DEF Tells
    <3> QED BY <2>2, <2>3, <3>1
  <2>4. CASE k.cmd = "ReadSlotWord"
    <3>1. PICK o \in Nat : o = k.args[3]
      BY <2>4 DEF WellFormed, Byte
    <3>2. PICK u \in Nat : u = 4 * (o % 8) /\ u + 4 <= 32
      BY <3>1
    <3>3. Field(d, u, 4) \in Bytes /\ Len(Field(d, u, 4)) = 4
      <4>1. u + 4 <= Len(d) /\ 4 \in Nat
        BY <2>2, <3>2
      <4> QED BY <2>2, <3>2, <4>1, FieldType, Zenon
    <3>4. v = Field(d, u, 4)
      BY <2>1, <2>2, <2>4, <3>1, <3>2 DEF Tells
    <3> QED BY <2>4, <3>3, <3>4
  <2> QED BY <1>4, <2>3, <2>4
<1>5. CASE k.cmd \in {"GetPubkey", "GenKey"}
  <2>1. PICK s \in Slots : s = k.args[1]
    BY <1>5, SlotRange DEF WellFormed, TakesSlot
  <2>2. v = PublicKey(c, s)
    BY <1>5, <2>1 DEF Tells
  <2>3. v \in Bytes /\ Len(v) = 64
    BY <2>2, PublicKeyType
  <2> QED BY <1>5, <2>3
<1>6. CASE k.cmd = "ReadCounter"
  <2>1. PICK i \in 0..1 : i = k.args[1]
    BY <1>6 DEF WellFormed
  <2>2. CountOf(i) \in Bytes /\ Len(CountOf(i)) = 4
    BY CounterServed
  <2>3. v = CountOf(i)
    BY <1>6, <2>1 DEF Tells
  <2> QED BY <1>6, <2>2, <2>3
<1>7. CASE k.cmd \notin {"Info", "ReadConfigZone", "ReadSlotBlock"} \cup {"ReadConfigSlot", "ReadSlotWord", "ReadCounter"} \cup {"GetPubkey", "GenKey"}
  <2>1. v = <<>>
    BY <1>7 DEF Tells
  <2> QED BY <1>7, <2>1, SmallBytes
<1> QED BY <1>1, <1>2, <1>3, <1>4, <1>5, <1>6, <1>7

(* Which command line a block's write comes from, and with what. *)
LEMMA WriteTyped ==
  ASSUME WireInv, ChipWork, ask # NoCall, call.cmd = "WriteConfigZone"
  PROVE  /\ ask.cmd = "WriteConfig" /\ call.args[1] = Len(got)
         /\ \A i \in 1..32 : call.args[2][i] = ask.args[1][32 * Len(got) + i]
<1>1. call = Typed(ask, got) /\ ask \in CommandLines
  BY CallIsTyped DEF ChipWork
<1>2. ask.cmd # "WriteConfigZone"
  BY <1>1, LineType
<1>3. ask.cmd = "WriteConfig"
  BY <1>1, <1>2 DEF Typed
<1>4. call = [cmd |-> "WriteConfigZone",
              args |-> <<Len(got), [i \in 1..32 |-> ask.args[1][32 * Len(got) + i]]>>]
  BY <1>1, <1>3 DEF Typed
<1> QED BY <1>3, <1>4

(* A command line the documents permit asks nothing the chip's policy      *)
(* refuses.                                                                *)
LEMMA PermittedAllows ==
  ASSUME WireInv, ChipWork, ask # NoCall, Permitted(ask), call.cmd \in SingleCalls
  PROVE  Allowed(call, chip)
<1>1. call = Typed(ask, got) /\ ask \in CommandLines /\ ZoneKnown /\ Progress
  BY CallIsTyped DEF ChipWork
<1>2. CASE ask.cmd = "LockConfig"
  <2>1. call = [cmd |-> "LockConfigZone", args |-> <<crc16(chip.zone)>>] \/ call.cmd = "ReadConfigZone"
    <3>1. CalledAsTyped /\ stage = "service"
      BY DEF WireInv, ChipWork
    <3> QED BY <1>2, <3>1 DEF CalledAsTyped
  <2>2. call = [cmd |-> "LockConfigZone", args |-> <<crc16(chip.zone)>>]
    BY <2>1 DEF SingleCalls
  <2>3. ~ConfigLocked(chip)
    BY <1>2 DEF Permitted
  <2> QED BY <2>2, <2>3 DEF Allowed
<1>3. CASE ask.cmd # "LockConfig"
  <2>1. ask.cmd \notin {"ReadConfig", "WriteConfig"}
    BY <1>1 DEF Typed, SingleCalls
  <2>2. call = ask
    BY <1>1, <1>3, <2>1 DEF Typed
  <2>3. ask.cmd \in {"GetPubkey", "GenKey", "ReadSlotBlock", "ReadSlotWord", "ReadCounter"}
        \/ ask.cmd \in {"ProvisionSlot", "LockDataZone", "LockSlot"}
    <3>1. ask.cmd # "LockConfigZone"
      BY <1>1, LineType
    <3> QED BY <2>2, <3>1 DEF SingleCalls
  <2> QED BY <2>2, <2>3 DEF Allowed, Permitted
<1> QED BY <1>2, <1>3

(* A write has a transfer left. *)
LEMMA NextPlace ==
  ASSUME WireInv, ChipWork, NEW w, w = Len(ChipCommands(call, serial))
  PROVE  \E m \in Nat : m = Len(replies) /\ m + 1 <= w /\ m <= w
<1>1. PICK m \in Nat, n \in Nat : m = Len(replies) /\ n = Len(ChipCommands(call, serial)) /\ m < n
  BY AnswerIs
<1>2. m + 1 <= n /\ m <= n
  BY <1>1
<1> QED BY <1>1, <1>2, Zenon

(* What a write's next transfer does. *)
LEMMA WritesOn ==
  ASSUME WireInv, ChipWork, call.cmd = "WriteConfigZone", NEW blob,
         \A i \in 1..32 : call.args[2][i] = blob[32 * call.args[1] + i]
  PROVE  LET b == call.args[1]
             m == Len(replies)
             e == Does(NextCommand, chip)
         IN  /\ Granted(NextCommand, e) <=> ~ConfigLocked(chip)
             /\ Handed(NextCommand, e) = <<>>
             /\ ConfigLocked(e.chip) <=> ConfigLocked(chip)
             /\ Granted(NextCommand, e) /\ WrittenTo(chip.zone, blob, 32 * b + Reach(b, m))
                  => WrittenTo(e.chip.zone, blob, 32 * b + Reach(b, m + 1))
<1>1. PICK b \in Nat : b = call.args[1] /\ b <= 3 /\ Len(ChipCommands(call, serial)) = Writes(b)
                       /\ Follows(b, call.args[2], Len(replies), NextCommand, chip)
  BY NextWrites
<1>2. PICK m \in Nat : m = Len(replies) /\ m + 1 <= Writes(b) /\ m <= Writes(b)
  BY <1>1, NextPlace, Zenon
<1>3. Reach(b, m) \in Nat /\ Reach(b, m + 1) \in Nat /\ Reach(b, m + 1) <= 32
  <2>1. m + 1 \in Nat
    OBVIOUS
  <2>2. \A j \in Nat : j <= Writes(b) => Reach(b, j) \in Nat /\ Reach(b, j) <= 32
    BY <1>1, ReachEnds
  <2> QED BY <1>2, <2>1, <2>2
<1>4. ChipOk(chip)
  BY UnderWay
<1>5. \A i \in 1..32 : call.args[2][i] = blob[32 * b + i]
  BY <1>1
<1>6. Follows(b, call.args[2], m, NextCommand, chip)
  BY <1>1, <1>2
<1>7. PICK x : x = NextCommand
  OBVIOUS
<1>8. PICK d : d = call.args[2]
  OBVIOUS
<1>9. /\ Follows(b, d, m, x, chip) /\ \A i \in 1..32 : d[i] = blob[32 * b + i]
  BY <1>5, <1>6, <1>7, <1>8
<1>10. /\ Granted(x, Does(x, chip)) <=> ~ConfigLocked(chip)
       /\ Handed(x, Does(x, chip)) = <<>>
       /\ ConfigLocked(Does(x, chip).chip) <=> ConfigLocked(chip)
       /\ Granted(x, Does(x, chip)) /\ WrittenTo(chip.zone, blob, 32 * b + Reach(b, m))
            => WrittenTo(Does(x, chip).chip.zone, blob, 32 * b + Reach(b, m + 1))
  BY <1>1, <1>3, <1>4, <1>9, WriteGrows, Zenon
<1> QED BY <1>1, <1>2, <1>7, <1>10, Zenon

(* So a permitted command's every chip command is granted. *)
LEMMA PermittedGrants ==
  ASSUME WireInv, ChipWork, ask # NoCall, Permitted(ask)
  PROVE  Granted(NextCommand, Does(NextCommand, chip))
<1>1. CASE call.cmd \in Readers
  BY <1>1, NextReads DEF Reads
<1>2. CASE call.cmd \in SingleCalls
  BY <1>2, NextSingle, PermittedAllows DEF Kept
<1>3. CASE call.cmd = "WriteConfigZone"
  <2>1. /\ ask.cmd = "WriteConfig" /\ call.args[1] = Len(got)
        /\ \A i \in 1..32 : call.args[2][i] = ask.args[1][32 * Len(got) + i]
    BY <1>3, WriteTyped
  <2>2. PICK blob : blob = ask.args[1]
    OBVIOUS
  <2>3. \A i \in 1..32 : call.args[2][i] = blob[32 * call.args[1] + i]
    BY <2>1, <2>2
  <2>4. ~ConfigLocked(chip)
    BY <2>1 DEF Permitted
  <2> QED BY <1>3, <2>3, <2>4, WritesOn
<1> QED BY <1>1, <1>2, <1>3, MethodKinds, UnderWay

(* The cached serial is the chip's. *)
LEMMA CachedTrue ==
  ASSUME WireInv, ChipWork, SerialTrue, NEW all \in Seq(Bytes),
         call.cmd \in Readers => ReadSoFar(call, serial, all, chip)
  PROVE  Cached(all) = <<>> \/ Cached(all) = cached_serial(chip.zone)
<1>1. CASE call.cmd = "Info" /\ serial = <<>> /\ Len(all) >= 5
  <2>1. ReadSoFar(call, serial, all, chip) /\ ChipOk(chip)
    BY <1>1, UnderWay DEF Readers
  <2>2. cached_serial(ZoneFrom(all, 2)) = cached_serial(chip.zone)
    BY <1>1, <2>1, SerialRead
  <2> QED BY <1>1, <2>2 DEF Cached
<1>2. CASE ~(call.cmd = "Info" /\ serial = <<>> /\ Len(all) >= 5)
  BY <1>2 DEF Cached, SerialTrue
<1> QED BY <1>1, <1>2

(* No command of a method moves the serial number. *)
LEMMA SerialStays ==
  ASSUME WireInv, ChipWork, ChipOk(chip'), chip' = chip \/ chip' = Does(NextCommand, chip).chip
  PROVE  cached_serial(chip'.zone) = cached_serial(chip.zone)
<1>1. CASE chip' = chip
  BY <1>1
<1>2. CASE chip' = Does(NextCommand, chip).chip
  <2>1. ChipOk(chip) /\ IsCommand(NextCommand)
    BY UnderWay, AnswerIs
  <2>2. SameFactory(chip, chip')
    BY <1>2, <2>1, FactoryKept
  <2> QED BY <2>1, <2>2, SerialKept
<1> QED BY <1>1, <1>2

(***************************************************************************)
(* Those steps keep the invariant.                                         *)
(***************************************************************************)
(* What the invariant says while a method is under way. *)
LEMMA TruthUnderWay ==
  ASSUME TruthInv, ChipWork
  PROVE  /\ SerialTrue /\ (call.cmd \in Readers => ReadSoFar(call, serial, replies, chip))
         /\ ask.cmd = "ReadConfig" => \A b \in 1..Len(got) : got[b] = ConfigBlock(b)
         /\ ask.cmd = "WriteConfig" => Written(32 * Len(got) + Reach(Len(got), Len(replies)))
         /\ clean => ask # NoCall /\ Permitted(ask)
BY DEF TruthInv, ChipWork, RepliesTrue, ReadSoFar, BlocksKnown, WritesKept, CleanInv

(* A command of a reader leaves the chip alone. *)
LEMMA ReadConfigReads ==
  ASSUME WireInv, ChipWork, ask.cmd = "ReadConfig"
  PROVE  /\ call.cmd = "ReadConfigZone" /\ call.cmd \in Readers /\ call.args[1] = Len(got)
         /\ Does(NextCommand, chip).chip = chip
<1>1. ask # NoCall
  BY DEF NoCall
<1>2. call = Typed(ask, got)
  BY <1>1, CallIsTyped DEF ChipWork
<1>3. call.cmd = "ReadConfigZone" /\ call.args[1] = Len(got)
  BY <1>2 DEF Typed
<1>4. call.cmd \in Readers
  BY <1>3 DEF Readers
<1>5. Reads(NextCommand, chip)
  BY <1>4, NextReads
<1> QED BY <1>3, <1>4, <1>5 DEF Reads

(* A method that fails keeps the invariant. *)
LEMMA WrongTruth ==
  ASSUME WireInv, WireInv', TruthInv, ChipWork, UNCHANGED <<ask, got, shown, call>>,
         WentWrong(NextCommand, Does(NextCommand, chip))
  PROVE  TruthInv'
<1>1. /\ stage' = "answered" /\ receive(wire').ok = FALSE /\ serial' = Cached(replies)
      /\ chip' = chip \/ chip' = Does(NextCommand, chip).chip
      /\ clean' => clean /\ ~Granted(NextCommand, Does(NextCommand, chip))
  BY DEF WentWrong
<1>2. ChipOk(chip')
  BY DEF WireInv
<1>3. SerialTrue'
  <2>1. serial' = <<>> \/ serial' = cached_serial(chip.zone)
    BY <1>1, UnderWay, TruthUnderWay, CachedTrue
  <2>2. cached_serial(chip'.zone) = cached_serial(chip.zone)
    BY <1>1, <1>2, SerialStays
  <2> QED BY <2>1, <2>2 DEF SerialTrue
<1>4. BlocksKnown'
  <2>1. SUFFICES ASSUME ask.cmd = "ReadConfig"
                 PROVE  \A b \in 1..Len(got) : got[b] = ConfigBlock(b)'
    BY DEF BlocksKnown
  <2>2. chip' = chip
    BY <1>1, <2>1, ReadConfigReads
  <2> QED BY <2>1, <2>2, TruthUnderWay DEF ConfigBlock
<1>5. ~clean'
  <2>1. SUFFICES ASSUME clean' PROVE FALSE
    OBVIOUS
  <2>2. ask # NoCall /\ Permitted(ask)
    BY <1>1, <2>1, TruthUnderWay
  <2> QED BY <1>1, <2>1, <2>2, PermittedGrants
<1> QED BY <1>1, <1>3, <1>4, <1>5
        DEF TruthInv, RepliesTrue, AnswerTrue, Heeded, WritesKept, CleanInv, ShowsTheTruth,
            CleanRunSucceeds, Ended

(* A reader's replies with one more are the chip's answers still. *)
LEMMA OneMore ==
  ASSUME WireInv, ChipWork, TruthInv, call.cmd \in Readers,
         NEW all, all = Append(replies, Handed(NextCommand, Does(NextCommand, chip)))
  PROVE  ReadSoFar(call, serial, all, chip)
<1>1. PICK v : v = Handed(NextCommand, Does(NextCommand, chip)) /\ v = Does(NextCommand, chip).reply
  BY NextReads DEF Reads
<1>2. replies \in Seq(Bytes) /\ ReadSoFar(call, serial, replies, chip)
  BY UnderWay, TruthUnderWay
<1>3. v \in Bytes
  BY <1>1, AnswerIs DEF Serves
<1>4. /\ Len(all) = Len(replies) + 1 /\ Len(replies) \in Nat
      /\ all[Len(replies) + 1] = v /\ \A i \in 1..Len(replies) : all[i] = replies[i]
  BY <1>1, <1>2, <1>3, AppendProperties
<1>5. NextCommand = ChipCommands(call, serial)[Len(replies) + 1]
  BY DEF NextCommand
<1>6. ASSUME NEW i \in 1..Len(all)
      PROVE  all[i] = Does(ChipCommands(call, serial)[i], chip).reply
  <2>1. i \in 1..Len(replies) \/ i = Len(replies) + 1
    BY <1>4
  <2>2. CASE i \in 1..Len(replies)
    BY <1>2, <1>4, <2>2 DEF ReadSoFar
  <2>3. CASE i = Len(replies) + 1
    BY <1>1, <1>4, <1>5, <2>3
  <2> QED BY <2>1, <2>2, <2>3
<1> QED BY <1>6 DEF ReadSoFar

(* The zone holds one transfer more once it is granted. *)
LEMMA OneWritten ==
  ASSUME WireInv, ChipWork, TruthInv, ask.cmd = "WriteConfig",
         Granted(NextCommand, Does(NextCommand, chip)), NEW c, c = Does(NextCommand, chip).chip
  PROVE  /\ WrittenTo(c.zone, ask.args[1], 32 * Len(got) + Reach(Len(got), Len(replies) + 1))
         /\ ConfigLocked(c) <=> ConfigLocked(chip)
         /\ Len(ChipCommands(call, serial)) = Writes(Len(got))
         /\ Len(got) \in Nat /\ Len(got) <= 3
<1>1. ask # NoCall
  BY DEF NoCall
<1>2. call = Typed(ask, got)
  BY <1>1, CallIsTyped DEF ChipWork
<1>3. call.cmd = "WriteConfigZone"
  BY <1>2 DEF Typed
<1>4. /\ call.args[1] = Len(got)
      /\ \A i \in 1..32 : call.args[2][i] = ask.args[1][32 * Len(got) + i]
  BY <1>1, <1>3, WriteTyped
<1>5. PICK blob : blob = ask.args[1]
  OBVIOUS
<1>6. \A i \in 1..32 : call.args[2][i] = blob[32 * call.args[1] + i]
  BY <1>4, <1>5
<1>7. WrittenTo(chip.zone, blob, 32 * call.args[1] + Reach(call.args[1], Len(replies)))
  BY <1>4, <1>5, TruthUnderWay DEF Written
<1>8. /\ ConfigLocked(c) <=> ConfigLocked(chip)
      /\ WrittenTo(c.zone, blob, 32 * call.args[1] + Reach(call.args[1], Len(replies) + 1))
  BY <1>3, <1>6, <1>7, WritesOn, Zenon
<1>9. /\ call.args[1] \in Nat /\ call.args[1] <= 3
      /\ Len(ChipCommands(call, serial)) = Writes(call.args[1])
  BY <1>3, NextWrites
<1> QED BY <1>4, <1>5, <1>8, <1>9, Zenon

(* What the documents permit depends on the chip alone. *)
LEMMA PermittedStays ==
  ASSUME UNCHANGED <<ask, chip>>, Permitted(ask)
  PROVE  Permitted(ask)'
BY DEF Permitted

(* A write is permitted as long as the zone is open. *)
LEMMA WritePermitted ==
  ASSUME ask' = ask, ask.cmd = "WriteConfig", Permitted(ask), ConfigLocked(chip') <=> ConfigLocked(chip)
  PROVE  Permitted(ask)'
BY DEF Permitted

(* A granted command keeps a command of several requests permitted. *)
LEMMA StillPermitted ==
  ASSUME WireInv, ChipWork, TruthInv, ask # NoCall, Permitted(ask), UNCHANGED <<ask, got, call>>,
         Granted(NextCommand, Does(NextCommand, chip)), chip' = Does(NextCommand, chip).chip,
         call.cmd \in Readers \/ ask.cmd = "WriteConfig"
  PROVE  Permitted(ask)'
<1>1. CASE call.cmd \in Readers
  <2>1. chip' = chip
    BY <1>1, NextReads DEF Reads
  <2> QED BY <2>1, PermittedStays
<1>2. CASE ask.cmd = "WriteConfig"
  BY <1>2, OneWritten, WritePermitted
<1> QED BY <1>1, <1>2

(* A command that is granted and is not the last keeps the invariant. *)
LEMMA OnTruth ==
  ASSUME WireInv, WireInv', TruthInv, ChipWork, UNCHANGED <<ask, got, shown, call>>,
         WentOn(NextCommand, Does(NextCommand, chip))
  PROVE  TruthInv'
<1> DEFINE x == NextCommand
           d == Does(NextCommand, chip)
<1>1. /\ Granted(x, d) /\ chip' = d.chip /\ replies' = Append(replies, Handed(x, d))
      /\ Len(replies') # Len(ChipCommands(call, serial))
      /\ UNCHANGED <<stage, serial, wire>> /\ (clean' => clean)
  BY DEF WentOn
<1>2. ChipOk(chip') /\ stage = "service"
  BY DEF WireInv, ChipWork
<1>3. replies \in Seq(Bytes) /\ Handed(x, d) \in Bytes
  <2>1. d.reply \in Bytes
    BY AnswerIs DEF Serves
  <2> QED BY <2>1, UnderWay, SmallBytes DEF Handed
<1>4. Len(replies') = Len(replies) + 1 /\ Len(replies) \in Nat
  BY <1>1, <1>3, AppendProperties
<1>5. call.cmd \notin SingleCalls
  <2>1. SUFFICES ASSUME call.cmd \in SingleCalls PROVE FALSE
    OBVIOUS
  <2>2. Len(replies) = 0 /\ Len(ChipCommands(call, serial)) = 1
    BY <2>1, NextSingle
  <2> QED BY <1>1, <1>4, <2>2
<1>6. call.cmd \in Readers \/ call.cmd = "WriteConfigZone"
  BY <1>5, UnderWay, MethodKinds
<1>7. SerialTrue'
  <2>1. cached_serial(chip'.zone) = cached_serial(chip.zone)
    BY <1>1, <1>2, SerialStays
  <2> QED BY <1>1, <2>1, TruthUnderWay DEF SerialTrue
<1>8. RepliesTrue'
  <2>1. SUFFICES ASSUME call.cmd \in Readers
                 PROVE  ReadSoFar(call', serial', replies', chip')
    BY DEF RepliesTrue, ReadSoFar
  <2>2. chip' = chip
    BY <1>1, <2>1, NextReads DEF Reads
  <2>3. ReadSoFar(call, serial, replies', chip)
    BY <1>1, <2>1, OneMore
  <2> QED BY <1>1, <2>2, <2>3
<1>9. BlocksKnown'
  <2>1. SUFFICES ASSUME ask.cmd = "ReadConfig"
                 PROVE  \A b \in 1..Len(got) : got[b] = ConfigBlock(b)'
    BY DEF BlocksKnown
  <2>2. chip' = chip
    BY <1>1, <2>1, ReadConfigReads
  <2> QED BY <2>1, <2>2, TruthUnderWay DEF ConfigBlock
<1>10. WritesKept'
  <2>1. SUFFICES ASSUME ask.cmd = "WriteConfig"
                 PROVE  WrittenTo(chip'.zone, ask'.args[1], 32 * Len(got') + Reach(Len(got'), Len(replies')))
    BY <1>1, <1>2 DEF WritesKept, Heeded, Written
  <2>2. WrittenTo(chip'.zone, ask.args[1], 32 * Len(got) + Reach(Len(got), Len(replies) + 1))
    BY <1>1, <2>1, OneWritten
  <2> QED BY <1>4, <2>2
<1>11. CleanInv'
  <2>1. SUFFICES ASSUME clean' PROVE ask # NoCall /\ Permitted(ask)'
    BY <1>1, <1>2 DEF CleanInv
  <2>2. ask # NoCall /\ Permitted(ask)
    BY <1>1, <2>1, TruthUnderWay
  <2>3. call.cmd = "WriteConfigZone" => ask.cmd = "WriteConfig"
    BY <2>2, WriteTyped
  <2> QED BY <1>1, <1>6, <2>2, <2>3, StillPermitted
<1> QED BY <1>1, <1>2, <1>7, <1>8, <1>9, <1>10, <1>11
        DEF TruthInv, AnswerTrue, Heeded, ShowsTheTruth, CleanRunSucceeds, Ended

(* The result of a method is true of the chip it leaves. *)
LEMMA ResultTells ==
  ASSUME WireInv, TruthInv, ChipWork, Granted(NextCommand, Does(NextCommand, chip)),
         NEW all, all = Append(replies, Handed(NextCommand, Does(NextCommand, chip))),
         Len(all) = Len(ChipCommands(call, serial))
  PROVE  /\ all \in Seq(Bytes)
         /\ Tells(call, Does(NextCommand, chip).chip, Result(call, all, serial))
<1> DEFINE x == NextCommand
           d == Does(NextCommand, chip)
<1>1. PICK v \in Bytes : v = Handed(x, d)
  <2>1. d.reply \in Bytes
    BY AnswerIs DEF Serves
  <2> QED BY <2>1, SmallBytes DEF Handed
<1>2. replies \in Seq(Bytes) /\ ChipOk(chip) /\ WellFormed(call) /\ call.cmd \notin CredentialCalls
  BY UnderWay
<1>3. all \in Seq(Bytes)
  BY <1>1, <1>2, AppendProperties
<1>4. CASE call.cmd \in Readers
  <2>1. ReadSoFar(call, serial, all, chip) /\ d.chip = chip
    BY <1>4, OneMore, NextReads DEF Reads
  <2>2. CASE call.cmd = "Info"
    <3>1. KnownSerial(serial, chip)
      BY TruthUnderWay DEF SerialTrue, KnownSerial
    <3>2. Tells(call, chip, Result(call, all, serial))
      BY <1>2, <1>3, <2>1, <2>2, <3>1, InfoTells, Zenon
    <3> QED BY <1>3, <2>1, <3>2
  <2>3. CASE call.cmd = "ReadConfigZone" \/ call.cmd = "ReadConfigSlot"
    <3>1. Tells(call, chip, Result(call, all, serial))
      BY <1>2, <1>3, <2>1, <2>3, ZoneTells, Zenon
    <3> QED BY <1>3, <2>1, <3>1
  <2> QED BY <1>4, <2>2, <2>3 DEF Readers
<1>5. CASE call.cmd \in SingleCalls
  <2>1. Kept(call, serial, x, chip) /\ replies = <<>>
    BY <1>5, NextSingle
  <2>2. all = <<Handed(x, d)>>
    BY <2>1
  <2>3. Tells(call, d.chip, Result(call, <<Handed(x, d)>>, serial))
    BY <2>1 DEF Kept
  <2> QED BY <1>3, <2>2, <2>3
<1>6. CASE call.cmd = "WriteConfigZone"
  <2>1. Result(call, all, serial) = <<>>
    BY <1>6 DEF Result
  <2> QED BY <1>3, <1>6, <2>1 DEF Tells
<1> QED BY <1>2, <1>4, <1>5, <1>6, MethodKinds

(* A report holds any answer's length. *)
LEMMA ShortEnough == 4 <= 125 /\ 14 <= 125 /\ 32 <= 125 /\ 64 <= 125
OBVIOUS

(* An answer that is true fits a report, and is read back as it was sent. *)
LEMMA TellsFits ==
  ASSUME NEW k, WellFormed(k), NEW c, ChipOk(c), NEW v, Tells(k, c, v)
  PROVE  v \in Bytes /\ receive(Respond(k, Ok(v))) = Ok(v)
<1> DEFINE A == {"Info", "ReadConfigZone", "ReadSlotBlock"}
           B == {"ReadConfigSlot", "ReadSlotWord", "ReadCounter"}
           C == {"GetPubkey", "GenKey"}
<1>1. /\ v \in Bytes
      /\ k.cmd = "Info" => Len(v) = 14
      /\ k.cmd \in {"ReadConfigZone", "ReadSlotBlock"} => Len(v) = 32
      /\ k.cmd \in B => Len(v) = 4
      /\ k.cmd \in C => Len(v) = 64
      /\ k.cmd \notin A \cup B \cup C => v = <<>>
  BY TellsBytes
<1>2. Len(v) <= 125
  <2>1. CASE k.cmd \notin A \cup B \cup C
    <3>1. Len(v) = 0
      BY <1>1, <2>1, SmallBytes
    <3> QED BY <3>1
  <2>2. CASE k.cmd \in A \cup B \cup C
    <3>1. k.cmd = "Info" \/ k.cmd \in {"ReadConfigZone", "ReadSlotBlock"} \/ k.cmd \in B \/ k.cmd \in C
      BY <2>2
    <3>2. Len(v) = 14 \/ Len(v) = 32 \/ Len(v) = 4 \/ Len(v) = 64
      BY <1>1, <3>1, Zenon
    <3> QED BY <3>2, ShortEnough, Zenon
  <2> QED BY <2>1, <2>2
<1> QED BY <1>1, <1>2, SuccessShown

(* A method that ends keeps the invariant. *)
LEMMA ThroughTruth ==
  ASSUME WireInv, WireInv', TruthInv, ChipWork, UNCHANGED <<ask, got, shown, call>>,
         NEW all, WentThrough(NextCommand, Does(NextCommand, chip), all)
  PROVE  TruthInv'
<1> DEFINE x == NextCommand
           d == Does(NextCommand, chip)
           v == Result(call, all, serial)
<1>1. /\ Granted(x, d) /\ chip' = d.chip
      /\ all = Append(replies, Handed(x, d)) /\ Len(all) = Len(ChipCommands(call, serial))
      /\ wire' = Respond(call, Ok(v)) /\ stage' = "answered"
      /\ serial' = Cached(all) /\ (clean' => clean)
  BY DEF WentThrough, Answered
<1>2. ChipOk(chip') /\ stage = "service" /\ WellFormed(call)
  BY UnderWay DEF WireInv, ChipWork
<1>3. all \in Seq(Bytes) /\ Tells(call, chip', v)
  BY <1>1, ResultTells
<1>4. receive(wire').ok = TRUE /\ receive(wire').value = v
  <2>1. receive(Respond(call, Ok(v))) = Ok(v)
    BY <1>2, <1>3, TellsFits
  <2> QED BY <1>1, <2>1, ErrIsNotOk
<1> HIDE DEF v
<1>5. SerialTrue'
  <2>1. cached_serial(chip'.zone) = cached_serial(chip.zone)
    BY <1>1, <1>2, SerialStays
  <2>2. call.cmd \in Readers => ReadSoFar(call, serial, all, chip)
    BY <1>1, OneMore
  <2>3. serial' = <<>> \/ serial' = cached_serial(chip.zone)
    BY <1>1, <1>3, <2>2, TruthUnderWay, CachedTrue
  <2> QED BY <2>1, <2>3 DEF SerialTrue
<1>6. AnswerTrue'
  <2>1. ask # NoCall => call = Typed(ask, got)
    BY <1>2, CallIsTyped
  <2> QED BY <1>2, <1>3, <1>4, <2>1 DEF AnswerTrue, Typed, NoCall, WellFormed
<1>7. BlocksKnown'
  <2>1. SUFFICES ASSUME ask.cmd = "ReadConfig"
                 PROVE  \A b \in 1..Len(got) : got[b] = ConfigBlock(b)'
    BY DEF BlocksKnown
  <2>2. chip' = chip
    BY <1>1, <2>1, ReadConfigReads
  <2> QED BY <2>1, <2>2, TruthUnderWay DEF ConfigBlock
<1>8. WritesKept'
  <2>1. SUFFICES ASSUME ask.cmd = "WriteConfig"
                 PROVE  WrittenTo(chip'.zone, ask'.args[1], 32 * (Len(got') + 1))
    BY <1>1 DEF WritesKept, Written
  <2>2. /\ WrittenTo(chip'.zone, ask.args[1], 32 * Len(got) + Reach(Len(got), Len(replies) + 1))
        /\ Len(ChipCommands(call, serial)) = Writes(Len(got))
        /\ Len(got) \in Nat /\ Len(got) <= 3
    BY <1>1, <2>1, OneWritten
  <2>3. Len(all) = Len(replies) + 1
    <3>1. Handed(x, d) \in Bytes /\ replies \in Seq(Bytes)
      <4>1. d.reply \in Bytes
        BY AnswerIs DEF Serves
      <4> QED BY <4>1, UnderWay, SmallBytes DEF Handed
    <3> QED BY <1>1, <3>1, AppendProperties
  <2>4. Reach(Len(got), Len(replies) + 1) = 32
    BY <1>1, <2>2, <2>3, ReachEnds
  <2>5. 32 * Len(got) + 32 = 32 * (Len(got) + 1)
    BY <2>2
  <2> QED BY <2>2, <2>4, <2>5
<1>9. CleanInv'
  <2>1. SUFFICES ASSUME clean' PROVE ask # NoCall /\ (Going' => Permitted(ask)')
    BY <1>1, <1>4, UnderWay DEF CleanInv
  <2>2. ask # NoCall /\ Permitted(ask)
    BY <1>1, <2>1, TruthUnderWay
  <2>3. SUFFICES ASSUME Going' PROVE Permitted(ask)'
    BY <2>2
  <2>4. call.cmd \in Readers \/ ask.cmd = "WriteConfig"
    <3>1. call = Typed(ask, got)
      BY <1>2, <2>2, CallIsTyped
    <3> QED BY <2>3, <3>1 DEF Going, Typed, Readers
  <2> QED BY <1>1, <2>2, <2>4, StillPermitted
<1> QED BY <1>1, <1>5, <1>6, <1>7, <1>8, <1>9
        DEF TruthInv, RepliesTrue, ShowsTheTruth, CleanRunSucceeds, Ended

(* So whatever a step of a method comes to keeps the invariant. *)
LEMMA OutcomeTruth ==
  ASSUME WireInv, WireInv', TruthInv, ChipWork, UNCHANGED <<ask, got, shown, call>>, Outcome
  PROVE  TruthInv'
BY WrongTruth, OnTruth, ThroughTruth DEF Outcome

(***************************************************************************)
(* So do the host's and the token's.                                       *)
(***************************************************************************)
(* The invariant holds of a new token on the bench. *)
LEMMA TruthInit == Init => TruthInv
<1> SUFFICES ASSUME Init PROVE TruthInv
  OBVIOUS
<1>1. /\ stage = "idle" /\ ask = NoCall /\ serial = <<>> /\ clean = FALSE
  BY DEF Init
<1>2. ask.cmd = "none"
  BY <1>1 DEF NoCall
<1> QED BY <1>1, <1>2
        DEF TruthInv, SerialTrue, RepliesTrue, AnswerTrue, Heeded, BlocksKnown, WritesKept, CleanInv,
            ShowsTheTruth, CleanRunSucceeds, Ended

(* NewToken starts it again. *)
LEMMA NewTokenTruth ==
  ASSUME NewToken
  PROVE  TruthInv'
<1>1. /\ stage' = "idle" /\ ask' = NoCall /\ serial' = <<>> /\ clean' = FALSE
  BY DEF NewToken
<1>2. ask'.cmd = "none"
  BY <1>1 DEF NoCall
<1> QED BY <1>1, <1>2
        DEF TruthInv, SerialTrue, RepliesTrue, AnswerTrue, Heeded, BlocksKnown, WritesKept, CleanInv,
            ShowsTheTruth, CleanRunSucceeds, Ended

(* A stutter keeps the invariant. *)
LEMMA StutterTruth ==
  ASSUME TruthInv, UNCHANGED vars
  PROVE  TruthInv'
<1>1. SerialTrue' /\ RepliesTrue' /\ AnswerTrue' /\ BlocksKnown'
  BY DEF vars, TruthInv, SerialTrue, RepliesTrue, AnswerTrue, Heeded, BlocksKnown, ConfigBlock
<1>2. WritesKept' /\ (Going' <=> Going)
  BY DEF vars, TruthInv, WritesKept, Written, Heeded, Going
<1>3. Permitted(ask)' <=> Permitted(ask)
  BY DEF vars, Permitted
<1>4. CleanInv'
  BY <1>2, <1>3 DEF vars, TruthInv, CleanInv
<1>5. Truth(ask)' = Truth(ask) /\ (Achieved(ask)' <=> Achieved(ask))
  BY DEF vars, Truth, Achieved
<1>6. ShowsTheTruth' /\ CleanRunSucceeds'
  BY <1>5 DEF vars, TruthInv, ShowsTheTruth, CleanRunSucceeds, Ended
<1> QED BY <1>1, <1>2, <1>4, <1>6 DEF TruthInv

(* Decline keeps it: the command was given up, and was no longer clean. *)
LEMMA DeclineTruth ==
  ASSUME TruthInv, Decline
  PROVE  TruthInv'
<1>1. /\ stage' = "idle" /\ shown' = Failure("Aborted") /\ clean' = FALSE
      /\ UNCHANGED <<ask, got, wire, call, replies, serial, chip>>
  BY DEF Decline
<1>2. shown'.ok = FALSE
  BY <1>1 DEF Failure, Err
<1> QED BY <1>1, <1>2
        DEF TruthInv, SerialTrue, RepliesTrue, AnswerTrue, Heeded, BlocksKnown, WritesKept, CleanInv,
            ShowsTheTruth, CleanRunSucceeds, Ended

(* send_command keeps it: a report under way changes nothing. *)
LEMMA SendTruth ==
  ASSUME TruthInv, send_command
  PROVE  TruthInv'
<1>1. /\ stage = "asking" /\ stage' = "sent"
      /\ UNCHANGED <<ask, got, shown, call, replies, serial, chip, clean>>
  BY DEF send_command
<1>2. SerialTrue' /\ RepliesTrue' /\ AnswerTrue' /\ BlocksKnown'
  BY <1>1 DEF TruthInv, SerialTrue, RepliesTrue, AnswerTrue, Heeded, BlocksKnown, ConfigBlock
<1>3. WritesKept'
  BY <1>1 DEF TruthInv, WritesKept, Written, Heeded
<1>4. CleanInv'
  <2>1. clean => ask # NoCall /\ Permitted(ask)
    BY <1>1 DEF TruthInv, CleanInv
  <2>2. clean => Permitted(ask)'
    BY <1>1, <2>1, PermittedStays
  <2> QED BY <1>1, <2>1, <2>2 DEF CleanInv
<1> QED BY <1>1, <1>2, <1>3, <1>4 DEF TruthInv, ShowsTheTruth, CleanRunSucceeds, Ended

(* Stray keeps it: nobody's command is never a clean one. *)
LEMMA StrayTruth ==
  ASSUME TruthInv, NEW opcode \in StrayOpcodes, NEW line \in Asked, Stray(opcode, line)
  PROVE  TruthInv'
<1>1. /\ stage' = "sent" /\ ask' = NoCall /\ clean' = FALSE
      /\ UNCHANGED <<call, replies, serial, chip>>
  BY DEF Stray
<1>2. ask'.cmd = "none"
  BY <1>1 DEF NoCall
<1> QED BY <1>1, <1>2
        DEF TruthInv, SerialTrue, RepliesTrue, AnswerTrue, Heeded, BlocksKnown, WritesKept, CleanInv,
            ShowsTheTruth, CleanRunSucceeds, Ended

(* CredentialReturns keeps it: no credential command is among the          *)
(* permitted ones, and the serial it may cache is the chip's.              *)
LEMMA CredentialTruth ==
  ASSUME WireInv, TruthInv, CredentialReturns
  PROVE  TruthInv'
<1>1. /\ stage = "service" /\ stage' = "answered" /\ call.cmd \in CredentialCalls
      /\ UNCHANGED <<ask, got, shown, call, replies, chip, clean>>
      /\ serial' = serial \/ serial' = cached_serial(chip.zone)
  BY DEF CredentialReturns, Answered
<1>2. SerialTrue' /\ RepliesTrue' /\ BlocksKnown'
  BY <1>1 DEF TruthInv, SerialTrue, RepliesTrue, BlocksKnown, ConfigBlock
<1>3. ask # NoCall => call = Typed(ask, got) /\ ask.cmd \in CredentialCalls /\ ask.cmd # "WriteConfig"
  <2>1. SUFFICES ASSUME ask # NoCall
                 PROVE  call = Typed(ask, got) /\ ask.cmd \in CredentialCalls /\ ask.cmd # "WriteConfig"
    OBVIOUS
  <2>2. call = Typed(ask, got)
    BY <1>1, <2>1, CallIsTyped
  <2>3. call.cmd \notin {"ReadConfigZone", "WriteConfigZone", "LockConfigZone"}
    BY <1>1 DEF CredentialCalls
  <2>4. call = ask
    BY <2>2, <2>3 DEF Typed
  <2> QED BY <1>1, <2>2, <2>4 DEF CredentialCalls
<1>4. AnswerTrue'
  <2>1. WellFormed(call)
    BY <1>1 DEF WireInv, ServiceInv
  <2> QED BY <1>1, <1>3, <2>1 DEF AnswerTrue, Typed, NoCall, WellFormed
<1>5. WritesKept'
  <2>1. ask.cmd = "WriteConfig" => ask # NoCall
    BY DEF NoCall
  <2> QED BY <1>1, <1>3, <2>1 DEF WritesKept
<1>6. ~clean'
  <2>1. SUFFICES ASSUME clean PROVE FALSE
    BY <1>1
  <2>2. ask # NoCall /\ Permitted(ask)
    BY <1>1, <2>1 DEF TruthInv, CleanInv
  <2>3. ask.cmd \in CredentialCalls
    BY <1>3, <2>2
  <2> QED BY <2>2, <2>3 DEF Permitted, CredentialCalls
<1> QED BY <1>1, <1>2, <1>4, <1>5, <1>6 DEF TruthInv, CleanInv, ShowsTheTruth, CleanRunSucceeds, Ended

(* hsm-host does not refuse what the documents permit. *)
LEMMA PermittedStarts ==
  ASSUME NEW line \in CommandLines, Permitted(line), NEW g
  PROVE  main(line, g).ok
<1>1. CASE line.cmd \in {"Info", "ReadConfig", "ReadConfigSlot", "GetPubkey", "GenKey", "ReadSlotBlock",
                         "ReadSlotWord", "LockConfig", "LockDataZone", "LockSlot"}
  BY <1>1 DEF main, Single, Ok, cmd_info, cmd_read_config, cmd_read_config_slot, cmd_get_pubkey, cmd_genkey,
     cmd_read_slot_block, cmd_read_slot_word, cmd_lock_config_dangerous, cmd_lock_data_dangerous,
     cmd_lock_slot_dangerous
<1>2. CASE line.cmd = "WriteConfig"
  <2>1. Len(line.args[1]) = 128
    BY <1>2 DEF Permitted
  <2> QED BY <1>2, <2>1 DEF main, cmd_write_config, Exactly, Ok
<1>3. CASE line.cmd = "ProvisionSlot"
  <2>1. Len(line.args[2]) = 32
    BY <1>3 DEF Permitted
  <2> QED BY <1>3, <2>1 DEF main, cmd_provision_slot, Exactly, Single, Ok
<1>4. CASE line.cmd = "ReadCounter"
  <2>1. line.args[1] = 0 \/ line.args[1] = 1
    BY <1>4 DEF Permitted
  <2>2. ~(line.args[1] > 1)
    BY <2>1
  <2> QED BY <1>4, <2>2 DEF main, cmd_read_counter, Single, Ok
<1>5. line.cmd \in {"Info", "ReadConfig", "ReadConfigSlot", "GetPubkey", "GenKey", "ReadSlotBlock",
                         "ReadSlotWord", "LockConfig", "LockDataZone", "LockSlot"}
      \/ line.cmd \in {"WriteConfig", "ProvisionSlot", "ReadCounter"}
  BY DEF Permitted
<1> QED BY <1>1, <1>2, <1>3, <1>4, <1>5

(* Start keeps it: a permitted command line is not refused by hsm-host. *)
LEMMA StartTruth ==
  ASSUME TruthInv, NEW line \in Asked, Start(line)
  PROVE  TruthInv'
<1>1. /\ ask' = line /\ got' = <<>> /\ clean' = Permitted(line)
      /\ UNCHANGED <<wire, call, replies, serial, chip>>
      /\ main(line, <<>>).ok => stage' = "asking"
      /\ ~main(line, <<>>).ok => stage' = "idle" /\ shown' = main(line, <<>>)
  BY DEF Start
<1>2. line \in CommandLines /\ line # NoCall
  BY WirePathAssumption, TypedRecord
<1>3. Len(got') = 0
  BY <1>1
<1>4. SerialTrue'
  BY <1>1 DEF TruthInv, SerialTrue
<1>5. stage' = "asking" \/ stage' = "idle"
  BY <1>1
<1>6. RepliesTrue' /\ AnswerTrue'
  BY <1>5 DEF RepliesTrue, AnswerTrue, Heeded
<1>7. BlocksKnown'
  BY <1>3 DEF BlocksKnown
<1>8. WritesKept'
  <2>1. 32 * Len(got') = 0
    BY <1>3
  <2>2. Written(32 * Len(got))'
    BY <2>1 DEF Written, WrittenTo
  <2> QED BY <1>5, <2>2 DEF WritesKept, Heeded
<1>9. clean' => Permitted(ask)' /\ stage' = "asking"
  <2>1. SUFFICES ASSUME clean' PROVE Permitted(ask)' /\ stage' = "asking"
    OBVIOUS
  <2>2. Permitted(line)
    BY <1>1, <2>1
  <2>3. Permitted(ask)'
    BY <1>1, <2>2 DEF Permitted
  <2> QED BY <1>1, <1>2, <2>2, <2>3, PermittedStarts
<1>10. CleanInv'
  BY <1>1, <1>2, <1>5, <1>9 DEF CleanInv
<1>11. ShowsTheTruth' /\ CleanRunSucceeds'
  BY <1>1, <1>9 DEF ShowsTheTruth, CleanRunSucceeds, Ended
<1> QED BY <1>4, <1>6, <1>7, <1>8, <1>10, <1>11 DEF TruthInv

(* A report whose slot or counter exists is taken for the call it carries. *)
LEMMA SentTaken ==
  ASSUME NEW q, NEW k, Carries(q, k), k = [cmd |-> k.cmd, args |-> k.args],
         k.cmd \in TakesSlot => ~(k.args[1] > MAX_SLOT),
         k.cmd = "ReadCounter" => ~(k.args[1] > 1),
         NEW w, w = to_report(CommandOpcode[q.cmd], q.payload).value
  PROVE  handle_one_request(w) = Ok(k)
<1>1. /\ q.cmd = k.cmd /\ q.cmd \in Commands /\ q.payload \in Bytes /\ Len(q.payload) <= 125
      /\ ParsePayload(q.cmd, q.payload) = Ok(k.args)
  BY DEF Carries
<1>2. CommandOpcode[q.cmd] \in Byte /\ CommandFrom(CommandOpcode[q.cmd]) = q.cmd
  BY <1>1, CommandRoundTrip
<1>3. FrameParse(w) = Ok([opcode |-> CommandOpcode[q.cmd], payload |-> q.payload])
  BY <1>1, <1>2, ReportWhole
<1>4. /\ FrameParse(w).ok = TRUE /\ FrameParse(w).value.opcode = CommandOpcode[q.cmd]
      /\ FrameParse(w).value.payload = q.payload
  BY <1>3 DEF Ok
<1>5. /\ CommandFrom(FrameParse(w).value.opcode) = k.cmd
      /\ ParsePayload(k.cmd, FrameParse(w).value.payload) = Ok(k.args)
  BY <1>1, <1>2, <1>4
<1>6. k.cmd # "UnknownOpcode"
  BY <1>1 DEF Commands, RuntimeOpcodes, ProvisioningOpcodes, LockOpcodes
<1>7. Ok(k.args).ok = TRUE /\ Ok(k.args).value = k.args
  BY ErrIsNotOk
<1> QED BY <1>4, <1>5, <1>6, <1>7, Zenon DEF handle_one_request

(* The token does not reject what the documents permit. *)
LEMMA PermittedTaken ==
  ASSUME Progress, Permitted(ask)
  PROVE  /\ handle_one_request(Report) = Ok(Typed(ask, got))
         /\ Refusal(Typed(ask, got)).ok = TRUE
<1>1. /\ Carries(NextRequest, Typed(ask, got)) /\ ask \in CommandLines /\ got \in Seq(Bytes)
      /\ Len(got) < Size(ask, got)
  BY NextCarried
<1>2. PICK k : k = Typed(ask, got)
  OBVIOUS
<1>3. k = [cmd |-> k.cmd, args |-> k.args]
  BY <1>1, <1>2, TypedRecord, Zenon
<1>4. CASE ask.cmd \in {"ReadConfig", "WriteConfig", "LockConfig"}
  <2>1. k.cmd \in {"ReadConfigZone", "WriteConfigZone", "LockConfigZone"}
    BY <1>2, <1>4 DEF Typed
  <2>2. k.cmd \notin TakesSlot /\ k.cmd # "ReadCounter"
    BY <2>1 DEF TakesSlot
  <2>3. k.cmd # "LockConfigZone" => k.args[1] = Len(got) /\ Len(got) < 4
    <3>1. ask.cmd \in {"ReadConfig", "WriteConfig"} => Len(got) < 4
      BY <1>1 DEF Size
    <3> QED BY <1>2, <1>4, <3>1 DEF Typed
  <2>4. Len(got) \in Nat
    BY <1>1
  <2>5. k.cmd # "LockConfigZone" => ~(k.args[1] > 3)
    BY <2>3, <2>4
  <2>6. handle_one_request(Report) = Ok(k)
    BY <1>1, <1>2, <1>3, <2>2, SentTaken DEF Report
  <2>7. Refusal(k) = Ok(<<>>)
    BY <2>1, <2>5 DEF Refusal
  <2> QED BY <1>2, <2>6, <2>7, ErrIsNotOk
<1>5. CASE ask.cmd \notin {"ReadConfig", "WriteConfig", "LockConfig"}
  <2>1. k = ask
    BY <1>2, <1>5 DEF Typed
  <2>2. ask.cmd \in {"Info", "ReadConfigSlot", "GetPubkey", "GenKey", "ReadSlotBlock"}
        \/ ask.cmd \in {"ReadSlotWord", "ProvisionSlot", "ReadCounter", "LockDataZone", "LockSlot"}
    BY <1>5 DEF Permitted
  <2>3. k.cmd \in TakesSlot => ~(k.args[1] > MAX_SLOT)
    <3>1. SUFFICES ASSUME ask.cmd \in TakesSlot PROVE ~(ask.args[1] > MAX_SLOT)
      BY <2>1
    <3>2. ask.args[1] \in Slots \/ ask.args[1] \in {5, 6, 8}
      BY <2>2, <3>1 DEF Permitted, TakesSlot
    <3> QED BY <3>2, SlotRange DEF MAX_SLOT
  <2>4. k.cmd = "ReadCounter" => ~(k.args[1] > 1)
    <3>1. SUFFICES ASSUME ask.cmd = "ReadCounter" PROVE ~(ask.args[1] > 1)
      BY <2>1
    <3>2. ask.args[1] = 0 \/ ask.args[1] = 1
      BY <3>1 DEF Permitted
    <3> QED BY <3>2
  <2>5. handle_one_request(Report) = Ok(k)
    BY <1>1, <1>2, <1>3, <2>3, <2>4, SentTaken DEF Report
  <2>6. k.cmd \notin {"ReadConfigZone", "WriteConfigZone"}
    BY <2>1, <2>2
  <2>7. k.cmd = "ProvisionSlot" => k.args[1] \in {5, 6, 8}
    BY <2>1 DEF Permitted
  <2>8. Refusal(k) = Ok(<<>>)
    BY <2>6, <2>7 DEF Refusal
  <2> QED BY <1>2, <2>5, <2>8, ErrIsNotOk
<1> QED BY <1>4, <1>5

(* A report the token answers at once, with an error, keeps the invariant. *)
LEMMA RejectedTruth ==
  ASSUME TruthInv, stage = "sent", stage' = "answered", receive(wire').ok = FALSE, ~clean,
         UNCHANGED <<ask, got, shown, serial, chip, clean>>
  PROVE  TruthInv'
<1>1. SerialTrue' /\ BlocksKnown'
  BY DEF TruthInv, SerialTrue, BlocksKnown, ConfigBlock
<1> QED BY <1>1 DEF TruthInv, RepliesTrue, AnswerTrue, Heeded, WritesKept, CleanInv, ShowsTheTruth,
            CleanRunSucceeds, Ended

(* Dispatch keeps it: a permitted request is neither rejected nor refused. *)
LEMMA DispatchTruth ==
  ASSUME WireInv, TruthInv, Dispatch
  PROVE  TruthInv'
<1> DEFINE h == handle_one_request(wire)
<1>0. /\ stage = "sent" /\ Whole(wire) /\ (ask # NoCall => Progress /\ wire = Report)
      /\ replies' = <<>> /\ UNCHANGED <<ask, got, shown, serial, chip, clean>>
  BY DEF Dispatch, WireInv, SentInv
<1>1. clean => ask # NoCall /\ Permitted(ask)
  BY <1>0 DEF TruthInv, CleanInv
<1>2. clean => h = Ok(Typed(ask, got)) /\ Refusal(Typed(ask, got)).ok = TRUE
  BY <1>0, <1>1, PermittedTaken
<1>3. (\E s \in Rejections : h = Err(s)) \/ (\E k : h = Ok(k))
  BY <1>0, Handled, Zenon
<1> HIDE DEF h
<1>4. ASSUME NEW s \in Rejections, h = Err(s)
      PROVE  TruthInv'
  <2>1. h.ok = FALSE /\ h.error = s
    BY <1>4, ErrIsNotOk
  <2>2. wire' = write_status(s, <<>>) /\ stage' = "answered"
    BY <2>1 DEF Dispatch, h
  <2>3. receive(wire').ok = FALSE
    BY <2>2, RejectionShown
  <2>4. ~clean
    BY <1>2, <2>1, ErrIsNotOk
  <2> QED BY <1>0, <2>2, <2>3, <2>4, RejectedTruth
<1>5. ASSUME NEW k, h = Ok(k)
      PROVE  TruthInv'
  <2>1. h.ok = TRUE /\ h.value = k
    BY <1>5, ErrIsNotOk
  <2>2. clean => Refusal(k).ok = TRUE
    BY <1>2, <2>1, ErrIsNotOk
  <2>3. CASE \E e : IsError(e) /\ Refusal(k) = Err(e)
    <3>1. PICK e : IsError(e) /\ Refusal(k) = Err(e)
      BY <2>3
    <3>2. Refusal(k).ok = FALSE
      BY <3>1, ErrIsNotOk
    <3>3. wire' = Respond(k, Err(e)) /\ stage' = "answered"
      BY <2>1, <3>1, <3>2 DEF Dispatch, h
    <3>4. receive(wire') = Err(ShownAs(k.cmd, e))
      BY <3>1, <3>3, ErrorShown
    <3>5. receive(wire').ok = FALSE
      BY <3>4, ErrIsNotOk
    <3> QED BY <1>0, <2>2, <3>2, <3>3, <3>5, RejectedTruth
  <2>4. CASE Refusal(k).ok = TRUE
    <3>1. call' = k /\ stage' = "service"
      BY <2>1, <2>4 DEF Dispatch, h
    <3>2. SerialTrue' /\ BlocksKnown'
      BY <1>0, <3>1 DEF TruthInv, SerialTrue, BlocksKnown, ConfigBlock
    <3>3. Len(replies') = 0
      BY <1>0
    <3>4. RepliesTrue'
      BY <3>3 DEF RepliesTrue
    <3>5. WritesKept'
      <4>1. SUFFICES ASSUME ask.cmd = "WriteConfig"
                     PROVE  WrittenTo(chip.zone, ask.args[1], 32 * Len(got) + Reach(Len(got), Len(replies')))
        BY <1>0, <3>1 DEF WritesKept, Heeded, Written
      <4>2. ask # NoCall
        BY <4>1 DEF NoCall
      <4>3. Len(got) \in Nat /\ Len(got) <= 3
        <5>1. got \in Seq(Bytes) /\ Len(got) < Size(ask, got)
          BY <1>0, <4>2, NextCarried
        <5>2. Len(got) \in Nat /\ Len(got) < 4
          BY <4>1, <5>1 DEF Size
        <5> QED BY <5>2
      <4>4. Reach(Len(got), 0) = 0
        BY <4>3, ReachEnds
      <4>5. WrittenTo(chip.zone, ask.args[1], 32 * Len(got))
        BY <1>0, <4>1 DEF TruthInv, WritesKept, Written
      <4>6. 32 * Len(got) + 0 = 32 * Len(got)
        BY <4>3
      <4> QED BY <3>3, <4>4, <4>5, <4>6
    <3>6. CleanInv'
      <4>1. clean => Permitted(ask)'
        BY <1>0, <1>1, PermittedStays
      <4> QED BY <1>0, <1>1, <3>1, <4>1 DEF CleanInv
    <3> QED BY <3>1, <3>2, <3>4, <3>5, <3>6
            DEF TruthInv, AnswerTrue, Heeded, ShowsTheTruth, CleanRunSucceeds, Ended
  <2> QED BY <1>0, <1>5, <2>3, <2>4, CallChecked DEF h
<1> QED BY <1>3, <1>4, <1>5

(***************************************************************************)
(* The end of a command line: what it shows, and the lengths it accepts.   *)
(***************************************************************************)
(* A field of one byte holds zero when that byte of the zone does.         *)
LEMMA ZeroByte ==
  ASSUME NEW z \in Bytes, NEW m \in Nat, m + 1 <= Len(z)
  PROVE  Field(z, m, 1) = <<0>> <=> z[m + 1] = 0
<1> DEFINE f == Field(z, m, 1)
<1>1. 1 \in Nat /\ 1 \in 1..1
  OBVIOUS
<1>2. f \in Bytes /\ Len(f) = 1 /\ \A i \in 1..1 : f[i] = z[m + i]
  BY <1>1, FieldType, Zenon
<1>3. f[1] = z[m + 1]
  BY <1>1, <1>2, Zenon
<1>4. <<0>> \in Bytes /\ Len(<<0>>) = 1 /\ <<0>>[1] = 0
  BY SmallBytes DEF Bytes
<1> HIDE DEF f
<1>5. f[1] = 0 => f = <<0>>
  <2>1. PICK t \in Bytes : t = <<0>> /\ Len(t) = 1 /\ t[1] = 0
    BY <1>4
  <2>2. SUFFICES ASSUME f[1] = 0 PROVE f = t
    BY <2>1
  <2>3. \A i \in 1..Len(f) : f[i] = t[i]
    BY <1>2, <2>1, <2>2
  <2> QED BY <1>2, <2>1, <2>3, BytesEqual
<1>6. f = <<0>> => f[1] = 0
  BY <1>4
<1> QED BY <1>3, <1>5, <1>6 DEF f

(* A field of a zone, as Truth writes it. *)
Part(z, lo, n) == [i \in 1..n |-> z[lo + i]]

(* A field is that part of the zone. *)
LEMMA FieldShown ==
  ASSUME NEW c, ChipOk(c), NEW m \in Nat, NEW n \in Nat, m + n <= 128
  PROVE  Field(c.zone, m, n) = Part(c.zone, m, n)
<1>1. c.zone \in Bytes /\ Len(c.zone) = 128
  BY DEF ChipOk
<1>2. m + n <= Len(c.zone)
  BY <1>1
<1>3. SubSeq(c.zone, m + 1, m + n) = [i \in 1..n |-> c.zone[m + i]]
  BY <1>1, <1>2, BlockCut
<1> QED BY <1>3 DEF Field, Part

(* The bytes of info, cut where hsm-host cuts them. *)
LEMMA InfoCut ==
  ASSUME NEW r \in Bytes, NEW s \in Bytes, NEW f \in Bytes, Len(r) = 4, Len(s) = 9, Len(f) = 1
  PROVE  /\ SubSeq(r \o s \o f, 1, 4) = r
         /\ SubSeq(r \o s \o f, 5, 13) = s
         /\ (r \o s \o f)[14] = f[1]
<1>1. r \o s \in Bytes /\ Len(r \o s) = Len(r) + Len(s)
  BY Joined, Zenon
<1>2. PICK t \in Bytes : t = r \o s /\ Len(t) = 13
  <2>1. Len(r \o s) = 13
    BY <1>1
  <2> QED BY <1>1, <2>1
<1>3. SubSeq(t \o f, 1, 4) = r
  <2>1. SubSeq(t \o f, 0 + 1, 0 + 4) = SubSeq(t, 0 + 1, 0 + 4)
    <3>1. 0 \in Nat /\ 4 \in Nat /\ 0 + 4 <= Len(t)
      BY <1>2
    <3> QED BY <3>1, CutLeft, Zenon
  <2>2. SubSeq(r \o s, 0 + 1, 0 + 4) = SubSeq(r, 0 + 1, 0 + 4)
    <3>1. 0 \in Nat /\ 4 \in Nat /\ 0 + 4 <= Len(r)
      OBVIOUS
    <3> QED BY <3>1, CutLeft, Zenon
  <2>3. SubSeq(r, 1, Len(r)) = r
    BY CutAll
  <2>4. 0 + 1 = 1 /\ 0 + 4 = 4
    OBVIOUS
  <2> QED BY <1>2, <2>1, <2>2, <2>3, <2>4, Zenon
<1>4. SubSeq(t \o f, 5, 13) = s
  <2>1. SubSeq(t \o f, 4 + 1, 4 + 9) = SubSeq(t, 4 + 1, 4 + 9)
    <3>1. 4 \in Nat /\ 9 \in Nat /\ 4 + 9 <= Len(t)
      BY <1>2
    <3> QED BY <3>1, CutLeft, Zenon
  <2>2. SubSeq(r \o s, Len(r) + 0 + 1, Len(r) + 0 + 9) = SubSeq(s, 0 + 1, 0 + 9)
    <3>1. 0 \in Nat /\ 9 \in Nat /\ 0 + 9 <= Len(s)
      OBVIOUS
    <3> QED BY <3>1, CutRight, Zenon
  <2>3. SubSeq(s, 1, Len(s)) = s
    BY CutAll
  <2>4. 0 + 1 = 1 /\ 0 + 9 = 9 /\ 4 + 0 + 1 = 5 /\ 4 + 0 + 9 = 13 /\ 4 + 1 = 5 /\ 4 + 9 = 13
    OBVIOUS
  <2> QED BY <1>2, <2>1, <2>2, <2>3, <2>4, Zenon
<1>5. (t \o f)[14] = f[1]
  <2>1. \A i \in 1..Len(f) : (t \o f)[Len(t) + i] = f[i]
    BY Joined
  <2>2. 1 \in 1..Len(f) /\ Len(t) + 1 = 14
    BY <1>2
  <2> QED BY <2>1, <2>2
<1> QED BY <1>2, <1>3, <1>4, <1>5

(* info shows the revision, the serial number and the lock flags. *)
LEMMA InfoShown ==
  ASSUME ChipOk(chip), NEW line, line.cmd = "Info", NEW v, Tells(line, chip, v)
  PROVE  shows(line, <<v>>) = Truth(line)
<1> DEFINE z == chip.zone
           g == ConfigLocked(chip) /\ DataLocked(chip)
<1>1. PICK f \in Bytes : f = (IF is_provisioned(z) THEN <<1>> ELSE <<0>>) /\ Len(f) = 1
  BY FlagBytes
<1>2. PICK r \in Bytes : r = Revision /\ Len(r) = 4
  BY <1>1, InfoBytes
<1>3. PICK s \in Bytes : s = cached_serial(z) /\ Len(s) = 9
  BY <1>1, InfoBytes
<1>4. v = r \o s \o f
  <2>1. v = Revision \o cached_serial(z) \o f
    BY <1>1 DEF Tells
  <2> QED BY <1>2, <1>3, <2>1, Zenon
<1>5. SubSeq(v, 1, 4) = r /\ SubSeq(v, 5, 13) = s /\ v[14] = f[1]
  <2>1. SubSeq(r \o s \o f, 1, 4) = r /\ SubSeq(r \o s \o f, 5, 13) = s /\ (r \o s \o f)[14] = f[1]
    <3>1. Len(r) = 4 /\ Len(s) = 9 /\ Len(f) = 1
      BY <1>1, <1>2, <1>3
    <3> QED BY <3>1, InfoCut, Zenon
  <2> QED BY <1>4, <2>1, Zenon
<1>6. (f[1] # 0) = g
  <2>1. z \in Bytes /\ 87 \in Nat /\ 86 \in Nat /\ 87 + 1 <= Len(z) /\ 86 + 1 <= Len(z)
    BY DEF ChipOk
  <2>2. Field(z, 87, 1) = <<0>> <=> z[87 + 1] = 0
    BY <2>1, ZeroByte, Zenon
  <2>3. Field(z, 86, 1) = <<0>> <=> z[86 + 1] = 0
    BY <2>1, ZeroByte, Zenon
  <2>4. 87 + 1 = 88 /\ 86 + 1 = 87
    OBVIOUS
  <2>5. is_provisioned(z) <=> g
    BY <2>2, <2>3, <2>4, Zenon DEF is_provisioned, ConfigLocked, DataLocked
  <2>6. <<1>>[1] = 1 /\ <<0>>[1] = 0 /\ 1 # 0
    OBVIOUS
  <2>7. (f[1] # 0) <=> g
    BY <1>1, <2>5, <2>6, Zenon
  <2>8. g = TRUE \/ g = FALSE
    OBVIOUS
  <2> HIDE DEF g
  <2> QED BY <2>7, <2>8
<1>7. s = Part(z, 0, 4) \o Part(z, 8, 5)
  <2>1. 0 \in Nat /\ 4 \in Nat /\ 8 \in Nat /\ 5 \in Nat /\ 0 + 4 <= 128 /\ 8 + 5 <= 128
    OBVIOUS
  <2>2. Field(z, 0, 4) = Part(z, 0, 4) /\ Field(z, 8, 5) = Part(z, 8, 5)
    BY <2>1, FieldShown, Zenon
  <2> QED BY <1>3, <2>2, Zenon DEF cached_serial
<1>8. shows(line, <<v>>) = <<SubSeq(v, 1, 4), SubSeq(v, 5, 13), v[14] # 0>>
  <2>1. <<v>>[1] = v
    OBVIOUS
  <2> QED BY <2>1 DEF shows
<1>9. Truth(line) = <<Revision, Part(z, 0, 4) \o Part(z, 8, 5), g>>
  BY DEF Truth, Part
<1> QED BY <1>2, <1>5, <1>6, <1>7, <1>8, <1>9, Zenon

(* read-config-slot shows the two words of its slot. *)
LEMMA ConfigSlotShown ==
  ASSUME ChipOk(chip), NEW line, WellFormed(line), line.cmd = "ReadConfigSlot", NEW v, Tells(line, chip, v)
  PROVE  shows(line, <<v>>) = Truth(line)
<1> DEFINE z == chip.zone
<1>1. PICK b \in Nat : b = line.args[1] /\ b <= 15
  BY DEF WellFormed, TakesSlot
<1>2. PICK m \in Nat : m = 20 + 2 * b /\ m + 2 <= 128
  BY <1>1
<1>3. PICK h \in Nat : h = 96 + 2 * b /\ h + 2 <= 128
  BY <1>1
<1>4. PICK p \in Bytes : p = Field(z, m, 2) /\ Len(p) = 2 /\ \A i \in 1..2 : p[i] = z[m + i]
  BY <1>2, LengthsInNat, ZoneField, Zenon
<1>5. PICK q \in Bytes : q = Field(z, h, 2) /\ Len(q) = 2 /\ \A i \in 1..2 : q[i] = z[h + i]
  <2>1. /\ Field(z, h, 2) \in Bytes /\ Len(Field(z, h, 2)) = 2
        /\ \A i \in 1..2 : Field(z, h, 2)[i] = z[h + i]
    <3>1. h \in Nat /\ h + 2 <= 128
      BY <1>3
    <3> QED BY <3>1, LengthsInNat, ZoneField, Zenon
  <2> QED BY <2>1, Zenon
<1>6. v = p \o q
  <2>1. v = read_config_slot(z, b)
    BY <1>1 DEF Tells
  <2> QED BY <1>2, <1>3, <1>4, <1>5, <2>1, Zenon DEF read_config_slot
<1>7. v[1] = z[m + 1] /\ v[2] = z[m + 2] /\ v[3] = z[h + 1] /\ v[4] = z[h + 2]
  <2>1. /\ \A i \in 1..Len(p) : (p \o q)[i] = p[i]
        /\ \A i \in 1..Len(q) : (p \o q)[Len(p) + i] = q[i]
    BY Joined
  <2>2. v[1] = p[1] /\ v[2] = p[2]
    BY <1>4, <1>6, <2>1
  <2>3. v[3] = q[1] /\ v[4] = q[2]
    <3>0. Len(p) = 2 /\ Len(q) = 2
      BY <1>4, <1>5, Zenon
    <3>1. 1 \in 1..Len(q) /\ 2 \in 1..Len(q) /\ Len(p) + 1 = 3 /\ Len(p) + 2 = 4
      BY <3>0
    <3>2. (p \o q)[Len(p) + 1] = q[1] /\ (p \o q)[Len(p) + 2] = q[2]
      BY <2>1, <3>1, Zenon
    <3> QED BY <1>6, <3>1, <3>2, Zenon
  <2>4. p[1] = z[m + 1] /\ p[2] = z[m + 2]
    BY <1>4
  <2>5. q[1] = z[h + 1] /\ q[2] = z[h + 2]
    BY <1>5
  <2> QED BY <2>2, <2>3, <2>4, <2>5
<1>8. shows(line, <<v>>) = <<FromLowHigh(v[1], v[2]), FromLowHigh(v[3], v[4])>>
  <2>1. <<v>>[1] = v
    OBVIOUS
  <2> QED BY <2>1 DEF shows
<1>9. Truth(line) = <<ZoneWord(z, m), ZoneWord(z, h)>>
  BY <1>1, <1>2, <1>3 DEF Truth
<1> QED BY <1>7, <1>8, <1>9, Zenon DEF ZoneWord

(* read-counter shows the counter. *)
LEMMA CounterShown ==
  ASSUME NEW line, WellFormed(line), line.cmd = "ReadCounter", NEW v, Tells(line, chip, v)
  PROVE  shows(line, <<v>>) = Truth(line)
<1> DEFINE i == line.args[1]
<1>1. i \in 0..1
  BY DEF WellFormed
<1>2. v = CountOf(i)
  BY DEF Tells
<1>3. FromLeBytes(v) = <<1, i + 517>>
  BY <1>1, <1>2 DEF FromLeBytes, CountOf, FromLowHigh
<1>4. shows(line, <<v>>) = FromLeBytes(v)
  <2>1. <<v>>[1] = v
    OBVIOUS
  <2> QED BY <2>1 DEF shows
<1>5. Truth(line) = <<1, 5 + i + 512>>
  BY DEF Truth
<1>6. 5 + i + 512 = i + 517
  BY <1>1
<1> QED BY <1>3, <1>4, <1>5, <1>6

(* read-slot-word shows the word of the block that was named. *)
LEMMA WordShown ==
  ASSUME ChipOk(chip), NEW line, WellFormed(line), line.cmd = "ReadSlotWord", InsideBlock(line), NEW v,
         Tells(line, chip, v)
  PROVE  shows(line, <<v>>) = Truth(line)
<1> DEFINE a == line.args
<1>1. a[1] \in Nat /\ a[2] \in Nat /\ a[3] \in 0..7
  BY ByteRange DEF WellFormed, TakesSlot, InsideBlock
<1>2. PICK u \in Bytes : u = SlotBlock(chip, a[1], a[2]) /\ Len(u) = 32
  BY <1>1, SlotBlockType
<1>3. PICK m \in Nat : m = 4 * a[3] /\ m + 4 <= 32 /\ a[3] % 8 = a[3]
  BY <1>1
<1>4. v = Field(u, m, 4)
  <2>1. v = Field(SlotBlock(chip, a[1], a[2]), 4 * (a[3] % 8), 4)
    BY DEF Tells
  <2> QED BY <1>2, <1>3, <2>1, Zenon
<1>5. Field(u, m, 4) = [i \in 1..4 |-> u[m + i]]
  <2>1. m + 4 <= Len(u)
    BY <1>2, <1>3
  <2> QED BY <2>1, LengthsInNat, BlockCut DEF Field
<1>6. shows(line, <<v>>) = v
  <2>1. <<v>>[1] = v
    OBVIOUS
  <2> QED BY <2>1 DEF shows
<1>7. Truth(line) = [i \in 1..4 |-> u[m + i]]
  BY <1>2, <1>3 DEF Truth
<1> QED BY <1>4, <1>5, <1>6, <1>7, Zenon

(* The command lines that one request serves. *)
Singles == {"Info", "ReadConfigSlot", "ReadSlotBlock", "ReadSlotWord", "GetPubkey", "GenKey", "ReadCounter",
            "ProvisionSlot", "LockDataZone", "LockSlot"}

(* What a single request's answer tells is shown, and the change is made. *)
LEMMA SingleShown ==
  ASSUME ChipOk(chip), NEW line, WellFormed(line), line.cmd \in Singles, InsideBlock(line), NEW v,
         Tells(line, chip, v)
  PROVE  (line.cmd # "ProvisionSlot" => shows(line, <<v>>) = Truth(line)) /\ Achieved(line)
<1>1. Achieved(line)
  BY DEF Achieved, Tells, Singles
<1>2. CASE line.cmd \in {"Info", "ReadConfigSlot", "ReadSlotWord", "ReadCounter"}
  BY <1>1, <1>2, InfoShown, ConfigSlotShown, WordShown, CounterShown
<1>3. CASE line.cmd \notin {"Info", "ReadConfigSlot", "ReadSlotWord", "ReadCounter"}
  <2>1. <<v>>[1] = v
    OBVIOUS
  <2>2. shows(line, <<v>>) = v
    BY <1>3, <2>1 DEF shows, Singles
  <2>3. line.cmd # "ProvisionSlot" => v = Truth(line)
    BY <1>3 DEF Truth, Tells, Singles
  <2> QED BY <1>1, <2>2, <2>3
<1> QED BY <1>2, <1>3

(* The lengths hsm-host accepts of the answer to a command. *)
Accepts(c) ==
  CASE c = "Info" -> {14}
    [] c \in {"ReadConfigZone", "ReadSlotBlock"} -> {32}
    [] c \in {"ReadConfigSlot", "ReadSlotWord", "ReadCounter"} -> {4}
    [] c \in {"GetPubkey", "GenKey"} -> {64}
    [] OTHER -> AnyLength

(* The command lines there are, credentials apart. *)
LEMMA LinesLeft ==
  ASSUME NEW line \in CommandLines, line.cmd \notin CredentialCalls
  PROVE  line.cmd \in Singles \cup {"ReadConfig", "WriteConfig", "LockConfig"}
BY LineType DEF CredentialCalls, Singles

(* A command line of one request accepts those lengths. *)
LEMMA SingleLengths ==
  ASSUME NEW line, line.cmd \in Singles, NEW g, main(line, g).ok
  PROVE  main(line, g).value[1].lengths = Accepts(line.cmd)
<1> DEFINE c == line.cmd
<1>1. \E q, l : main(line, g) = Single(c, q, l) /\ l = Accepts(c)
  <2>1. CASE c \in {"Info", "ReadConfigSlot", "ReadSlotBlock", "ReadSlotWord", "GetPubkey", "GenKey"}
    BY <2>1 DEF main, Accepts, cmd_info, cmd_read_config_slot, cmd_read_slot_block, cmd_read_slot_word,
                cmd_get_pubkey, cmd_genkey
  <2>2. CASE c \in {"LockDataZone", "LockSlot"}
    BY <2>2 DEF main, Accepts, cmd_lock_data_dangerous, cmd_lock_slot_dangerous
  <2>3. CASE c = "ReadCounter"
    <3>1. Failure("BadArgument").ok = FALSE
      BY DEF Failure, Err
    <3> QED BY <2>3, <3>1 DEF main, Accepts, cmd_read_counter
  <2>4. CASE c = "ProvisionSlot"
    <3>1. PICK q : main(line, g) = Exactly(line.args[2], 32, Single(c, q, AnyLength))
      BY <2>4 DEF main, cmd_provision_slot
    <3>2. main(line, g) = Single(c, q, AnyLength)
      BY <3>1, ExactlyOk
    <3>3. Accepts(c) = AnyLength
      BY <2>4 DEF Accepts
    <3> QED BY <3>2, <3>3
  <2> QED BY <2>1, <2>2, <2>3, <2>4 DEF Singles
<1>2. PICK q, l : main(line, g) = Single(c, q, l) /\ l = Accepts(c)
  BY <1>1
<1>3. main(line, g).value = <<Request(c, q, l)>>
  BY <1>2 DEF Single, Ok
<1>4. Request(c, q, l).lengths = l
  BY DEF Request
<1> QED BY <1>2, <1>3, <1>4

(* A block's read accepts a block. *)
LEMMA BlockLengths ==
  ASSUME NEW n \in Nat, n < 4
  PROVE  read_full_config_zone[n + 1].lengths = {32}
<1>1. n + 1 \in 1..4
  OBVIOUS
<1>2. read_full_config_zone[n + 1] = Request("ReadConfigZone", <<(n + 1) - 1>>, {32})
  BY <1>1, Zenon DEF read_full_config_zone
<1> QED BY <1>2 DEF Request

(* lock-config's fifth request accepts any length. *)
LEMMA LockLengths ==
  ASSUME NEW line, line.cmd = "LockConfig", NEW g \in Seq(Bytes), Len(g) = 4
  PROVE  main(line, g).value[Len(g) + 1].lengths = AnyLength
<1> DEFINE d == crc16_to_bytes(crc16(FullZone(g)))
           q == Request("LockConfigZone", LOCK_CONFIG_MAGIC \o d, AnyLength)
           x == Append(read_full_config_zone, q)
<1>1. main(line, g) = Ok(x)
  BY DEF main, cmd_lock_config_dangerous
<1>2. main(line, g).value = x
  BY <1>1, ErrIsNotOk
<1>3. crc16(FullZone(g)) \in Word
  <2>1. Len(g) >= 4
    OBVIOUS
  <2>2. FullZone(g) \in Bytes
    BY <2>1, FourBlocks
  <2> QED BY <2>2, CrcType DEF Bytes
<1>4. d \in Bytes
  BY <1>3, LowHighWord DEF crc16_to_bytes
<1> HIDE DEF d
<1>5. LOCK_CONFIG_MAGIC \o d \in Bytes
  BY <1>4, Joined, Magics
<1>6. q \in RequestRecords
  BY <1>5 DEF RequestRecords, Request, AnyLength, MAX_PAYLOAD_SIZE, HID_REPORT_SIZE, HEADER_SIZE
<1>7. q.lengths = AnyLength
  BY DEF Request
<1> HIDE DEF q
<1>8. x[5] = q
  <2>1. PICK r \in Seq(RequestRecords) : r = read_full_config_zone /\ Len(r) = 4
    BY BlocksRead
  <2>2. Append(r, q)[Len(r) + 1] = q
    BY <1>6, <2>1, AppendProperties, ZenonT(60)
  <2>3. Len(r) + 1 = 5
    BY <2>1
  <2> QED BY <2>1, <2>2, <2>3, Zenon
<1> HIDE DEF x
<1>9. Len(g) + 1 = 5
  OBVIOUS
<1> QED BY <1>2, <1>7, <1>8, <1>9

(* The next request accepts the lengths of its command. *)
LEMMA NextLengths ==
  ASSUME Progress, Typed(ask, got).cmd \notin CredentialCalls
  PROVE  NextRequest.lengths = Accepts(Typed(ask, got).cmd)
<1>1. /\ ask \in CommandLines /\ got \in Seq(Bytes) /\ main(ask, got).ok
      /\ Len(got) < Size(ask, got)
  BY NextCarried DEF Progress
<1>2. PICK n \in Nat : n = Len(got) /\ n < Size(ask, got)
  BY <1>1
<1>3. CASE ask.cmd = "ReadConfig" \/ (ask.cmd = "LockConfig" /\ n < 4)
  <2>1. n < 4 /\ Typed(ask, got).cmd = "ReadConfigZone"
    BY <1>2, <1>3 DEF Size, Typed
  <2>2. main(ask, got).value = read_full_config_zone
    BY <1>2, <1>3 DEF main, cmd_read_config, cmd_lock_config_dangerous, Ok
  <2>3. NextRequest.lengths = {32}
    BY <1>2, <2>1, <2>2, BlockLengths DEF NextRequest
  <2> QED BY <2>1, <2>3 DEF Accepts
<1>4. CASE ask.cmd = "LockConfig" /\ ~(n < 4)
  <2>1. Size(ask, got) = 5
    BY <1>2, <1>4 DEF Size
  <2>2. Len(got) = 4
    BY <1>2, <1>4, <2>1
  <2>3. NextRequest.lengths = AnyLength
    BY <1>1, <1>4, <2>2, LockLengths DEF NextRequest
  <2>4. Typed(ask, got).cmd = "LockConfigZone"
    BY <1>4, <1>2 DEF Typed
  <2> QED BY <2>3, <2>4 DEF Accepts
<1>5. CASE ask.cmd = "WriteConfig"
  <2>1. n < 4 /\ Typed(ask, got).cmd = "WriteConfigZone"
    BY <1>2, <1>5 DEF Size, Typed
  <2> DEFINE F(b) == Request("WriteConfigZone",
                       <<b - 1>> \o SubSeq(ask.args[1], 32 * b - 31, 32 * b), AnyLength)
             f == [b \in 1..4 |-> F(b)]
  <2>2. main(ask, got) = Ok(f)
    <3>1. main(ask, got) = Exactly(ask.args[1], 128, Ok(f))
      BY <1>5 DEF main, cmd_write_config
    <3> HIDE DEF f
    <3> QED BY <1>1, <3>1, ExactlyOk
  <2>3. NextRequest = F(n + 1)
    <3>1. main(ask, got).value = f
      BY <2>2, ErrIsNotOk
    <3>2. n + 1 \in 1..4
      BY <2>1
    <3>3. f[n + 1] = F(n + 1)
      BY <3>2
    <3> QED BY <1>2, <3>1, <3>3 DEF NextRequest
  <2>4. NextRequest.lengths = AnyLength
    BY <2>3 DEF Request
  <2> QED BY <2>1, <2>4 DEF Accepts
<1>6. CASE ask.cmd \in Singles
  <2>1. Typed(ask, got) = ask /\ Size(ask, got) = 1
    BY <1>6 DEF Typed, Size, Singles
  <2>2. Len(got) + 1 = 1
    BY <1>2, <2>1
  <2>3. main(ask, got).value[1].lengths = Accepts(ask.cmd)
    BY <1>1, <1>6, SingleLengths
  <2> QED BY <2>1, <2>2, <2>3 DEF NextRequest
<1>7. ask.cmd \in Singles \cup {"ReadConfig", "WriteConfig", "LockConfig"}
  <2>1. ask.cmd \in {"ReadConfig", "WriteConfig", "LockConfig"} \/ Typed(ask, got) = ask
    BY DEF Typed
  <2> QED BY <1>1, <2>1, LinesLeft
<1> QED BY <1>3, <1>4, <1>5, <1>6, <1>7

(* An answer that is true has a length hsm-host accepts. *)
LEMMA TellsAccepted ==
  ASSUME NEW k, WellFormed(k), NEW c, ChipOk(c), NEW v, Tells(k, c, v)
  PROVE  Len(v) \in Accepts(k.cmd)
<1> DEFINE A == {"Info", "ReadConfigZone", "ReadSlotBlock"}
           B == {"ReadConfigSlot", "ReadSlotWord", "ReadCounter"}
           C == {"GetPubkey", "GenKey"}
<1>1. /\ k.cmd = "Info" => Len(v) = 14
      /\ k.cmd \in {"ReadConfigZone", "ReadSlotBlock"} => Len(v) = 32
      /\ k.cmd \in B => Len(v) = 4
      /\ k.cmd \in C => Len(v) = 64
      /\ k.cmd \notin A \cup B \cup C => v = <<>>
  BY TellsBytes
<1>2. CASE k.cmd \notin A \cup B \cup C
  <2>1. Len(v) = 0
    BY <1>1, <1>2, SmallBytes
  <2>2. 0 \in AnyLength
    BY DEF AnyLength, MAX_PAYLOAD_SIZE, HID_REPORT_SIZE, HEADER_SIZE
  <2> QED BY <1>2, <2>1, <2>2 DEF Accepts
<1>3. CASE k.cmd \in A \cup B \cup C
  BY <1>1, <1>3 DEF Accepts
<1> QED BY <1>2, <1>3

(* An answer heeded, not a credential's, passes the length check and tells *)
(* the truth.                                                              *)
LEMMA HeededAnswer ==
  ASSUME WireInv, TruthInv, stage = "answered", ask # NoCall, receive(wire).ok,
         call.cmd \notin CredentialCalls
  PROVE  /\ answer_to(NextRequest, wire) = receive(wire)
         /\ call = Typed(ask, got) /\ WellFormed(call) /\ Tells(call, chip, receive(wire).value)
<1>1. /\ call = Typed(ask, got) /\ WellFormed(call) /\ Tells(call, chip, receive(wire).value)
  BY DEF TruthInv, AnswerTrue, Heeded
<1>2. ChipOk(chip) /\ Progress
  BY DEF WireInv, AnsweredInv
<1>3. Len(receive(wire).value) \in Accepts(call.cmd)
  BY <1>1, <1>2, TellsAccepted
<1>4. NextRequest.lengths = Accepts(call.cmd)
  BY <1>1, <1>2, NextLengths
<1> QED BY <1>1, <1>3, <1>4 DEF answer_to

(* Four answers that are the blocks are the zone. *)
LEMMA BlocksShown ==
  ASSUME ChipOk(chip), NEW all, \A b \in 1..4 : all[b] = ConfigBlock(b)
  PROVE  FullZone(all) = chip.zone
<1>1. \A b \in 1..4 : all[1 + (b - 1)] = Field(chip.zone, 32 * (b - 1), 32)
  <2>1. TAKE b \in 1..4
  <2>2. 1 + (b - 1) = b
    OBVIOUS
  <2> QED BY <2>2 DEF ConfigBlock
<1>2. PICK z \in Bytes : z = chip.zone /\ Len(z) = 128
  BY DEF ChipOk
<1>3. ZoneFrom(all, 1) = chip.zone
  <2>1. PICK m \in Nat : m = 1
    OBVIOUS
  <2>2. \A b \in 1..4 : all[m + (b - 1)] = Field(z, 32 * (b - 1), 32)
    BY <1>1, <1>2, <2>1
  <2>3. Len(z) = 128
    BY <1>2
  <2>4. ZoneFrom(all, m) = z
    BY <2>2, <2>3, ZoneRejoined
  <2> QED BY <1>2, <2>1, <2>4
<1>4. ZoneFrom(all, 1) = FullZone(all)
  <2>1. 1 + 1 = 2 /\ 1 + 2 = 3 /\ 1 + 3 = 4
    OBVIOUS
  <2> QED BY <2>1, Zenon DEF ZoneFrom, FullZone
<1> QED BY <1>3, <1>4

(* The answer to a block's read is the block. *)
LEMMA BlockTold ==
  ASSUME ask.cmd = "ReadConfig", got \in Seq(Bytes), NEW v, Tells(Typed(ask, got), chip, v)
  PROVE  v = ConfigBlock(Len(got) + 1)
<1>1. Typed(ask, got) = [cmd |-> "ReadConfigZone", args |-> <<Len(got)>>]
  BY DEF Typed
<1>2. v = Field(chip.zone, 32 * Len(got), 32)
  BY <1>1 DEF Tells
<1>3. (Len(got) + 1) - 1 = Len(got)
  OBVIOUS
<1> QED BY <1>2, <1>3 DEF ConfigBlock

(* read-config's answers with one more are the blocks so far and the next. *)
LEMMA MoreKnown ==
  ASSUME ask.cmd = "ReadConfig", got \in Seq(Bytes), NEW v \in Bytes, Tells(Typed(ask, got), chip, v),
         \A b \in 1..Len(got) : got[b] = ConfigBlock(b)
  PROVE  \A b \in 1..Len(got) + 1 : Append(got, v)[b] = ConfigBlock(b)
<1>1. PICK all \in Seq(Bytes) :
        /\ all = Append(got, v)
        /\ all[Len(got) + 1] = v /\ \A i \in 1..Len(got) : all[i] = got[i]
  <2>1. PICK g : g = Append(got, v)
    OBVIOUS
  <2>2. g \in Seq(Bytes) /\ g[Len(got) + 1] = v /\ \A i \in 1..Len(got) : g[i] = got[i]
    BY <2>1, AppendProperties
  <2> QED BY <2>1, <2>2, Zenon
<1>2. v = ConfigBlock(Len(got) + 1)
  BY BlockTold
<1>3. \A b \in 1..Len(got) + 1 : all[b] = ConfigBlock(b)
  <2>1. TAKE b \in 1..Len(got) + 1
  <2>2. Len(got) \in Nat
    OBVIOUS
  <2>3. b \in 1..Len(got) \/ b = Len(got) + 1
    BY <2>2
  <2> QED BY <1>1, <1>2, <2>3, Zenon
<1> QED BY <1>1, <1>3, Zenon

(* What the last answer of a command line shows, and what was achieved. *)
LEMMA EndShown ==
  ASSUME ChipOk(chip), TruthInv, Heeded, Progress, call = Typed(ask, got), WellFormed(call),
         ask.cmd \notin CredentialCalls, InsideBlock(ask),
         NEW v \in Bytes, Tells(call, chip, v),
         NEW all, all = Append(got, v), ~(Len(all) < Size(ask, all))
  PROVE  /\ ask.cmd \notin {"WriteConfig", "ProvisionSlot", "LockConfig"} => shows(ask, all) = Truth(ask)
         /\ Achieved(ask)
<1>1. ask \in CommandLines /\ got \in Seq(Bytes) /\ Len(got) < Size(ask, got)
  BY NextCarried
<1>2. all \in Seq(Bytes) /\ Len(all) = Len(got) + 1
  BY <1>1, AppendProperties
<1>3. PICK n \in Nat : n = Len(got) /\ Len(all) = n + 1 /\ n < Size(ask, got) /\ ~(n + 1 < Size(ask, all))
  BY <1>1, <1>2
<1>4. CASE ask.cmd \in Singles
  <2>1. Size(ask, got) = 1 /\ call = ask
    BY <1>4 DEF Size, Typed, Singles
  <2>2. Len(got) = 0
    BY <1>3, <2>1
  <2>3. got = <<>>
    BY <1>1, <2>2
  <2>4. all = <<v>>
    BY <2>3
  <2>5. (ask.cmd # "ProvisionSlot" => shows(ask, <<v>>) = Truth(ask)) /\ Achieved(ask)
    BY <1>4, <2>1, SingleShown
  <2> QED BY <2>4, <2>5
<1>5. CASE ask.cmd = "ReadConfig"
  <2>1. Size(ask, got) = 4 /\ Size(ask, all) = 4
    BY <1>5 DEF Size
  <2>2. n + 1 = 4
    BY <1>3, <2>1
  <2>3. \A b \in 1..Len(got) : got[b] = ConfigBlock(b)
    BY <1>5 DEF TruthInv, BlocksKnown, Heeded
  <2>4. \A b \in 1..Len(got) + 1 : all[b] = ConfigBlock(b)
    BY <1>1, <1>5, <2>3, MoreKnown
  <2>5. \A b \in 1..4 : all[b] = ConfigBlock(b)
    BY <1>3, <2>2, <2>4, Zenon
  <2>6. FullZone(all) = chip.zone
    BY <2>5, BlocksShown
  <2>7. shows(ask, all) = FullZone(all) /\ Truth(ask) = chip.zone
    BY <1>5 DEF shows, Truth
  <2> QED BY <1>5, <2>6, <2>7 DEF Achieved
<1>6. CASE ask.cmd = "WriteConfig"
  <2>1. Size(ask, got) = 4 /\ Size(ask, all) = 4
    BY <1>6 DEF Size
  <2>2. 32 * (n + 1) = 128
    BY <1>3, <2>1
  <2>3. WrittenTo(chip.zone, ask.args[1], 32 * (n + 1))
    BY <1>3, <1>6 DEF TruthInv, WritesKept, Written
  <2>4. WrittenTo(chip.zone, ask.args[1], 128)
    BY <2>2, <2>3, Zenon
  <2> QED BY <1>6, <2>4, Zenon DEF Achieved, WrittenTo
<1>7. CASE ask.cmd = "LockConfig"
  <2>1. ~(n < 4)
    <3>1. Size(ask, all) = IF n + 1 < 4 THEN 4 ELSE 5
      BY <1>3, <1>7 DEF Size
    <3> QED BY <1>3, <3>1
  <2>2. call.cmd = "LockConfigZone"
    BY <1>3, <1>7, <2>1 DEF Typed
  <2>3. ConfigLocked(chip)
    BY <2>2 DEF Tells
  <2> QED BY <1>7, <2>3 DEF Achieved
<1> QED BY <1>1, <1>4, <1>5, <1>6, <1>7, LinesLeft

(* An answer that is not the last: the command goes on. *)
LEMMA MoreGoing ==
  ASSUME Progress, NEW all, Len(all) = Len(got) + 1, Len(all) < Size(ask, all)
  PROVE  Going /\ ask.cmd \in {"ReadConfig", "WriteConfig", "LockConfig"}
<1>1. PICK n \in Nat : n = Len(got) /\ n + 1 < Size(ask, all) /\ Len(all) = n + 1
  BY NextCarried
<1>2. CASE ask.cmd \in {"ReadConfig", "WriteConfig"}
  BY <1>2 DEF Going
<1>3. CASE ask.cmd = "LockConfig"
  <2>1. Size(ask, all) = 4 \/ Size(ask, all) = 5
    BY <1>3 DEF Size
  <2>2. n < 4
    BY <1>1, <2>1
  <2> QED BY <1>1, <1>3, <2>2 DEF Going
<1>4. CASE ask.cmd \notin {"ReadConfig", "WriteConfig", "LockConfig"}
  <2>1. Size(ask, all) = 1
    BY <1>4 DEF Size
  <2>2. FALSE
    BY <1>1, <2>1
  <2> QED BY <2>2
<1> QED BY <1>2, <1>3, <1>4

(* A command that ends with an error keeps the invariant: it was not a     *)
(* clean one.                                                              *)
LEMMA EndsWrong ==
  ASSUME TruthInv, ~clean, UNCHANGED <<ask, serial, chip, clean>>, stage' = "idle",
         ask = NoCall \/ shown'.ok = FALSE
  PROVE  TruthInv'
<1>1. ask # NoCall => ShowsTheTruth' /\ CleanRunSucceeds'
  BY DEF ShowsTheTruth, CleanRunSucceeds
<1>2. ask = NoCall => ~Ended'
  BY DEF Ended, NoCall
<1>3. SerialTrue'
  BY DEF TruthInv, SerialTrue
<1> QED BY <1>1, <1>2, <1>3
        DEF TruthInv, RepliesTrue, AnswerTrue, Heeded, BlocksKnown, WritesKept, CleanInv,
            ShowsTheTruth, CleanRunSucceeds

(* Receive keeps the invariant: the last answer shows what the chip holds. *)
LEMMA ReceiveTruth ==
  ASSUME WireInv, TruthInv, Receive
  PROVE  TruthInv'
<1>0. /\ Whole(wire) /\ ChipOk(chip) /\ stage = "answered" /\ UNCHANGED <<ask, serial, chip, clean>>
      /\ clean => ask # NoCall /\ receive(wire).ok /\ call.cmd \notin CredentialCalls
                  /\ (Going => Permitted(ask))
  BY DEF Receive, WireInv, AnsweredInv, TruthInv, CleanInv
<1>1. CASE ask = NoCall
  <2>1. stage' = "idle"
    BY <1>1 DEF Receive
  <2> QED BY <1>0, <1>1, <2>1, EndsWrong
<1>2. CASE ask # NoCall
  <2> DEFINE r == answer_to(NextRequest, wire)
             all == Append(got, r.value)
  <2>1. Progress
    BY <1>0, <1>2 DEF WireInv, AnsweredInv
  <2>2. IF r.ok /\ Len(all) < Len(main(ask, all).value)
          THEN stage' = "asking" /\ got' = all
          ELSE /\ stage' = "idle"
               /\ got' = IF r.ok THEN all ELSE got
               /\ shown' = IF r.ok THEN Ok(shows(ask, all)) ELSE r
    BY <1>2 DEF Receive
  <2>3. \/ \E v \in Bytes : receive(wire) = Ok(v) /\ r = Ok(v)
        \/ r.ok = FALSE
    <3>1. (\E v \in Bytes : receive(wire) = Ok(v)) \/ (\E e : receive(wire) = Err(e))
      BY <1>0, Received
    <3>2. ASSUME NEW v \in Bytes, receive(wire) = Ok(v)
          PROVE  r = Ok(v) \/ r.ok = FALSE
      BY <3>2, ErrIsNotOk DEF answer_to, Failure
    <3>3. ASSUME NEW e, receive(wire) = Err(e)
          PROVE  r.ok = FALSE
      BY <3>3, ErrIsNotOk DEF answer_to
    <3> QED BY <3>1, <3>2, <3>3, Zenon
  <2>4. clean => r = receive(wire) /\ receive(wire).ok
    BY <1>0, HeededAnswer
  <2> HIDE DEF r
  <2>5. CASE r.ok = FALSE
    <3>1. stage' = "idle" /\ shown' = r
      BY <2>2, <2>5
    <3>2. ~clean
      BY <2>4, <2>5
    <3> QED BY <1>0, <2>5, <3>1, <3>2, EndsWrong
  <2>6. ASSUME NEW v \in Bytes, receive(wire) = Ok(v) /\ r = Ok(v)
        PROVE  TruthInv'
    <3>1. r.ok = TRUE /\ r.value = v /\ receive(wire).ok = TRUE /\ receive(wire).value = v
      BY <2>6, ErrIsNotOk
    <3>2. Heeded /\ call = Typed(ask, got) /\ WellFormed(call)
      BY <1>0, <1>2, <3>1 DEF TruthInv, AnswerTrue, Heeded
    <3>3. /\ ask \in CommandLines /\ got \in Seq(Bytes) /\ main(ask, got).ok
          /\ Len(got) \in Nat
      BY <2>1, NextCarried DEF Progress
    <3>4. PICK g \in Seq(Bytes) : g = all /\ g = Append(got, v) /\ Len(g) = Len(got) + 1
      <4>1. PICK h : h = Append(got, v)
        OBVIOUS
      <4>2. h \in Seq(Bytes) /\ Len(h) = Len(got) + 1
        BY <3>3, <4>1, AppendProperties
      <4>3. h = all
        BY <3>1, <4>1
      <4> QED BY <4>1, <4>2, <4>3, Zenon
    <3>5. Len(main(ask, g).value) = Size(ask, g)
      <4>1. main(ask, g).ok
        BY <3>3, SameVerdict
      <4>2. Asks(main(ask, g), ask, g)
        BY <3>3, <4>1, RequestsAsked
      <4> QED BY <4>2 DEF Asks
    <3>6. ask.cmd \notin CredentialCalls => call.cmd \notin CredentialCalls
      <4>1. call = ask \/ call.cmd \in {"ReadConfigZone", "WriteConfigZone", "LockConfigZone"}
        BY <3>2 DEF Typed
      <4> QED BY <4>1 DEF CredentialCalls
    <3>7. call.cmd \notin CredentialCalls => Tells(call, chip, v)
      BY <3>1, <3>2 DEF TruthInv, AnswerTrue
    <3>8. SerialTrue' /\ RepliesTrue' /\ AnswerTrue'
      <4>1. stage' \in {"idle", "asking"}
        BY <2>2
      <4> QED BY <1>0, <4>1 DEF TruthInv, SerialTrue, RepliesTrue, AnswerTrue, Heeded
    <3>9. CASE Len(g) < Size(ask, g)
      <4>1. stage' = "asking" /\ got' = g
        BY <2>2, <3>1, <3>4, <3>5, <3>9
      <4>2. Going /\ ask.cmd \in {"ReadConfig", "WriteConfig", "LockConfig"}
        BY <2>1, <3>4, <3>9, MoreGoing
      <4>3. Tells(call, chip, v)
        <5>1. call.cmd \notin CredentialCalls
          BY <3>6, <4>2 DEF CredentialCalls
        <5> QED BY <3>7, <5>1
      <4>4. BlocksKnown'
        <5>1. SUFFICES ASSUME ask.cmd = "ReadConfig"
                       PROVE  \A b \in 1..Len(g) : g[b] = ConfigBlock(b)
          BY <1>0, <4>1 DEF BlocksKnown, ConfigBlock
        <5>2. \A b \in 1..Len(got) : got[b] = ConfigBlock(b)
          BY <1>0, <5>1 DEF TruthInv, BlocksKnown
        <5>3. \A b \in 1..Len(got) + 1 : Append(got, v)[b] = ConfigBlock(b)
          BY <3>2, <3>3, <4>3, <5>1, <5>2, MoreKnown
        <5> QED BY <3>4, <5>3
      <4>5. WritesKept'
        <5>1. SUFFICES ASSUME ask.cmd = "WriteConfig"
                       PROVE  Written(32 * Len(g))'
          BY <1>0, <4>1 DEF WritesKept, Heeded
        <5>2. Written(32 * (Len(got) + 1))
          BY <3>2, <5>1 DEF TruthInv, WritesKept
        <5> QED BY <1>0, <3>4, <5>2 DEF Written
      <4>6. CleanInv'
        <5>1. clean => ask # NoCall /\ Permitted(ask)
          BY <1>0, <4>2
        <5>2. clean => Permitted(ask)'
          BY <1>0, <5>1, PermittedStays
        <5> QED BY <1>0, <4>1, <5>1, <5>2 DEF CleanInv
      <4> QED BY <3>8, <4>1, <4>4, <4>5, <4>6 DEF TruthInv, ShowsTheTruth, CleanRunSucceeds, Ended
    <3>10. CASE ~(Len(g) < Size(ask, g))
      <4>1. stage' = "idle" /\ shown' = Ok(shows(ask, g))
        BY <2>2, <3>1, <3>4, <3>5, <3>10
      <4>2. shown'.ok = TRUE /\ shown'.value = shows(ask, g)
        BY <4>1, ErrIsNotOk
      <4>3. ShowsTheTruth'
        <5>1. SUFFICES ASSUME ask.cmd \notin CredentialCalls, InsideBlock(ask)
                       PROVE  /\ ask.cmd \notin {"WriteConfig", "ProvisionSlot", "LockConfig"} =>
                                   shows(ask, g) = Truth(ask)'
                              /\ Achieved(ask)'
          BY <1>0, <4>2 DEF ShowsTheTruth, InsideBlock
        <5>2. Tells(call, chip, v)
          BY <3>6, <3>7, <5>1
        <5>3. /\ ask.cmd \notin {"WriteConfig", "ProvisionSlot", "LockConfig"} => shows(ask, g) = Truth(ask)
              /\ Achieved(ask)
          BY <1>0, <2>1, <3>2, <3>4, <3>10, <5>1, <5>2, EndShown
        <5>4. Truth(ask)' = Truth(ask)
          BY <1>0 DEF Truth
        <5>5. Achieved(ask)' = Achieved(ask)
          BY <1>0 DEF Achieved
        <5> QED BY <5>3, <5>4, <5>5
      <4>4. CleanInv' /\ CleanRunSucceeds'
        BY <1>0, <1>2, <4>1, <4>2 DEF CleanInv, CleanRunSucceeds
      <4>5. BlocksKnown' /\ WritesKept'
        BY <4>1 DEF BlocksKnown, WritesKept, Heeded
      <4> QED BY <3>8, <4>3, <4>4, <4>5 DEF TruthInv
    <3> QED BY <3>9, <3>10
  <2> QED BY <2>3, <2>5, <2>6
<1> QED BY <1>1, <1>2

(* Every step keeps the invariant. *)
LEMMA TruthStep == WireInv /\ WireInv' /\ TruthInv /\ [Next]_vars => TruthInv'
<1> SUFFICES ASSUME WireInv, WireInv', TruthInv, [Next]_vars PROVE TruthInv'
  OBVIOUS
<1>1. ASSUME NEW line \in Asked, Start(line) PROVE TruthInv'
  BY <1>1, StartTruth
<1>2. ASSUME NEW opcode \in StrayOpcodes, NEW line \in Asked, Stray(opcode, line) PROVE TruthInv'
  BY <1>2, StrayTruth
<1>3. CASE Decline
  BY <1>3, DeclineTruth
<1>4. CASE send_command
  BY <1>4, SendTruth
<1>5. CASE Dispatch
  BY <1>5, DispatchTruth
<1>6. CASE ChipReplies
  <2>1. ChipWork /\ UNCHANGED <<ask, got, shown, call>>
    BY <1>6 DEF ChipReplies
  <2> QED BY <1>6, <2>1, ChipRepliesOutcome, OutcomeTruth
<1>7. ASSUME NEW status \in ChipRefusals, ChipRefuses(status) PROVE TruthInv'
  <2>1. ChipWork /\ UNCHANGED <<ask, got, shown, call>>
    BY <1>7 DEF ChipRefuses
  <2> QED BY <1>7, <2>1, ChipRefusesOutcome, OutcomeTruth
<1>8. ASSUME NEW where \in Noise, NoisyReply(where) PROVE TruthInv'
  <2>1. ChipWork /\ UNCHANGED <<ask, got, shown, call>>
    BY <1>8 DEF NoisyReply
  <2> QED BY <1>8, <2>1, NoisyReplyOutcome, OutcomeTruth
<1>9. ASSUME NEW kind \in {"Hal", "WakeFailed", "SelfTestFailure", "Timeout"}, NEW done \in BOOLEAN,
             BusFails(kind, done)
      PROVE  TruthInv'
  <2>1. ChipWork /\ UNCHANGED <<ask, got, shown, call>>
    BY <1>9 DEF BusFails
  <2> QED BY <1>9, <2>1, BusFailsOutcome, OutcomeTruth
<1>10. CASE CredentialReturns
  BY <1>10, CredentialTruth
<1>11. CASE Receive
  BY <1>11, ReceiveTruth
<1>12. CASE NewToken
  BY <1>12, NewTokenTruth
<1>13. CASE UNCHANGED vars
  BY <1>13, StutterTruth
<1> QED BY <1>1, <1>2, <1>3, <1>4, <1>5, <1>6, <1>7, <1>8, <1>9, <1>10, <1>11, <1>12, <1>13 DEF Next

(* The invariant holds in every state: what is cached, read, written and   *)
(* answered so far is the chip's own.                                      *)
THEOREM TruthInvHolds == Spec => []TruthInv
<1>1. Init => TruthInv
  BY TruthInit
<1> QED BY <1>1, TruthStep, WireInvHolds, PTL DEF Spec

(* A success hsm-host reports is true, for every set of command lines and  *)
(* faults: the value it prints is the one in the chip at the place that    *)
(* was asked for, and the change it reports was made.                      *)
THEOREM ShowsTheTruthHolds == Spec => []ShowsTheTruth
<1>1. TruthInv => ShowsTheTruth
  BY DEF TruthInv
<1> QED BY <1>1, TruthInvHolds, PTL

(* A command line that asks for no PIN, and that the documents and the     *)
(* policy words permit, succeeds when nothing is injected, whatever its    *)
(* arguments, the zone written before and the order of commands.           *)
THEOREM CleanRunSucceedsHolds == Spec => []CleanRunSucceeds
<1>1. TruthInv => CleanRunSucceeds
  BY DEF TruthInv
<1> QED BY <1>1, TruthInvHolds, PTL
=============================================================================
