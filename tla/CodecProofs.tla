---------------------------- MODULE CodecProofs ----------------------------
(***************************************************************************)
(* Proofs about Codec, for every number of digits and bytes, every size of *)
(* block and messages of any size: a size is read back from its header, a  *)
(* message is what its padding was put in front of, and the cipher's       *)
(* buffers are large enough.  Left and Value are recursive functions: that *)
(* they exist, and what holds of all their values, follows from the least  *)
(* element of a set of naturals.                                           *)
(***************************************************************************)
EXTENDS Codec, Induction

-----------------------------------------------------------------------------
(* The header *)

(* Division by the base. *)
LEMMA Divided ==
  ASSUME NEW a \in Nat
  PROVE  /\ a \div Base \in Nat /\ a % Base \in Digits
         /\ Base * (a \div Base) + (a % Base) = a
<1>1. Base \in Nat \ {0}
  BY SizesAssumption
<1> QED
  BY <1>1 DEF Digits

(* Left(n) is defined by the division of what is left, digit by digit. *)
LEMMA LeftDef ==
  ASSUME NEW n \in Nat
  PROVE  /\ Left(n) \in [0..LenSize -> Nat]
         /\ Left(n)[0] = n
         /\ \A k \in 1..LenSize : Left(n)[k] = Left(n)[k - 1] \div Base
<1> DEFINE Eq(h) ==
             h = [k \in 0..LenSize |-> IF k = 0 THEN n ELSE h[k - 1] \div Base]
           step == [k \in 1..LenSize |-> [v \in Nat |-> v \div Base]]
<1>0. LenSize \in Nat
  BY SizesAssumption
<1>1. \A k \in 1..LenSize : \A v \in Nat : step[k][v] \in Nat
  BY Divided
<1>2. \E f : Iterates(f, LenSize, Nat, n, step)
  <2> HIDE DEF step
  <2> QED
    BY <1>0, <1>1, Iteration
<1>3. PICK f \in [0..LenSize -> Nat] :
        f[0] = n /\ \A k \in 1..LenSize : f[k] = f[k - 1] \div Base
  <2>0. PICK f : Iterates(f, LenSize, Nat, n, step)
    BY <1>2
  <2>1. /\ f \in [0..LenSize -> Nat] /\ f[0] = n
        /\ \A k \in 1..LenSize : f[k] = step[k][f[k - 1]]
    <3> HIDE DEF step
    <3> QED
      BY <2>0 DEF Iterates
  <2>2. ASSUME NEW k \in 1..LenSize
        PROVE  f[k] = f[k - 1] \div Base
    <3>1. k - 1 \in 0..LenSize /\ f[k - 1] \in Nat
      BY <1>0, <2>1
    <3>2. f[k] = step[k][f[k - 1]]
      BY <2>1
    <3> QED
      BY <3>1, <3>2
  <2> QED
    BY <2>1, <2>2
<1>4. Eq(f)
  BY <1>0, <1>3
<1>5. Left(n) = CHOOSE h : Eq(h)
  BY DEF Left
<1>6. Eq(Left(n))
  <2> HIDE DEF Eq
  <2> QED
    BY <1>4, <1>5
<1>7. \A k \in 0..LenSize :
        Left(n)[k] = IF k = 0 THEN n ELSE Left(n)[k - 1] \div Base
  BY <1>6, Zenon
<1>8. /\ Left(n)[0] = n
      /\ \A k \in 1..LenSize : Left(n)[k] = Left(n)[k - 1] \div Base
  BY <1>0, <1>7
<1> DEFINE Good == {k \in 0..LenSize : Left(n)[k] \in Nat}
<1>9. 0..LenSize \subseteq Good
  <2>1. 0 \in Good
    BY <1>0, <1>8
  <2>2. ASSUME NEW k \in 1..LenSize, k - 1 \in Good
        PROVE  k \in Good
    <3>1. Left(n)[k - 1] \in Nat /\ Left(n)[k] = Left(n)[k - 1] \div Base
      BY <1>8, <2>2
    <3>2. Left(n)[k] \in Nat
      BY <3>1, Divided
    <3> QED
      BY <1>0, <3>2
  <2> HIDE DEF Good
  <2> QED
    BY <1>0, <2>1, <2>2, UpTo
<1> QED
  BY <1>6, <1>8, <1>9

(* So is Value(header), by the next digit. *)
LEMMA ValueDef ==
  ASSUME NEW header \in Headers
  PROVE  /\ Value(header) \in [0..LenSize -> Nat]
         /\ Value(header)[0] = 0
         /\ \A i \in 1..LenSize :
              Value(header)[i] = Base * Value(header)[i - 1] + header[i]
<1> DEFINE Eq(h) ==
             h = [i \in 0..LenSize |->
                    IF i = 0 THEN 0 ELSE Base * h[i - 1] + header[i]]
           step == [i \in 1..LenSize |-> [v \in Nat |-> Base * v + header[i]]]
<1>0. LenSize \in Nat /\ Base \in Nat \ {0}
  BY SizesAssumption
<1>10. ASSUME NEW i \in 1..LenSize, NEW v \in Nat
      PROVE  Base * v + header[i] \in Nat
  <2>1. header[i] \in Nat /\ Base * v \in Nat
    BY <1>0 DEF Headers, Digits
  <2> QED
    BY <2>1
<1>1. \A k \in 1..LenSize : \A v \in Nat : step[k][v] \in Nat
  BY <1>10
<1>2. \E f : Iterates(f, LenSize, Nat, 0, step)
  <2> HIDE DEF step
  <2> QED
    BY <1>0, <1>1, Iteration
<1>3. PICK f \in [0..LenSize -> Nat] :
        f[0] = 0 /\ \A i \in 1..LenSize : f[i] = Base * f[i - 1] + header[i]
  <2>0. PICK f : Iterates(f, LenSize, Nat, 0, step)
    BY <1>2
  <2>1. /\ f \in [0..LenSize -> Nat] /\ f[0] = 0
        /\ \A i \in 1..LenSize : f[i] = step[i][f[i - 1]]
    <3> HIDE DEF step
    <3> QED
      BY <2>0 DEF Iterates
  <2>2. ASSUME NEW i \in 1..LenSize
        PROVE  f[i] = Base * f[i - 1] + header[i]
    <3>1. i - 1 \in 0..LenSize /\ f[i - 1] \in Nat
      BY <1>0, <2>1
    <3>2. f[i] = step[i][f[i - 1]]
      BY <2>1
    <3> QED
      BY <3>1, <3>2
  <2> QED
    BY <2>1, <2>2
<1>4. Eq(f)
  BY <1>0, <1>3
<1>5. Value(header) = CHOOSE h : Eq(h)
  BY DEF Value
<1>6. Eq(Value(header))
  <2> HIDE DEF Eq
  <2> QED
    BY <1>4, <1>5
<1>7. \A i \in 0..LenSize :
        Value(header)[i] =
          IF i = 0 THEN 0 ELSE Base * Value(header)[i - 1] + header[i]
  BY <1>6, Zenon
<1>8. /\ Value(header)[0] = 0
      /\ \A i \in 1..LenSize :
           Value(header)[i] = Base * Value(header)[i - 1] + header[i]
  BY <1>0, <1>7
<1> DEFINE Good == {i \in 0..LenSize : Value(header)[i] \in Nat}
<1>9. 0..LenSize \subseteq Good
  <2>1. 0 \in Good
    BY <1>0, <1>8
  <2>2. ASSUME NEW i \in 1..LenSize, i - 1 \in Good
        PROVE  i \in Good
    BY <1>8, <1>10, <2>2
  <2> HIDE DEF Good
  <2> QED
    BY <1>0, <2>1, <2>2, UpTo
<1> QED
  BY <1>6, <1>8, <1>9

(* What fits in a header is read back from it (util.c 97-119). *)
THEOREM HeaderRoundTrip ==
  ASSUME NEW n \in Nat, Fits(n)
  PROVE  EncodeSize(n) \in Headers /\ DecodeSize(EncodeSize(n)) = n
<1> DEFINE left == Left(n)
           header == EncodeSize(n)
           value == Value(header)
           Good == {i \in 0..LenSize : value[i] = left[LenSize - i]}
<1>0. LenSize \in Nat
  BY SizesAssumption
<1>1. /\ left \in [0..LenSize -> Nat] /\ left[0] = n /\ left[LenSize] = 0
      /\ \A k \in 1..LenSize : left[k] = left[k - 1] \div Base
  BY LeftDef DEF Fits
<1>2. header = [i \in 1..LenSize |-> left[LenSize - i] % Base]
  BY DEF EncodeSize
<1> HIDE DEF left, header
<1>3. ASSUME NEW i \in 1..LenSize
      PROVE  left[LenSize - i] \in Nat /\ left[LenSize - i] % Base \in Digits
  <2>1. LenSize - i \in 0..LenSize
    BY <1>0
  <2>2. left[LenSize - i] \in Nat
    BY <1>1, <2>1
  <2> QED
    BY <2>2, Divided
<1>4. header \in Headers
  BY <1>2, <1>3 DEF Headers
<1>5. /\ value[0] = 0
      /\ \A i \in 1..LenSize : value[i] = Base * value[i - 1] + header[i]
  BY <1>4, ValueDef
<1> HIDE DEF value
<1>6. 0 \in Good
  BY <1>0, <1>1, <1>5
<1>7. ASSUME NEW i \in 1..LenSize, i - 1 \in Good
      PROVE  i \in Good
  <2> DEFINE v == left[LenSize - i]
  <2>1. value[i - 1] = left[LenSize - (i - 1)]
    BY <1>7
  <2>2. left[LenSize - (i - 1)] = v \div Base
    <3>1. LenSize - (i - 1) \in 1..LenSize
      BY <1>0
    <3>2. (LenSize - (i - 1)) - 1 = LenSize - i
      BY <1>0
    <3> QED
      BY <1>1, <3>1, <3>2
  <2>3. header[i] = v % Base
    BY <1>2
  <2>4. value[i] = Base * (v \div Base) + (v % Base)
    BY <1>5, <2>1, <2>2, <2>3
  <2>5. v \in Nat
    BY <1>3
  <2>6. value[i] = v
    <3> HIDE DEF v
    <3> QED
      BY <2>4, <2>5, Divided
  <2> QED
    BY <1>0, <2>6
<1>8. 0..LenSize \subseteq Good
  <2> HIDE DEF Good
  <2> QED
    BY <1>0, <1>6, <1>7, UpTo
<1>9. value[LenSize] = left[LenSize - LenSize]
  BY <1>0, <1>8
<1> QED
  BY <1>0, <1>1, <1>4, <1>9 DEF DecodeSize, header, value

(* What is read from a header fits in one. *)
LEMMA DecodedFits ==
  ASSUME NEW header \in Headers
  PROVE  DecodeSize(header) \in Nat /\ Fits(DecodeSize(header))
<1> DEFINE value == Value(header)
           n == value[LenSize]
           left == Left(n)
           Good == {k \in 0..LenSize : left[k] = value[LenSize - k]}
<1>0. LenSize \in Nat /\ Base \in Nat \ {0}
  BY SizesAssumption
<1>1. /\ value \in [0..LenSize -> Nat] /\ value[0] = 0
      /\ \A i \in 1..LenSize : value[i] = Base * value[i - 1] + header[i]
  BY ValueDef
<1>9. n = DecodeSize(header)
  BY DEF DecodeSize
<1> HIDE DEF value
<1>2. n \in Nat
  BY <1>0, <1>1
<1>3. /\ left[0] = n
      /\ \A k \in 1..LenSize : left[k] = left[k - 1] \div Base
  <2> HIDE DEF n
  <2> QED
    BY <1>2, LeftDef
<1> HIDE DEF left
<1>4. 0 \in Good
  BY <1>0, <1>3
<1>5. ASSUME NEW k \in 1..LenSize, k - 1 \in Good
      PROVE  k \in Good
  <2> DEFINE i == LenSize - (k - 1)
             v == value[LenSize - k]
             d == header[i]
  <2>1. i \in 1..LenSize /\ i - 1 = LenSize - k /\ LenSize - k \in 0..LenSize
    BY <1>0
  <2>2. v \in Nat /\ d \in 0..(Base - 1)
    BY <1>1, <2>1 DEF Headers, Digits
  <2>3. value[i] = Base * v + d
    BY <1>1, <2>1
  <2>4. left[k] = value[i] \div Base
    BY <1>3, <1>5
  <2>5. (Base * v + d) \div Base = v
    <3> HIDE DEF v, d
    <3>1. Base * v \in Nat /\ Base \in Nat \ {0}
      BY <1>0, <2>2
    <3> QED
      BY <1>0, <2>2, <3>1
  <2> QED
    BY <2>3, <2>4, <2>5
<1>6. 0..LenSize \subseteq Good
  <2> HIDE DEF Good
  <2> QED
    BY <1>0, <1>4, <1>5, UpTo
<1>7. left[LenSize] = value[LenSize - LenSize]
  BY <1>0, <1>6
<1>8. left[LenSize] = 0
  BY <1>0, <1>1, <1>7
<1> QED
  BY <1>2, <1>8, <1>9 DEF Fits, left

(* What is no larger fits too. *)
LEMMA SmallerFits ==
  ASSUME NEW n \in Nat, NEW m \in Nat, m <= n, Fits(n)
  PROVE  Fits(m)
<1> DEFINE low == Left(m)
           high == Left(n)
           Good == {k \in 0..LenSize : low[k] <= high[k]}
<1>0. LenSize \in Nat /\ Base \in Nat \ {0}
  BY SizesAssumption
<1>1. /\ low \in [0..LenSize -> Nat] /\ low[0] = m
      /\ \A k \in 1..LenSize : low[k] = low[k - 1] \div Base
  BY LeftDef
<1>2. /\ high \in [0..LenSize -> Nat] /\ high[0] = n /\ high[LenSize] = 0
      /\ \A k \in 1..LenSize : high[k] = high[k - 1] \div Base
  BY LeftDef DEF Fits
<1>7. Fits(m) <=> low[LenSize] = 0
  BY DEF Fits
<1> HIDE DEF low, high
<1>3. 0 \in Good
  BY <1>0, <1>1, <1>2
<1>4. ASSUME NEW k \in 1..LenSize, k - 1 \in Good
      PROVE  k \in Good
  <2> DEFINE a == low[k - 1]
             b == high[k - 1]
  <2>1. a \in Nat /\ b \in Nat /\ a <= b
    BY <1>0, <1>1, <1>2, <1>4
  <2>2. low[k] = a \div Base /\ high[k] = b \div Base
    BY <1>1, <1>2
  <2>3. a \div Base <= b \div Base
    <3> HIDE DEF a, b
    <3> QED
      BY <1>0, <2>1
  <2> QED
    BY <2>2, <2>3
<1>5. 0..LenSize \subseteq Good
  <2> HIDE DEF Good
  <2> QED
    BY <1>0, <1>3, <1>4, UpTo
<1>6. low[LenSize] <= 0 /\ low[LenSize] \in Nat
  BY <1>0, <1>1, <1>2, <1>5
<1> QED
  BY <1>6, <1>7

-----------------------------------------------------------------------------
(* Padding and encryption *)

(* A padded size is never a multiple of the block (crypto.c 29). *)
LEMMA PaddedIsUneven ==
  ASSUME NEW n \in Nat
  PROVE  /\ PadSize(n) \in Nat
         /\ PadSize(n) % Block # 0
<1> USE SizesAssumption
<1>1. CASE (n + 1) % Block = 0
  <2>1. PadSize(n) = n + 2
    BY <1>1 DEF PadSize, Prefix
  <2>2. (n + 2) % Block = 1
    BY <1>1, SMTT(60)
  <2> QED
    BY <2>1, <2>2
<1>2. CASE (n + 1) % Block # 0
  <2>1. PadSize(n) = n + 1
    BY <1>2 DEF PadSize, Prefix
  <2> QED
    BY <1>2, <2>1
<1> QED
  BY <1>1, <1>2

(* The cipher's own padding is a byte short of a block at most, for sizes  *)
(* that are uneven: p + Block - 1 bytes hold it (crypto.c 306, 481).       *)
LEMMA CipherFits ==
  ASSUME NEW n \in Nat
  PROVE  CipherSize(PadSize(n)) <= CipherRoom(PadSize(n))
<1> DEFINE p == PadSize(n)
<1>1. p \in Nat /\ Block \in Nat \ {0}
  BY PaddedIsUneven, SizesAssumption
<1>2. p % Block \in 1..(Block - 1)
  BY <1>1, PaddedIsUneven
<1> HIDE DEF p
<1>3. (p - (p % Block)) + Block <= p + Block - 1
  BY <1>1, <1>2
<1> QED
  BY <1>3 DEF p, CipherSize, CipherRoom

(* What padding puts in front, unpadding takes off, whatever the data.     *)
LEMMA RoundTrip ==
  ASSUME NEW S, NEW data \in Seq(S)
  PROVE  Unpad(Pad(data)) = data
<1>1. CASE (Len(data) + 1) % Block = 0
  <2>1. Pad(data) = <<1, Base - 1>> \o data
    BY <1>1 DEF Pad, Prefix
  <2>2. Head(Pad(data)) = 1 /\ Len(Pad(data)) = Len(data) + 2
    BY <2>1
  <2>3. SubSeq(Pad(data), 3, Len(Pad(data))) = data
    BY <2>1, <2>2
  <2> QED
    BY <2>2, <2>3 DEF Unpad
<1>2. CASE (Len(data) + 1) % Block # 0
  <2>1. Pad(data) = <<0>> \o data
    BY <1>2 DEF Pad, Prefix
  <2>2. Head(Pad(data)) = 0 /\ Tail(Pad(data)) = data
    BY <2>1
  <2> QED
    BY <2>2 DEF Unpad
<1> QED
  BY <1>1, <1>2

(* What the cipher makes of n bytes, the nonce in front, has a size. *)
LEMMA SecretSizeType ==
  ASSUME NEW n \in Nat
  PROVE  SecretSize(n) \in Nat
<1> DEFINE p == PadSize(n)
<1>1. p \in Nat /\ Block \in Nat \ {0} /\ NonceSize \in Nat
  BY PaddedIsUneven, SizesAssumption
<1> HIDE DEF p
<1>2. (p - (p % Block)) + Block \in Nat
  BY <1>1
<1> QED
  BY <1>1, <1>2 DEF p, SecretSize, CipherSize
=============================================================================
