------------------------------- MODULE Codec -------------------------------
(***************************************************************************)
(* What the library makes of a message before it is written: padding and   *)
(* encryption (src/src/crypto.c) behind a header that holds the size       *)
(* (src/src/util.c).  Ciphers are OpenSSL's; of them only the number of    *)
(* bytes they write is kept, the code allocates its buffers by it.         *)
(*                                                                         *)
(* The code's values are LenSize 5, Base 256, Block 16, NonceSize 16,      *)
(* EncKeySize 256 (RSA 2048) and IntMax 2^31 - 1.                          *)
(***************************************************************************)
EXTENDS Integers, Sequences

CONSTANTS LenSize,     \* digits of a header (CDTP_LENSIZE)
          Base,        \* values of a byte
          Block,       \* block of the cipher, in bytes
          NonceSize,   \* CDTP_AES_NONCE_SIZE
          EncKeySize,  \* size of an encrypted session key
          IntMax       \* largest int

ASSUME SizesAssumption ==
  /\ LenSize \in Nat \ {0} /\ NonceSize \in Nat /\ EncKeySize \in Nat
  /\ Base \in Nat \ {0, 1} /\ Block \in Nat \ {0, 1} /\ IntMax \in Nat

Digits == 0..(Base - 1)
Headers == [1..LenSize -> Digits]

-----------------------------------------------------------------------------
(* The header *)

(* What is left of n when k digits have been written, the last one first. *)
Left(n) ==
  LET left[k \in 0..LenSize] == IF k = 0 THEN n ELSE left[k - 1] \div Base
  IN  left

(* Mutant of EncodeSize: the header counts itself. *)
EncodeSizeOfFrame(n) ==
  [i \in 1..LenSize |-> Left(n + LenSize)[LenSize - i] % Base]

(* Big-endian; what does not fit in LenSize digits is cut. *)
EncodeSize(n) == [i \in 1..LenSize |-> Left(n)[LenSize - i] % Base]

Fits(n) == Left(n)[LenSize] = 0

(* The size when i bytes of a header have been decoded. *)
Value(header) ==
  LET value[i \in 0..LenSize] ==
        IF i = 0 THEN 0 ELSE Base * value[i - 1] + header[i]
  IN  value

DecodeSize(header) == Value(header)[LenSize]

-----------------------------------------------------------------------------
(* Padding *)

(* Mutant of Prefix: one byte whatever the size. *)
PrefixOfOne(n) == <<0>>

(* One byte, or two where one would make the size a multiple of the block. *)
Prefix(n) == IF (n + 1) % Block = 0 THEN <<1, Base - 1>> ELSE <<0>>

Pad(data) == Prefix(Len(data)) \o data

PadSize(n) == n + Len(Prefix(n))

Unpad(padded) ==
  IF Head(padded) = 1 THEN SubSeq(padded, 3, Len(padded)) ELSE Tail(padded)

-----------------------------------------------------------------------------
(* Encryption *)

(* CBC adds a padding of its own, 1 to Block bytes. *)
CipherSize(p) == (p - (p % Block)) + Block

(* What is allocated for the ciphertext of p bytes. *)
CipherRoom(p) == p + Block - 1

(* _cdtp_crypto_aes_encrypt: the nonce, then the ciphertext. *)
SecretSize(n) == NonceSize + CipherSize(PadSize(n))

(* _cdtp_crypto_rsa_encrypt: the size of the encrypted session key in a    *)
(* header, that key, the nonce, the ciphertext.                            *)
SealedSize(n) == LenSize + EncKeySize + SecretSize(n)

(* Sizes are size_t in the interface and int in the cipher: the int sums   *)
(* of _cdtp_crypto_aes_encrypt do not overflow.                            *)
IntsHold(n) ==
  /\ CipherRoom(PadSize(n)) <= IntMax
  /\ SecretSize(n) <= IntMax
=============================================================================
