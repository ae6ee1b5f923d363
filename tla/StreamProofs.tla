---------------------------- MODULE StreamProofs ----------------------------
(***************************************************************************)
(* Proofs about Stream, for messages of any number and size, buffers and   *)
(* sizes of any kind the assumptions allow: until garbage is taken for a   *)
(* message the loop keeps its place in the bytes and takes nothing past a  *)
(* hole; and the connection implements the channel.                        *)
(***************************************************************************)
EXTENDS Stream, CodecProofs, SequenceTheorems

(* The session key goes first and whole, and a header holds every size.    *)
Frames ==
  /\ frames # <<>> => frames[1].data = SessionKey /\ Whole(1)
  /\ \A i \in 2..Len(frames) :
       frames[i].data \in Payloads /\ Fits(SecretSize(Len(frames[i].data)))

(* A frame whose header was read in its place is one that was written.     *)
Phase ==
  /\ rpc \in {"key_header", "key_body"} => got = <<>>
  /\ ~Astray /\ rpc \in {"key_body", "body"} => NextFrame <= Len(frames)
  /\ ~Astray /\ rpc = "header" => NextFrame - 1 <= Len(frames)

(* Messages are taken in order and none that was cut short, up to the      *)
(* first garbage none is left out.                                         *)
InOrder ==
  \A k \in DOMAIN got :
    /\ (\A j \in 1..k : got[j] # 0) => got[k] = k
    /\ got[k] # 0 => /\ got[k] < Len(frames) /\ Whole(got[k] + 1)
                     /\ \A j \in 1..(k - 1) : got[j] < got[k]

(* The bytes of what was taken are behind: none of them is read again.     *)
Behind ==
  \A k \in DOMAIN got : got[k] # 0 =>
    \A m \in DOMAIN Unread : got[k] + 1 < Unread[m][1]

(* An event belongs to a message or to garbage that was taken, or to the   *)
(* end.                                                                    *)
Belongs(event) ==
  /\ event.msg \in Int
  /\ event.msg = 0 => rpc = "ended"
  /\ event.msg > 0 => \E k \in DOMAIN got : got[k] = event.msg
  /\ event.msg < 0 => 0 - event.msg <= Len(got)

Started == \A event \in running \cup handled : Belongs(event)

Inv == TypeOK /\ Frames /\ InStep /\ Phase /\ InOrder /\ Behind /\ Started

-----------------------------------------------------------------------------
(* Sequences of bytes *)

(* The data of a frame are a sequence.                                     *)
LEMMA DataType ==
  ASSUME NEW data \in Payloads \cup {SessionKey}
  PROVE  data \in Seq(Nat) /\ Len(data) \in Nat
<1>1. PICK i \in Nat, n \in Nat : data = Message(i, n)
  BY StreamAssumption DEF Payloads, SessionKey
<1>2. Message(i, n) \in Seq(Nat)
  BY DEF Message
<1> QED
  BY <1>1, <1>2

(* The bytes of a part of a frame.                                         *)
LEMMA BytesType ==
  ASSUME NEW i \in Nat, NEW from \in Nat, NEW to \in Nat, from <= to + 1
  PROVE  /\ Bytes(i, from, to) \in Seq(Nat \X Nat)
         /\ Len(Bytes(i, from, to)) = to - from + 1
         /\ \A j \in 1..(to - from + 1) :
              Bytes(i, from, to)[j] = <<i, from + j - 1>>
<1>1. to - from + 1 \in Nat
  OBVIOUS
<1>2. \A j \in 1..(to - from + 1) : <<i, from + j - 1>> \in Nat \X Nat
  OBVIOUS
<1> QED
  BY <1>1, <1>2 DEF Bytes

(* The bytes of the beginning of a frame.                                   *)
LEMMA FirstBytes ==
  ASSUME NEW i \in Nat, NEW to \in Nat
  PROVE  /\ Bytes(i, 1, to) \in Seq(Nat \X Nat) /\ Len(Bytes(i, 1, to)) = to
         /\ \A j \in 1..to : Bytes(i, 1, to)[j] = <<i, j>>
<1>1. to - 1 + 1 = to
  OBVIOUS
<1>2. \A j \in 1..to : 1 + j - 1 = j
  OBVIOUS
<1>3. Bytes(i, 1, to) = [j \in 1..to |-> <<i, j>>]
  BY <1>1, <1>2, Zenon DEF Bytes
<1> QED
  BY <1>3

(* Every frame has a size, which fits in a header.                         *)
LEMMA FrameTypes ==
  ASSUME TypeOK, Frames, NEW i \in 1..Len(frames)
  PROVE  /\ BodySize(i) \in Nat /\ Fits(BodySize(i))
         /\ FrameSize(i) = LenSize + BodySize(i)
         /\ frames[i].put \in 1..FrameSize(i)
         /\ frames[i].data \in Payloads \cup {SessionKey}
         /\ i > 1 => frames[i].data \in Payloads
<1>1. frames[i].data \in Payloads \cup {SessionKey}
  <2> DEFINE D == Payloads \cup {SessionKey}
  <2>1. frames \in Seq([data : D, put : Nat])
    BY DEF TypeOK
  <2> HIDE DEF D
  <2>2. frames[i] \in [data : D, put : Nat]
    BY <2>1, ElementOfSeq
  <2>3. frames[i].data \in D
    BY <2>2
  <2> QED
    BY <2>3 DEF D
<1>2. frames[i].put \in 1..FrameSize(i) /\ FrameSize(i) = LenSize + BodySize(i)
  BY DEF TypeOK, FrameSize
<1>3. CASE i = 1
  <2>1. SecretSize(KeySize) \in Nat
    BY SecretSizeType, StreamAssumption
  <2>2. SealedSize(KeySize) \in Nat
    BY <2>1, SizesAssumption DEF SealedSize
  <2>3. BodySize(i) = SealedSize(KeySize)
    BY <1>3 DEF BodySize
  <2> QED
    BY <1>1, <1>2, <1>3, <2>2, <2>3, StreamAssumption
<1>4. CASE i # 1
  <2>1. i \in 2..Len(frames)
    BY <1>4
  <2>2. frames[i].data \in Payloads /\ Fits(SecretSize(Len(frames[i].data)))
    BY <2>1 DEF Frames
  <2>3. SecretSize(Len(frames[i].data)) \in Nat
    BY <1>1, DataType, SecretSizeType
  <2>4. BodySize(i) = SecretSize(Len(frames[i].data))
    BY <1>4 DEF BodySize
  <2> QED
    BY <1>2, <2>2, <2>3, <2>4
<1> QED
  BY <1>3, <1>4

(* What was taken is a sequence of numbers.                                *)
LEMMA GotType ==
  ASSUME TypeOK
  PROVE  /\ Len(got) \in Nat /\ DOMAIN got = 1..Len(got)
         /\ \A k \in DOMAIN got : got[k] \in Nat /\ got[k] \in 0..MaxMsgs
         /\ Len(frames) \in Nat /\ MaxMsgs \in Nat
BY StreamAssumption DEF TypeOK

(* What is not read, byte by byte.                                         *)
LEMMA UnreadType ==
  ASSUME TypeOK
  PROVE  /\ Unread \in Seq(Nat \X Nat)
         /\ Len(Unread) = Len(arrived) + Len(flight)
         /\ \A j \in 1..Len(arrived) : Unread[j] = arrived[j]
         /\ \A j \in 1..Len(flight) : Unread[Len(arrived) + j] = flight[j]
<1>1. arrived \in Seq(Nat \X Nat) /\ flight \in Seq(Nat \X Nat)
  BY DEF TypeOK
<1> QED
  BY <1>1 DEF Unread

(* The first byte that is not read has arrived if any has.                 *)
LEMMA FirstArrived ==
  ASSUME TypeOK, arrived # <<>>
  PROVE  /\ Len(arrived) \in Nat \ {0} /\ Len(flight) \in Nat
         /\ Len(Unread) \in Nat \ {0}
         /\ Unread # <<>> /\ Unread[1] = arrived[1]
<1>1. arrived \in Seq(Nat \X Nat) /\ flight \in Seq(Nat \X Nat)
  BY DEF TypeOK
<1>2. Len(arrived) \in Nat \ {0} /\ Len(flight) \in Nat
  BY <1>1
<1>3. Len(Unread) \in Nat \ {0}
  BY <1>2, UnreadType
<1>4. Unread # <<>>
  BY <1>3, UnreadType
<1>5. Unread[1] = arrived[1]
  BY <1>2, UnreadType
<1> QED
  BY <1>2, <1>3, <1>4, <1>5

(* The head of a sequence, moved to the end of the one before it.          *)
LEMMA MoveHead ==
  ASSUME NEW B, NEW s \in Seq(B), NEW t \in Seq(B), t # <<>>
  PROVE  Append(s, Head(t)) \o Tail(t) = s \o t
<1>1. Head(t) \in B /\ Tail(t) \in Seq(B) /\ <<Head(t)>> \in Seq(B)
  OBVIOUS
<1>2. t = <<Head(t)>> \o Tail(t)
  <2> DEFINE h == <<Head(t)>>
             r == Tail(t)
             u == h \o r
  <2>1. /\ Len(r) = Len(t) - 1 /\ \A j \in 1..Len(r) : r[j] = t[j + 1]
        /\ Len(h) = 1 /\ h[1] = t[1] /\ Len(t) \in Nat \ {0}
    OBVIOUS
  <2> HIDE DEF h, r
  <2>2. /\ u \in Seq(B) /\ Len(u) = 1 + Len(r)
        /\ \A j \in 1..Len(u) : u[j] = IF j <= 1 THEN h[j] ELSE r[j - 1]
    BY <1>1, <2>1, ConcatProperties DEF h, r
  <2> HIDE DEF u
  <2>3. Len(u) = Len(t) /\ \A j \in 1..Len(t) : u[j] = t[j]
    BY <2>1, <2>2
  <2>4. u = t
    BY <2>2, <2>3, SeqEqual
  <2> QED
    BY <2>4 DEF u, h, r
<1>3. Append(s, Head(t)) = s \o <<Head(t)>>
  OBVIOUS
<1> QED
  BY <1>1, <1>2, <1>3, ConcatAssociative

(* The network delivers in order.                                          *)
LEMMA DeliverKeeps ==
  ASSUME TypeOK, flight # <<>>,
         arrived' = Append(arrived, Head(flight)), flight' = Tail(flight)
  PROVE  /\ arrived' \in Seq(Nat \X Nat) /\ flight' \in Seq(Nat \X Nat)
         /\ Len(flight') + Len(arrived') = Len(flight) + Len(arrived)
         /\ Unread' = Unread
<1>1. arrived \in Seq(Nat \X Nat) /\ flight \in Seq(Nat \X Nat)
  BY DEF TypeOK
<1>2. /\ arrived' \in Seq(Nat \X Nat) /\ flight' \in Seq(Nat \X Nat)
      /\ Len(flight') = Len(flight) - 1 /\ Len(arrived') = Len(arrived) + 1
  BY <1>1
<1>3. Unread' = Unread
  BY <1>1, MoveHead, Zenon DEF Unread
<1> QED
  BY <1>1, <1>2, <1>3

(* What is left of two sequences when k elements of the first are cut off. *)
LEMMA CutConcat ==
  ASSUME NEW B, NEW s \in Seq(B), NEW t \in Seq(B), NEW k \in 0..Len(s)
  PROVE  /\ SubSeq(s, k + 1, Len(s)) \in Seq(B)
         /\ Len(SubSeq(s, k + 1, Len(s))) = Len(s) - k
         /\ SubSeq(s, k + 1, Len(s)) \o t \in Seq(B)
         /\ Len(SubSeq(s, k + 1, Len(s)) \o t) = Len(s \o t) - k
         /\ \A j \in 1..Len(SubSeq(s, k + 1, Len(s)) \o t) :
              (SubSeq(s, k + 1, Len(s)) \o t)[j] = (s \o t)[j + k]
<1> DEFINE a == Len(s)
           b == Len(t)
           u == SubSeq(s, k + 1, Len(s))
<1>1. a \in Nat /\ b \in Nat /\ k \in 0..a
  OBVIOUS
<1>2. /\ u \in Seq(B) /\ Len(u) = a - k
      /\ \A j \in 1..(a - k) : u[j] = s[j + k]
  BY <1>1
<1> HIDE DEF u
<1>3. /\ u \o t \in Seq(B) /\ Len(u \o t) = (a - k) + b
      /\ \A j \in 1..((a - k) + b) :
           (u \o t)[j] = IF j <= a - k THEN u[j] ELSE t[j - (a - k)]
  <2>1. /\ u \o t \in Seq(B) /\ Len(u \o t) = Len(u) + b
        /\ \A j \in 1..(Len(u) + b) :
             (u \o t)[j] = IF j <= Len(u) THEN u[j] ELSE t[j - Len(u)]
    BY <1>2, ConcatProperties, Zenon
  <2> QED
    BY <1>2, <2>1, Zenon
<1>4. /\ Len(s \o t) = a + b
      /\ \A j \in 1..(a + b) :
           (s \o t)[j] = IF j <= a THEN s[j] ELSE t[j - a]
  BY ConcatProperties
<1> HIDE DEF a, b
<1>5. Len(u \o t) = Len(s \o t) - k
  BY <1>1, <1>3, <1>4
<1>6. ASSUME NEW j \in 1..((a - k) + b)
      PROVE  (u \o t)[j] = (s \o t)[j + k]
  <2>1. j + k \in 1..(a + b)
    BY <1>1
  <2>2. CASE j <= a - k
    BY <1>1, <1>2, <1>3, <1>4, <2>1, <2>2
  <2>3. CASE ~(j <= a - k)
    <3>1. j - (a - k) = (j + k) - a /\ ~(j + k <= a)
      BY <1>1, <2>3
    <3> QED
      BY <1>3, <1>4, <2>1, <2>3, <3>1
  <2> QED
    BY <2>2, <2>3
<1> QED
  BY <1>2, <1>3, <1>5, <1>6, Zenon DEF u, a

(* A read of k bytes leaves the rest.                                      *)
LEMMA ReadLeaves ==
  ASSUME TypeOK, NEW k \in 0..Len(arrived),
         arrived' = SubSeq(arrived, k + 1, Len(arrived)), flight' = flight
  PROVE  /\ arrived' \in Seq(Nat \X Nat)
         /\ Len(arrived') = Len(arrived) - k
         /\ Unread' \in Seq(Nat \X Nat)
         /\ Len(Unread') = Len(Unread) - k
         /\ \A j \in 1..Len(Unread') : Unread'[j] = Unread[j + k]
<1> DEFINE B == Nat \X Nat
           a == SubSeq(arrived, k + 1, Len(arrived))
<1>1. arrived \in Seq(B) /\ flight \in Seq(B)
  BY DEF TypeOK
<1>2. Unread' = a \o flight /\ Unread = arrived \o flight
  BY DEF Unread
<1> HIDE DEF B
<1>3. /\ a \in Seq(B) /\ Len(a) = Len(arrived) - k
      /\ a \o flight \in Seq(B)
      /\ Len(a \o flight) = Len(arrived \o flight) - k
      /\ \A j \in 1..Len(a \o flight) :
           (a \o flight)[j] = (arrived \o flight)[j + k]
  <2> DEFINE s == arrived
             t == flight
  <2>1. s \in Seq(B) /\ t \in Seq(B) /\ k \in 0..Len(s)
    BY <1>1
  <2> HIDE DEF s, t
  <2>2. /\ SubSeq(s, k + 1, Len(s)) \in Seq(B)
        /\ Len(SubSeq(s, k + 1, Len(s))) = Len(s) - k
        /\ SubSeq(s, k + 1, Len(s)) \o t \in Seq(B)
        /\ Len(SubSeq(s, k + 1, Len(s)) \o t) = Len(s \o t) - k
        /\ \A j \in 1..Len(SubSeq(s, k + 1, Len(s)) \o t) :
             (SubSeq(s, k + 1, Len(s)) \o t)[j] = (s \o t)[j + k]
    BY <2>1, CutConcat
  <2> QED
    BY <2>2, Zenon DEF s, t
<1> QED
  BY <1>2, <1>3, Zenon DEF B

-----------------------------------------------------------------------------
(* In step *)

(* From the first byte of a frame on, a read is in that frame still, at    *)
(* the place that it has counted, or in a later frame and less far.        *)
LEMMA Reading ==
  ASSUME TypeOK, Unbroken(Unread), NEW n \in Nat, Unread[1] = <<n, 1>>
  PROVE  \A j \in 1..Len(Unread) :
           \/ \A i \in 1..j : Unread[i] = <<n, i>>
           \/ Unread[j][1] > n /\ Unread[j][2] \in 1..(j - 1)
<1> DEFINE U == Unread
           Same(j) == \A i \in 1..j : U[i] = <<n, i>>
           Later(j) == U[j][1] > n /\ U[j][2] \in 1..(j - 1)
           Good == {j \in 0..Len(U) : j > 0 => Same(j) \/ Later(j)}
<1>1. U \in Seq(Nat \X Nat) /\ Len(U) \in Nat /\ U[1] = <<n, 1>>
  BY UnreadType
<1>2. \A k \in 1..(Len(U) - 1) :
        \/ U[k + 1] = <<U[k][1], U[k][2] + 1>>
        \/ U[k + 1] = <<U[k][1] + 1, 1>>
  BY DEF Unbroken, Follows
<1>3. \A k \in 1..Len(U) : U[k][1] \in Nat /\ U[k][2] \in Nat
  BY <1>1
<1> HIDE DEF U
<1>4. 0 \in Good
  BY <1>1
<1>5. ASSUME NEW j \in 1..Len(U), j - 1 \in Good
      PROVE  j \in Good
  <2>1. CASE j = 1
    BY <1>1, <2>1
  <2>2. CASE j > 1 /\ Same(j - 1)
    <3>1. U[j - 1] = <<n, j - 1>> /\ j - 1 \in 1..(Len(U) - 1)
      BY <1>1, <2>2
    <3>2. U[j] = <<n, j>> \/ U[j] = <<n + 1, 1>>
      <4>1. \/ U[(j - 1) + 1] = <<U[j - 1][1], U[j - 1][2] + 1>>
            \/ U[(j - 1) + 1] = <<U[j - 1][1] + 1, 1>>
        BY <1>2, <3>1
      <4>2. (j - 1) + 1 = j
        OBVIOUS
      <4> QED
        BY <3>1, <4>1, <4>2
    <3>3. CASE U[j] = <<n, j>>
      <4>1. \A i \in 1..j : i \in 1..(j - 1) \/ i = j
        OBVIOUS
      <4>2. Same(j)
        BY <2>2, <3>3, <4>1
      <4> QED
        BY <1>1, <4>2
    <3>4. CASE U[j] = <<n + 1, 1>>
      <4>1. U[j][1] = n + 1 /\ U[j][2] = 1
        BY <3>4
      <4>2. Later(j)
        BY <2>2, <4>1
      <4> QED
        BY <1>1, <4>2
    <3> QED
      BY <3>2, <3>3, <3>4
  <2>3. CASE j > 1 /\ Later(j - 1)
    <3> DEFINE m == U[j - 1][1]
               p == U[j - 1][2]
    <3>1. m \in Nat /\ m > n /\ p \in 1..(j - 2) /\ j - 1 \in 1..(Len(U) - 1)
      <4>1. /\ j - 1 \in 1..(Len(U) - 1) /\ j - 1 \in 1..Len(U)
            /\ (j - 1) - 1 = j - 2
        BY <1>1, <2>3
      <4>2. m \in Nat
        BY <1>3, <4>1
      <4>3. m > n /\ p \in 1..((j - 1) - 1)
        BY <2>3
      <4> QED
        BY <4>1, <4>2, <4>3
    <3>2. U[j] = <<m, p + 1>> \/ U[j] = <<m + 1, 1>>
      <4>1. U[(j - 1) + 1] = <<m, p + 1>> \/ U[(j - 1) + 1] = <<m + 1, 1>>
        BY <1>2, <3>1
      <4>2. (j - 1) + 1 = j
        OBVIOUS
      <4> QED
        BY <4>1, <4>2
    <3> HIDE DEF m, p
    <3>3. Later(j)
      <4>1. \/ U[j][1] = m /\ U[j][2] = p + 1
            \/ U[j][1] = m + 1 /\ U[j][2] = 1
        BY <3>2
      <4> QED
        BY <2>3, <3>1, <4>1
    <3> QED
      BY <1>1, <3>3
  <2>4. j > 1 => Same(j - 1) \/ Later(j - 1)
    <3> HIDE DEF Same, Later
    <3> QED
      BY <1>1, <1>5
  <2> HIDE DEF Same, Later, Good
  <2>5. j = 1 \/ j > 1
    BY <1>1
  <2> QED
    BY <2>1, <2>2, <2>3, <2>4, <2>5
<1>6. 0..Len(U) \subseteq Good
  <2> DEFINE L == Len(U)
  <2>1. L \in Nat /\ \A j \in 1..L : j - 1 \in Good => j \in Good
    BY <1>1, <1>5
  <2> HIDE DEF Good, L
  <2>2. 0..L \subseteq Good
    BY <1>4, <2>1, UpTo
  <2> QED
    BY <2>2 DEF L
<1>7. \A j \in 1..Len(U) : Same(j) \/ Later(j)
  <2>1. \A j \in 1..Len(U) : j \in 0..Len(U) /\ j > 0
    BY <1>1
  <2> QED
    BY <1>6, <2>1, Zenon
<1> QED
  BY <1>7 DEF U

(* What is left after a read is as unbroken, and ends where it did.        *)
LEMMA ReadKeeps ==
  ASSUME TypeOK, Unbroken(Unread), NEW k \in Nat,
         NEW V \in Seq(Nat \X Nat), Len(V) = Len(Unread) - k,
         \A j \in 1..Len(V) : V[j] = Unread[j + k]
  PROVE  /\ Unbroken(V)
         /\ V # <<>> => /\ Unread # <<>>
                        /\ V[Len(V)] = Unread[Len(Unread)]
<1> DEFINE U == Unread
           L == Len(U)
           M == Len(V)
<1>1. M \in Nat /\ M = L - k /\ \A j \in 1..M : V[j] = U[j + k]
  OBVIOUS
<1>2. U \in Seq(Nat \X Nat)
  BY UnreadType
<1>3. L \in Nat /\ DOMAIN U = 1..L /\ DOMAIN V = 1..M
  BY <1>2
<1>4. /\ \A j \in 1..L : Written(U[j])
      /\ \A j \in 1..(L - 1) : Follows(U[j + 1], U[j])
  BY <1>3 DEF Unbroken
<1>5. V # <<>> => M > 0
  BY <1>1
<1>6. L > 0 => U # <<>>
  BY <1>2
<1> HIDE DEF U, L, M
<1>m. M \in Nat /\ L \in Nat /\ M + k = L
  BY <1>1, <1>3
<1>8. ASSUME NEW j \in 1..M
      PROVE  Written(V[j])
  <2>1. j + k \in 1..L
    BY <1>m
  <2> QED
    BY <1>1, <1>4, <2>1
<1>9. ASSUME NEW j \in 1..(M - 1)
      PROVE  Follows(V[j + 1], V[j])
  <2>1. /\ j \in 1..M /\ j + 1 \in 1..M /\ j + k \in 1..(L - 1)
        /\ (j + 1) + k = (j + k) + 1
    BY <1>m
  <2>2. V[j] = U[j + k] /\ V[j + 1] = U[(j + k) + 1]
    <3>1. \A i \in 1..M : V[i] = U[i + k]
      BY <1>1, Zenon
    <3>2. V[j] = U[j + k]
      BY <2>1, <3>1
    <3>3. V[j + 1] = U[(j + 1) + k]
      BY <2>1, <3>1, Zenon
    <3>4. U[(j + 1) + k] = U[(j + k) + 1]
      BY <2>1, Zenon
    <3> QED
      BY <3>2, <3>3, <3>4, Zenon
  <2> QED
    BY <1>4, <2>1, <2>2
<1>10. M > 0 => U # <<>> /\ V[M] = U[L]
  <2>1. M > 0 => M \in 1..M /\ M + k = L /\ L > 0
    BY <1>m
  <2> QED
    BY <1>1, <1>6, <2>1
<1>11. Unbroken(V)
  BY <1>3, <1>8, <1>9, Zenon DEF Unbroken, M
<1> QED
  BY <1>5, <1>10, <1>11 DEF U, L, M

(* Nothing is written by a read.                                           *)
LEMMA NothingWritten ==
  ASSUME frames' = frames, Unbroken(Unread')
  PROVE  Unbroken(Unread)' /\ LastWritten' = LastWritten
BY DEF Unbroken, Written, Follows, LastWritten

(* What was read and turned out to be a body was read from its first byte  *)
(* to its last, and was the next one, unless garbage was read before.      *)
LEMMA WholeBody ==
  ASSUME TypeOK, Frames, InStep, Running, rpc \in {"key_body", "body"},
         size \in 1..Len(arrived), NEW i \in 1..Len(frames),
         SubSeq(arrived, 1, size) = Body(i)
  PROVE  /\ ~Astray => i = NextFrame
         /\ size = BodySize(i) /\ Whole(i)
         /\ Unread[1] = <<i, LenSize + 1>>
         /\ Unread[size] = <<i, FrameSize(i)>> /\ size \in 1..Len(Unread)
<1>1. /\ arrived \in Seq(Nat \X Nat) /\ Len(arrived) \in Nat
      /\ size \in Nat /\ frames # <<>>
  BY DEF TypeOK
<1>2. /\ BodySize(i) \in Nat /\ FrameSize(i) = LenSize + BodySize(i)
      /\ frames[i].put \in 1..FrameSize(i)
  BY FrameTypes
<1>3. LenSize \in Nat \ {0}
  BY SizesAssumption
<1>4. /\ Len(Body(i)) = BodySize(i)
      /\ \A j \in 1..BodySize(i) : Body(i)[j] = <<i, LenSize + j>>
  <2>1. /\ i \in Nat /\ LenSize + 1 \in Nat /\ FrameSize(i) \in Nat
        /\ LenSize + 1 <= FrameSize(i) + 1
        /\ FrameSize(i) - (LenSize + 1) + 1 = BodySize(i)
    BY <1>2, <1>3
  <2>2. /\ Len(Body(i)) = FrameSize(i) - (LenSize + 1) + 1
        /\ \A j \in 1..(FrameSize(i) - (LenSize + 1) + 1) :
             Body(i)[j] = <<i, (LenSize + 1) + j - 1>>
    BY <2>1, BytesType DEF Body
  <2>3. \A j \in 1..BodySize(i) : (LenSize + 1) + j - 1 = LenSize + j
    BY <1>2, <1>3
  <2> QED
    BY <2>1, <2>2, <2>3
<1>5. size = BodySize(i) /\ \A j \in 1..size : arrived[j] = <<i, LenSize + j>>
  <2> DEFINE S == SubSeq(arrived, 1, size)
  <2>1. Len(S) = size /\ \A j \in 1..size : S[j] = arrived[j]
    BY <1>1
  <2>2. S = Body(i)
    OBVIOUS
  <2> HIDE DEF S
  <2> QED
    BY <1>4, <2>1, <2>2
<1>6. /\ size \in 1..Len(Unread)
      /\ \A j \in 1..size : Unread[j] = <<i, LenSize + j>>
  <2>1. Len(flight) \in Nat
    BY DEF TypeOK
  <2>2. /\ Len(Unread) = Len(arrived) + Len(flight)
        /\ \A j \in 1..Len(arrived) : Unread[j] = arrived[j]
    BY UnreadType
  <2>3. \A j \in 1..size : j \in 1..Len(arrived)
    BY <1>1
  <2>4. size \in 1..Len(Unread)
    BY <1>1, <2>1, <2>2
  <2> QED
    BY <1>5, <2>2, <2>3, <2>4, Zenon
<1>7. Unread[1] = <<i, LenSize + 1>> /\ Unread[size] = <<i, FrameSize(i)>>
  <2>1. 1 \in 1..size /\ size \in 1..size
    BY <1>1
  <2> QED
    BY <1>2, <1>5, <1>6, <2>1
<1>8. Unread \in Seq(Nat \X Nat) /\ Unread # <<>>
  <2>1. Len(Unread) # 0
    BY <1>1, <1>6
  <2> QED
    BY <2>1, UnreadType
<1>9. ASSUME ~Astray
      PROVE  i = NextFrame
  <2>1. \/ Unread[1] = <<NextFrame, LenSize + 1>>
        \/ Unread[1][2] \in 1..LenSize
    BY <1>8, <1>9 DEF InStep, InPlace
  <2>2. Unread[1][1] = i /\ Unread[1][2] = LenSize + 1
    BY <1>7
  <2>3. LenSize + 1 \notin 1..LenSize
    BY <1>3
  <2> QED
    BY <2>1, <2>2, <2>3
<1>10. Whole(i)
  <2>1. Written(Unread[size])
    BY <1>6, <1>8 DEF InStep, Unbroken
  <2>2. FrameSize(i) \in 1..frames[i].put
    BY <1>7, <2>1 DEF Written
  <2> QED
    BY <1>2, <1>3, <2>2 DEF Whole
<1> QED
  BY <1>5, <1>6, <1>7, <1>9, <1>10

(* Bytes in a row are never of an earlier frame than the first of them.    *)
LEMMA LaterFrames ==
  ASSUME NEW V \in Seq(Nat \X Nat), Unbroken(V)
  PROVE  \A m \in 1..Len(V) : V[m][1] >= V[1][1]
<1> DEFINE Good == {m \in 0..Len(V) : m > 0 => V[m][1] >= V[1][1]}
           L == Len(V)
<1>1. L \in Nat /\ \A m \in 1..L : V[m][1] \in Nat
  OBVIOUS
<1>2. \A k \in 1..(L - 1) :
        V[k + 1][1] = V[k][1] \/ V[k + 1][1] = V[k][1] + 1
  <2>1. \A k \in 1..(L - 1) :
          \/ V[k + 1] = <<V[k][1], V[k][2] + 1>>
          \/ V[k + 1] = <<V[k][1] + 1, 1>>
    BY DEF Unbroken, Follows
  <2>2. \A a, b : <<a, b>>[1] = a
    OBVIOUS
  <2> QED
    BY <2>1, <2>2, Zenon
<1>3. 0 \in Good
  BY <1>1
<1>4. ASSUME NEW k \in 1..L, k - 1 \in Good
      PROVE  k \in Good
  <2>1. CASE k = 1
    BY <1>1, <2>1
  <2>2. CASE k # 1
    <3>1. /\ k - 1 \in 1..(L - 1) /\ (k - 1) + 1 = k
          /\ k - 1 \in 1..L /\ 1 \in 1..L
      BY <1>1, <2>2
    <3>2. V[k][1] = V[k - 1][1] \/ V[k][1] = V[k - 1][1] + 1
      <4>1. \/ V[(k - 1) + 1][1] = V[k - 1][1]
            \/ V[(k - 1) + 1][1] = V[k - 1][1] + 1
        BY <1>2, <3>1
      <4> QED
        BY <3>1, <4>1, Zenon
    <3>3. V[k - 1][1] >= V[1][1]
      BY <1>4, <3>1
    <3> DEFINE a == V[k][1]
               b == V[k - 1][1]
               c == V[1][1]
    <3>4. a \in Nat /\ b \in Nat /\ c \in Nat
      BY <1>1, <3>1
    <3>5. a >= c
      <4> HIDE DEF a, b, c
      <4>1. a = b \/ a = b + 1
        BY <3>2 DEF a, b
      <4>2. b >= c
        BY <3>3 DEF b, c
      <4> QED
        BY <3>4, <4>1, <4>2
    <3> QED
      BY <1>1, <3>5
  <2> QED
    BY <2>1, <2>2
<1>5. 0..L \subseteq Good
  <2> HIDE DEF Good, L
  <2> QED
    BY <1>1, <1>3, <1>4, UpTo
<1>6. \A m \in 1..L : m \in 0..L /\ m > 0
  BY <1>1
<1> QED
  BY <1>5, <1>6

(* After a body the bytes that are left begin with the next frame.         *)
LEMMA AfterBody ==
  ASSUME TypeOK, Frames, InStep, Running, rpc \in {"key_body", "body"},
         size \in 1..Len(arrived), NEW i \in 1..Len(frames),
         SubSeq(arrived, 1, size) = Body(i),
         arrived' = SubSeq(arrived, size + 1, Len(arrived)),
         flight' = flight, frames' = frames, link' = link
  PROVE  /\ Unbroken(Unread)'
         /\ link # "reset" /\ Unread' # <<>> =>
              Unread'[Len(Unread')] = LastWritten
         /\ IF Unread' # <<>> THEN Unread'[1] = <<i + 1, 1>>
            ELSE link # "reset" => Len(frames) = i
         /\ \A m \in DOMAIN Unread' : i < Unread'[m][1]
<1> DEFINE U == Unread
           V == Unread'
<1>1. /\ U[size] = <<i, FrameSize(i)>> /\ size \in 1..Len(U)
      /\ frames[i].put = FrameSize(i)
  BY WholeBody DEF Whole
<1>2. size \in 0..Len(arrived) /\ size \in Nat
  BY DEF TypeOK
<1>3. /\ V \in Seq(Nat \X Nat) /\ Len(V) = Len(U) - size
      /\ \A j \in 1..Len(V) : V[j] = U[j + size]
  BY <1>2, ReadLeaves
<1>4. /\ Unbroken(U) /\ U \in Seq(Nat \X Nat)
      /\ link # "reset" /\ U # <<>> => U[Len(U)] = LastWritten
  BY UnreadType DEF InStep
<1>5. FrameSize(i) \in Nat
  BY FrameTypes, SizesAssumption
<1>6. Unbroken(V) /\ (V # <<>> => U # <<>> /\ V[Len(V)] = U[Len(U)])
  <2> HIDE DEF V
  <2> QED
    BY <1>2, <1>3, <1>4, ReadKeeps
<1> HIDE DEF U, V
<1>7. ASSUME V # <<>>
      PROVE  V[1] = <<i + 1, 1>>
  <2>1. 1 \in 1..Len(V) /\ size \in 1..(Len(U) - 1) /\ 1 + size = size + 1
    BY <1>2, <1>3, <1>4, <1>7
  <2>2. V[1] = U[size + 1]
    <3>1. V[1] = U[1 + size]
      BY <1>3, <2>1, Zenon
    <3> QED
      BY <2>1, <3>1, Zenon
  <2>3. Follows(U[size + 1], U[size]) /\ Written(U[size + 1])
    <3>1. size + 1 \in DOMAIN U
      BY <1>4, <2>1
    <3> QED
      BY <1>4, <2>1, <3>1 DEF Unbroken
  <2>4. CASE U[size + 1] = <<i, FrameSize(i) + 1>>
    <3>1. FrameSize(i) + 1 \in 1..FrameSize(i)
      BY <1>1, <2>3, <2>4 DEF Written
    <3> QED
      BY <1>5, <3>1
  <2> QED
    BY <1>1, <2>2, <2>3, <2>4 DEF Follows
<1>8. ASSUME V = <<>>, link # "reset"
      PROVE  Len(frames) = i
  <2>1. Len(V) = 0
    BY <1>8
  <2>2. size = Len(U) /\ U # <<>>
    BY <1>1, <1>2, <1>3, <1>4, <2>1
  <2>3. U[size] = LastWritten
    BY <1>4, <1>8, <2>2
  <2> QED
    BY <1>1, <2>3 DEF LastWritten
<1>9. Unbroken(Unread)'
  BY <1>6, NothingWritten DEF V
<1>10. link # "reset" /\ V # <<>> => V[Len(V)] = LastWritten
  BY <1>4, <1>6
<1>11. ASSUME NEW m \in DOMAIN V
       PROVE  i < V[m][1]
  <2>1. m \in 1..Len(V) /\ V # <<>>
    BY <1>3, <1>11
  <2>2. V[m][1] >= V[1][1] /\ V[m][1] \in Nat
    <3>1. V \in Seq(Nat \X Nat) /\ Unbroken(V)
      BY <1>3, <1>6
    <3>2. \A k \in 1..Len(V) : V[k][1] >= V[1][1]
      BY <3>1, LaterFrames, Zenon
    <3>3. V[m] \in Nat \X Nat
      BY <2>1, <3>1
    <3> QED
      BY <2>1, <3>2, <3>3
  <2>3. V[1][1] = i + 1
    BY <1>7, <2>1
  <2> DEFINE v == V[m][1]
  <2> HIDE DEF v
  <2>4. v >= i + 1 /\ v \in Nat
    BY <2>2, <2>3 DEF v
  <2>5. i < v
    BY <2>4
  <2> QED
    BY <2>5 DEF v
<1> QED
  BY <1>7, <1>8, <1>9, <1>10, <1>11 DEF V

(* After a header, read whole or in part, the bytes that are left do not   *)
(* begin with a body, unless with the one that size is the size of.        *)
LEMMA AfterHeader ==
  ASSUME TypeOK, Frames, InStep, Running, rpc \in {"key_header", "header"},
         NEW next, HeaderRead(next), ~Astray
  PROVE  /\ NextFrame \in 1..Len(frames)
         /\ Unread' # <<>> =>
              \/ /\ Unread'[1] = <<NextFrame, LenSize + 1>>
                 /\ size' = BodySize(NextFrame)
              \/ Unread'[1][1] = NextFrame /\ Unread'[1][2] \in 2..LenSize
              \/ Unread'[1][1] > NextFrame /\ Unread'[1][2] \in 1..LenSize
<1> DEFINE U == Unread
           V == Unread'
           n == NextFrame
           count == Least(LenSize, Len(arrived))
<1>1. /\ Len(arrived) \in Nat \ {0} /\ Len(flight) \in Nat
      /\ U # <<>> /\ U \in Seq(Nat \X Nat)
      /\ \A j \in 1..Len(arrived) : U[j] = arrived[j]
  BY FirstArrived, UnreadType DEF HeaderRead
<1>2. LenSize \in Nat \ {0}
  BY SizesAssumption
<1>3. /\ count \in 1..LenSize /\ count \in 1..Len(arrived)
      /\ count = LenSize \/ count = Len(arrived)
  BY <1>1, <1>2 DEF Least
<1>4. /\ flight' = flight /\ frames' = frames
      /\ arrived' = SubSeq(arrived, count + 1, Len(arrived))
  BY DEF HeaderRead, sender
<1>5. PICK header \in Headers :
        /\ \A j \in 1..count : header[j] \in Values(arrived[j])
        /\ size' = DecodeSize(header)
  BY DEF HeaderRead
<1> HIDE DEF count
<1>6. count \in 0..Len(arrived)
  BY <1>1, <1>3
<1>7. /\ V \in Seq(Nat \X Nat) /\ Len(V) = Len(U) - count
      /\ \A j \in 1..Len(V) : V[j] = U[j + count]
  BY <1>4, <1>6, ReadLeaves
<1>8. Unbroken(U) /\ U[1] = <<n, 1>>
  BY <1>1 DEF InStep, InPlace
<1>12. n \in 1..Len(frames) /\ n \in Nat
  <2>1. 1 \in DOMAIN U
    BY <1>1
  <2>2. Written(U[1])
    BY <1>8, <2>1 DEF Unbroken
  <2>3. n \in 1..Len(frames)
    BY <1>8, <2>2 DEF Written
  <2>4. Len(frames) \in Nat
    BY DEF TypeOK
  <2> QED
    BY <2>3, <2>4
<1>13. \A j \in 1..Len(U) :
         \/ \A i \in 1..j : U[i] = <<n, i>>
         \/ U[j][1] > n /\ U[j][2] \in 1..(j - 1)
  BY <1>8, <1>12, Reading
<1> HIDE DEF U, n
<1>14. ASSUME V # <<>>
       PROVE  \/ V[1] = <<n, LenSize + 1>> /\ size' = BodySize(n)
              \/ V[1][1] = n /\ V[1][2] \in 2..LenSize
              \/ V[1][1] > n /\ V[1][2] \in 1..LenSize
  <2>1. Len(U) \in Nat /\ Len(V) \in Nat \ {0}
    BY <1>1, <1>7, <1>14
  <2> HIDE DEF V
  <2>2. /\ 1 \in 1..Len(V) /\ count + 1 \in 1..Len(U)
        /\ 1 + count = count + 1 /\ (count + 1) - 1 = count
    BY <1>3, <1>7, <2>1
  <2>3. V[1] = U[count + 1]
    <3>1. V[1] = U[1 + count]
      BY <1>7, <2>2, Zenon
    <3> QED
      BY <2>2, <3>1, Zenon
  <2>4. CASE U[count + 1][1] > n /\ U[count + 1][2] \in 1..count
    <3>1. U[count + 1][2] \in 1..LenSize
      BY <1>2, <1>3, <2>4
    <3> QED
      BY <2>3, <2>4, <3>1
  <2>5. CASE \A i \in 1..(count + 1) : U[i] = <<n, i>>
    <3>1. V[1] = <<n, count + 1>>
      BY <1>3, <2>3, <2>5
    <3>2. CASE count < LenSize
      <4>1. count + 1 \in 2..LenSize
        BY <1>2, <1>3, <3>2
      <4> QED
        BY <3>1, <4>1
    <3>3. CASE count = LenSize
      <4>1. ASSUME NEW j \in 1..LenSize
            PROVE  header[j] = EncodeSize(BodySize(n))[j]
        <5>1. j \in 1..count /\ j \in 1..Len(arrived) /\ j \in 1..(count + 1)
          BY <1>1, <1>2, <1>3, <3>3
        <5>2. arrived[j] = <<n, j>>
          BY <1>1, <2>5, <5>1 DEF U
        <5>3. Values(arrived[j]) = {EncodeSize(BodySize(n))[j]}
          BY <5>2 DEF Values
        <5> QED
          BY <1>5, <5>1, <5>3
      <4>2. BodySize(n) \in Nat /\ Fits(BodySize(n))
        BY <1>12, FrameTypes
      <4>3. /\ EncodeSize(BodySize(n)) \in Headers
            /\ DecodeSize(EncodeSize(BodySize(n))) = BodySize(n)
        BY <4>2, HeaderRoundTrip
      <4>4. header = EncodeSize(BodySize(n))
        <5> DEFINE e == EncodeSize(BodySize(n))
                   I == 1..LenSize
        <5>1. /\ header \in [I -> Digits] /\ e \in [I -> Digits]
              /\ \A j \in I : header[j] = e[j]
          BY <1>5, <4>1, <4>3 DEF Headers
        <5> HIDE DEF e, I
        <5>2. header = e
          BY <5>1
        <5> QED
          BY <5>2 DEF e
      <4> QED
        BY <1>5, <3>1, <3>3, <4>3, <4>4
    <3> QED
      BY <1>2, <1>3, <3>2, <3>3
  <2> QED
    BY <1>13, <2>2, <2>4, <2>5
<1> QED
  BY <1>12, <1>14 DEF V, n

-----------------------------------------------------------------------------
(* What is written *)

(* The type invariant in parts.                                            *)
FrameType ==
  /\ frames \in Seq([data : Payloads \cup {SessionKey}, put : Nat])
  /\ Len(frames) <= MaxMsgs + 1
  /\ \A i \in DOMAIN frames : frames[i].put \in 1..FrameSize(i)

WireType ==
  /\ link \in {"open", "fin", "reset"}
  /\ flight \in Seq(Nat \X Nat) /\ arrived \in Seq(Nat \X Nat)
  /\ Len(flight) + Len(arrived) <= Buffer

ReceiverType ==
  /\ rpc \in {"key_header", "key_body", "header", "body", "ended", "failed"}
  /\ size \in Nat /\ Fits(size)
  /\ key \in {<<>>, SessionKey, Garbage}
  /\ got \in Seq(0..MaxMsgs)
  /\ fault \in {"none", "garbled", "wild_size"}

EventType == running \cap handled = {}

(* The type invariant by parts: of the frames, the bytes, the receiver and  *)
(* the events.                                                              *)
LEMMA TypeParts ==
  /\ TypeOK <=> FrameType /\ WireType /\ ReceiverType /\ EventType
  /\ TypeOK' <=> FrameType' /\ WireType' /\ ReceiverType' /\ EventType'
BY DEF TypeOK, FrameType, WireType, ReceiverType, EventType

(* Where nothing is written, the frames stay what they are.                *)
LEMMA SameFrames ==
  ASSUME frames' = frames, FrameType, Frames
  PROVE  /\ FrameType' /\ Frames'
         /\ \A i : BodySize(i)' = BodySize(i) /\ (Whole(i)' <=> Whole(i))
<1>1. \A i : BodySize(i)' = BodySize(i)
  BY DEF BodySize
<1>2. \A i : FrameSize(i)' = FrameSize(i)
  BY <1>1 DEF FrameSize
<1>3. \A i : Whole(i)' <=> Whole(i)
  BY <1>2 DEF Whole
<1>4. FrameType'
  BY <1>2 DEF FrameType
<1>5. Frames'
  BY <1>3 DEF Frames
<1> QED
  BY <1>1, <1>3, <1>4, <1>5

(* The size of the frame of what is written after frame i.                 *)
NewSize(i, data) ==
  LenSize + (IF i = 0 THEN SealedSize(KeySize) ELSE SecretSize(Len(data)))

(* A frame that is written leaves the earlier ones.                        *)
LEMMA OneFrameMore ==
  ASSUME FrameType, Frames, NEW data \in Payloads \cup {SessionKey},
         NEW put \in 1..NewSize(Len(frames), data),
         frames' = Append(frames, [data |-> data, put |-> put]),
         Len(frames) <= MaxMsgs,
         IF Len(frames) = 0
         THEN data = SessionKey /\ put = NewSize(0, data)
         ELSE data \in Payloads /\ Fits(SecretSize(Len(data)))
  PROVE  /\ FrameType' /\ Frames'
         /\ Len(frames) \in Nat /\ Len(frames') = Len(frames) + 1
         /\ \A i \in 1..Len(frames) :
              /\ frames'[i] = frames[i]
              /\ BodySize(i)' = BodySize(i) /\ (Whole(i)' <=> Whole(i))
         /\ frames'[Len(frames')] = [data |-> data, put |-> put]
<1> DEFINE D == Payloads \cup {SessionKey}
           R == [data : D, put : Nat]
           r == [data |-> data, put |-> put]
<1>l. PICK l \in Nat : l = Len(frames)
  BY DEF FrameType
<1>1. /\ frames \in Seq(R)
      /\ \A i \in DOMAIN frames : frames[i].put \in 1..FrameSize(i)
  BY DEF FrameType
<1>2. data \in D /\ put \in Nat /\ put >= 1
  OBVIOUS
<1>3. r \in R
  <2> HIDE DEF D
  <2> QED
    BY <1>2
<1>4. r.data = data /\ r.put = put
  OBVIOUS
<1>5. frames' = Append(frames, r)
  OBVIOUS
<1> HIDE DEF R, r
<1>6. /\ l \in Nat /\ DOMAIN frames = 1..l
      /\ frames' \in Seq(R) /\ Len(frames') = l + 1
      /\ DOMAIN frames' = 1..(l + 1)
      /\ \A i \in 1..l : frames'[i] = frames[i]
      /\ frames'[l + 1] = r
  BY <1>1, <1>3, <1>5, <1>l
<1> HIDE DEF D
<1>7. \A i \in 1..l : /\ BodySize(i)' = BodySize(i)
                     /\ FrameSize(i)' = FrameSize(i)
  BY <1>6 DEF BodySize, FrameSize
<1>8. \A i \in 1..l : Whole(i)' <=> Whole(i)
  BY <1>6, <1>7 DEF Whole
<1>9. FrameSize(l + 1)' = NewSize(l, data)
  <2>1. l + 1 = 1 <=> l = 0
    BY <1>6
  <2>2. frames'[l + 1].data = data
    BY <1>4, <1>6, Zenon
  <2>3. BodySize(l + 1)' =
          IF l + 1 = 1 THEN SealedSize(KeySize) ELSE SecretSize(Len(data))
    <3>1. BodySize(l + 1)' =
            IF l + 1 = 1 THEN SealedSize(KeySize)
            ELSE SecretSize(Len(frames'[l + 1].data))
      BY Zenon DEF BodySize
    <3> QED
      BY <2>2, <3>1, Zenon
  <2>4. FrameSize(l + 1)' = LenSize + BodySize(l + 1)'
    BY DEF FrameSize
  <2> QED
    BY <2>1, <2>3, <2>4, Zenon DEF NewSize
<1>10. FrameType'
  <2>1. \A i \in 1..(l + 1) : frames'[i].put \in 1..FrameSize(i)'
    <3>1. \A i \in 1..(l + 1) : i \in 1..l \/ i = l + 1
      BY <1>6
    <3>2. \A i \in 1..l : frames'[i].put \in 1..FrameSize(i)'
      BY <1>1, <1>6, <1>7
    <3>3. frames'[l + 1].put \in 1..FrameSize(l + 1)'
      <4>1. frames'[l + 1].put = put
        BY <1>4, <1>6, Zenon
      <4>2. put \in 1..NewSize(l, data)
        BY <1>l
      <4> QED
        BY <1>9, <4>1, <4>2, Zenon
    <3> QED
      BY <3>1, <3>2, <3>3
  <2>2. Len(frames') <= MaxMsgs + 1
    BY <1>6, <1>l, StreamAssumption
  <2> QED
    BY <1>6, <2>1, <2>2 DEF FrameType, R, D
<1>11. frames'[1].data = SessionKey /\ Whole(1)'
  <2>1. CASE l = 0
    <3>1. data = SessionKey /\ put = NewSize(0, data)
      BY <1>l, <2>1
    <3>2. frames'[1] = r /\ FrameSize(1)' = NewSize(0, data)
      <4>1. l + 1 = 1
        BY <2>1
      <4> QED
        <5>1. frames'[l + 1] = r /\ FrameSize(l + 1)' = NewSize(l, data)
          BY <1>6, <1>9, Zenon
        <5> QED
          BY <2>1, <4>1, <5>1, Zenon
    <3> QED
      BY <1>4, <3>1, <3>2 DEF Whole
  <2>2. CASE l # 0
    <3>1. 1 \in 1..l /\ frames # <<>>
      BY <1>6, <1>l, <2>2
    <3> QED
      BY <1>6, <1>8, <3>1 DEF Frames
  <2> QED
    BY <2>1, <2>2
<1>12. ASSUME NEW i \in 2..(l + 1)
       PROVE  /\ frames'[i].data \in Payloads
              /\ Fits(SecretSize(Len(frames'[i].data)))
  <2>1. CASE i = l + 1
    <3>1. l # 0
      BY <2>1
    <3>2. data \in Payloads /\ Fits(SecretSize(Len(data)))
      BY <1>l, <3>1
    <3> QED
      BY <1>4, <1>6, <2>1, <3>2
  <2>2. CASE i # l + 1
    <3>1. i \in 2..l /\ i \in 1..l
      BY <1>6, <2>2
    <3> QED
      BY <1>6, <1>l, <3>1 DEF Frames
  <2> QED
    BY <2>1, <2>2
<1>13. Frames'
  BY <1>6, <1>11, <1>12 DEF Frames
<1> QED
  BY <1>6, <1>7, <1>8, <1>10, <1>13, <1>l DEF r

(* Bytes that were there before, or are of a frame that was not.           *)
Rest(V) ==
  \A m \in DOMAIN V :
    (\E j \in DOMAIN Unread : V[m] = Unread[j]) \/ Len(frames) < V[m][1]

(* What is written is written after the rest.                              *)
LEMMA MoreWritten ==
  ASSUME WireType, Unbroken(Unread), link # "reset",
         Unread # <<>> => Unread[Len(Unread)] = LastWritten,
         NEW put \in Nat \ {0}, Len(frames) \in Nat,
         Len(frames') = Len(frames) + 1,
         \A i \in 1..Len(frames) : frames'[i] = frames[i],
         frames'[Len(frames')].put = put,
         flight' = flight \o Bytes(Len(frames) + 1, 1, put),
         arrived' = arrived
  PROVE  /\ flight' \in Seq(Nat \X Nat) /\ Len(flight') = Len(flight) + put
         /\ Unbroken(Unread)' /\ Unread' # <<>>
         /\ Unread'[Len(Unread')] = LastWritten'
         /\ Unread # <<>> => Unread'[1] = Unread[1]
         /\ Unread = <<>> => Unread'[1] = <<Len(frames) + 1, 1>>
         /\ Rest(Unread')
<1> DEFINE B == Nat \X Nat
           n == Len(frames) + 1
           N == Bytes(n, 1, put)
           U == Unread
           V == Unread'
           L == Len(U)
<1>1. N \in Seq(B) /\ Len(N) = put /\ \A j \in 1..put : N[j] = <<n, j>>
  <2>1. n \in Nat /\ put \in Nat
    OBVIOUS
  <2> HIDE DEF n
  <2> QED
    BY <2>1, FirstBytes
<1>2. arrived \in Seq(B) /\ flight \in Seq(B)
  BY DEF WireType
<1>3. U = arrived \o flight /\ V = arrived \o (flight \o N)
  BY DEF Unread
<1>4. n \in Nat /\ n = Len(frames) + 1
  OBVIOUS
<1>5. flight' = flight \o N
  OBVIOUS
<1> HIDE DEF B, n, N, L, U, V
<1>6. flight' \in Seq(B) /\ Len(flight') = Len(flight) + put
  <2>1. flight \o N \in Seq(B) /\ Len(flight \o N) = Len(flight) + Len(N)
    BY <1>1, <1>2, ConcatProperties, Zenon
  <2> QED
    BY <1>1, <1>5, <2>1, Zenon
<1>7. U \in Seq(B) /\ L \in Nat /\ DOMAIN U = 1..L /\ (U # <<>> <=> L > 0)
  <2>1. arrived \o flight \in Seq(B)
    BY <1>2, ConcatProperties, Zenon
  <2>2. U \in Seq(B)
    BY <1>3, <2>1, Zenon
  <2> QED
    BY <2>2 DEF L
<1>8. V = U \o N
  <2>1. (arrived \o flight) \o N = arrived \o (flight \o N)
    <3>1. \A s, t, u \in Seq(B) : (s \o t) \o u = s \o (t \o u)
      BY ConcatAssociative
    <3>2. arrived \in Seq(B) /\ flight \in Seq(B) /\ N \in Seq(B)
      BY <1>1, <1>2
    <3> QED
      BY <3>1, <3>2, Zenon
  <2> QED
    BY <1>3, <2>1, Zenon
<1>9. /\ V \in Seq(B) /\ Len(V) = L + put /\ DOMAIN V = 1..(L + put)
      /\ \A j \in 1..L : V[j] = U[j]
      /\ \A j \in 1..put : V[L + j] = N[j]
  <2>1. /\ U \o N \in Seq(B) /\ Len(U \o N) = L + put
        /\ \A j \in 1..(L + put) :
             (U \o N)[j] = IF j <= L THEN U[j] ELSE N[j - L]
    <3>1. /\ U \o N \in Seq(B) /\ Len(U \o N) = Len(U) + Len(N)
          /\ \A j \in 1..(Len(U) + Len(N)) :
               (U \o N)[j] = IF j <= Len(U) THEN U[j] ELSE N[j - Len(U)]
      BY <1>1, <1>7, ConcatProperties, Zenon
    <3>2. Len(N) = put
      BY <1>1
    <3> QED
      BY <3>1, <3>2, Zenon DEF L
  <2>2. /\ V \in Seq(B) /\ Len(V) = L + put
        /\ \A j \in 1..(L + put) :
             V[j] = IF j <= L THEN U[j] ELSE N[j - L]
    BY <1>8, <2>1, Zenon
  <2>3. put \in Nat /\ L \in Nat
    BY <1>7
  <2>4. \A j \in 1..L : V[j] = U[j]
    BY <2>2, <2>3
  <2>5. \A j \in 1..put : V[L + j] = N[j]
    <3>1. \A j \in 1..put : /\ L + j \in 1..(L + put) /\ ~(L + j <= L)
                            /\ (L + j) - L = j
      BY <2>3
    <3> QED
      BY <2>2, <3>1, Zenon
  <2> QED
    BY <2>2, <2>4, <2>5
<1>10. Len(frames') = n /\ frames'[n].put = put
  BY <1>4
<1> DEFINE Now(byte) == /\ byte[1] \in 1..Len(frames')
                        /\ byte[2] \in 1..frames'[byte[1]].put
           After(byte, last) ==
             \/ byte = <<last[1], last[2] + 1>>
             \/ byte = <<last[1] + 1, 1>> /\ last[2] = frames'[last[1]].put
<1>11. \A byte : Written(byte) => Now(byte)
  <2> SUFFICES ASSUME NEW byte, Written(byte) PROVE Now(byte)
    OBVIOUS
  <2>1. byte[1] \in 1..Len(frames) /\ byte[2] \in 1..frames[byte[1]].put
    BY DEF Written
  <2>2. byte[1] \in 1..Len(frames') /\ frames'[byte[1]] = frames[byte[1]]
    BY <2>1
  <2> QED
    BY <2>1, <2>2
<1>12. \A j \in 1..put : Now(<<n, j>>)
  BY <1>4, <1>10
<1>13. \A byte, last :
         Written(last) /\ Follows(byte, last) => After(byte, last)
  BY DEF Written, Follows
<1> HIDE DEF Now, After
<1>14. \A k \in 1..L : Written(U[k])
  BY <1>7 DEF Unbroken, U
<1>15. ASSUME NEW k \in 1..(L + put)
       PROVE  Now(V[k])
  <2>1. CASE k \in 1..L
    BY <1>9, <1>11, <1>14, <2>1
  <2>2. CASE k \notin 1..L
    <3>1. k - L \in 1..put /\ L + (k - L) = k
      BY <1>7, <2>2
    <3>2. V[k] = <<n, k - L>>
      BY <1>1, <1>9, <3>1
    <3> QED
      BY <1>12, <3>1, <3>2
  <2> QED
    BY <2>1, <2>2
<1>16. ASSUME NEW k \in 1..((L + put) - 1)
       PROVE  After(V[k + 1], V[k])
  <2>1. CASE k + 1 \in 1..L
    <3>1. k \in 1..(L - 1) /\ k \in 1..L
      BY <1>7, <2>1
    <3>2. Follows(U[k + 1], U[k])
      BY <3>1 DEF Unbroken, U, L
    <3> QED
      BY <1>9, <1>13, <1>14, <2>1, <3>1, <3>2
  <2>2. CASE k = L
    <3>1. L > 0 /\ L \in 1..L /\ 1 \in 1..put
      BY <1>7, <2>2
    <3>2. U[L] = LastWritten
      BY <1>7, <3>1 DEF U, L
    <3>3. V[k] = <<n - 1, frames[n - 1].put>> /\ V[k + 1] = <<n, 1>>
      BY <1>1, <1>4, <1>9, <2>2, <3>1, <3>2 DEF LastWritten
    <3>4. n - 1 \in 1..Len(frames)
      <4>1. Written(LastWritten)
        BY <1>14, <3>1, <3>2
      <4> QED
        BY <1>4, <4>1 DEF Written, LastWritten
    <3>5. frames'[n - 1] = frames[n - 1] /\ (n - 1) + 1 = n
      BY <1>4, <3>4
    <3> QED
      BY <3>3, <3>5 DEF After
  <2>3. CASE k > L
    <3>1. /\ k - L \in 1..put /\ L + (k - L) = k
          /\ (k + 1) - L \in 1..put /\ L + ((k + 1) - L) = k + 1
          /\ (k + 1) - L = (k - L) + 1
      BY <1>7, <2>3
    <3>2. V[k] = <<n, k - L>> /\ V[k + 1] = <<n, (k - L) + 1>>
      <4>1. V[k] = N[k - L] /\ V[k + 1] = N[(k + 1) - L]
        <5>1. V[L + (k - L)] = N[k - L]
          BY <1>9, <3>1, Zenon
        <5>2. V[L + ((k + 1) - L)] = N[(k + 1) - L]
          BY <1>9, <3>1, Zenon
        <5> QED
          BY <3>1, <5>1, <5>2, Zenon
      <4> QED
        BY <1>1, <3>1, <4>1, Zenon
    <3> QED
      BY <3>2 DEF After
  <2>4. k + 1 \in 1..L \/ k = L \/ k > L
    BY <1>7
  <2> QED
    BY <2>1, <2>2, <2>3, <2>4
<1>17. Unbroken(Unread)'
  <2>1. DOMAIN V = 1..(L + put) /\ Len(V) = L + put
    BY <1>9
  <2> QED
    BY <1>15, <1>16, <2>1 DEF Unbroken, Written, Follows, Now, After, V
<1>18. V # <<>> /\ V[Len(V)] = <<n, put>>
  <2>1. put \in 1..put /\ Len(V) = L + put /\ L + put > 0
    BY <1>7, <1>9
  <2>2. V[L + put] = N[put] /\ N[put] = <<n, put>>
    BY <1>1, <1>9, <2>1, Zenon
  <2>3. V # <<>>
    BY <1>9, <2>1
  <2> QED
    BY <2>1, <2>2, <2>3
<1>19. LastWritten' = <<n, put>>
  BY <1>10 DEF LastWritten
<1>20. U # <<>> => V[1] = U[1]
  BY <1>7, <1>9
<1>21. U = <<>> => V[1] = <<n, 1>>
  <2>1. U = <<>> => L = 0 /\ 1 \in 1..put /\ 0 + 1 = 1
    BY <1>7
  <2> QED
    BY <1>1, <1>9, <2>1
<1>22. ASSUME NEW m \in DOMAIN V
       PROVE  (\E j \in DOMAIN U : V[m] = U[j]) \/ Len(frames) < V[m][1]
  <2>1. CASE m \in 1..L
    BY <1>7, <1>9, <2>1
  <2>2. CASE m \notin 1..L
    <3>1. m - L \in 1..put /\ L + (m - L) = m
      BY <1>7, <1>9, <2>2
    <3>2. V[m] = <<n, m - L>>
      BY <1>1, <1>9, <3>1
    <3> QED
      BY <1>4, <3>2
  <2> QED
    BY <2>1, <2>2
<1> QED
  BY <1>6, <1>17, <1>18, <1>19, <1>20, <1>21, <1>22 DEF B, U, V, n, Rest

-----------------------------------------------------------------------------
(* The sender's and the network's steps *)

(* While the receiver waits, what was said of it stays true.               *)
LEMMA ReceiverWaits ==
  ASSUME Inv, UNCHANGED <<receiver, events>>, FrameType',
         Len(frames) <= Len(frames'),
         \A i \in 1..Len(frames) : Whole(i)' <=> Whole(i)
  PROVE  Phase' /\ InOrder' /\ Started' /\ EventType'
<1>1. /\ rpc' = rpc /\ got' = got /\ running' = running /\ handled' = handled
      /\ NextFrame' = NextFrame /\ Astray' = Astray
  BY DEF receiver, events, NextFrame, Astray
<1>2. Len(frames) \in Nat /\ Len(frames') \in Nat
  BY DEF FrameType, Inv, TypeOK
<1>3. Len(got) \in Nat /\ DOMAIN got = 1..Len(got) /\ NextFrame \in Nat
  BY DEF Inv, TypeOK, NextFrame
<1>4. Phase'
  <2>1. Phase
    BY DEF Inv
  <2> QED
    BY <1>1, <1>2, <1>3, <2>1 DEF Phase
<1>5. InOrder'
  <2>1. InOrder
    BY DEF Inv
  <2>2. ASSUME NEW k \in DOMAIN got, got[k] # 0
        PROVE  got[k] + 1 \in 1..Len(frames) /\ got[k] < Len(frames')
    <3>1. got[k] < Len(frames)
      BY <2>1, <2>2 DEF InOrder
    <3>2. got[k] \in Nat
      BY GotType DEF Inv
    <3> QED
      BY <1>2, <3>1, <3>2
  <2>3. \A k \in DOMAIN got : got[k] # 0 => Whole(got[k] + 1)'
    BY <1>1, <2>1, <2>2 DEF InOrder
  <2> QED
    BY <1>1, <2>1, <2>2, <2>3 DEF InOrder
<1>6. Started' /\ EventType'
  <2>1. Started /\ EventType
    BY TypeParts DEF Inv
  <2> QED
    BY <1>1, <2>1 DEF Started, Belongs, EventType
<1> QED
  BY <1>4, <1>5, <1>6

(* The bytes of what was taken are not among those that are left.          *)
LEMMA LeftBehind ==
  ASSUME Inv, Rest(Unread'), WireType'
  PROVE  \A k \in DOMAIN got : got[k] # 0 =>
           \A m \in DOMAIN Unread' : got[k] + 1 < Unread'[m][1]
<1>0. \A m \in DOMAIN Unread' : Unread'[m] \in Nat \X Nat
  BY DEF WireType, Unread
<1>1. ASSUME NEW k \in DOMAIN got, got[k] # 0, NEW m \in DOMAIN Unread'
      PROVE  got[k] + 1 < Unread'[m][1]
  <2>1. CASE \E j \in DOMAIN Unread : Unread'[m] = Unread[j]
    BY <1>1, <2>1 DEF Inv, Behind
  <2>2. CASE Len(frames) < Unread'[m][1]
    <3>1. got[k] < Len(frames) /\ got[k] \in Nat /\ Len(frames) \in Nat
      BY <1>1, GotType DEF Inv, InOrder
    <3>2. Unread'[m][1] \in Nat
      BY <1>0
    <3> DEFINE v == Unread'[m][1]
    <3> HIDE DEF v
    <3>3. got[k] + 1 < v
      BY <2>2, <3>1, <3>2 DEF v
    <3> QED
      BY <3>3 DEF v
  <2> QED
    BY <2>1, <2>2 DEF Rest
<1> QED
  BY <1>1

(* Where nothing is taken, what was taken stays behind.                    *)
LEMMA StaysBehind ==
  ASSUME Inv, got' = got, Rest(Unread'), WireType'
  PROVE  Behind'
BY LeftBehind DEF Behind

(* Where the same bytes are left, what was taken stays behind.             *)
LEMMA SameBehind ==
  ASSUME Behind, got' = got, Unread' = Unread
  PROVE  Behind'
BY DEF Behind

(* Between two steps of the receiver the first byte that is not read stays *)
(* the one the loop waits for.                                             *)
LEMMA StaysInStep ==
  ASSUME Inv, UNCHANGED <<receiver, fault>>, Running, frames' = frames,
         Unread' = Unread, link' # "reset" => link # "reset"
  PROVE  InStep'
<1>1. /\ rpc' = rpc /\ size' = size /\ key' = key /\ got' = got
      /\ NextFrame' = NextFrame /\ Astray' = Astray
  BY DEF receiver, NextFrame, Astray
<1>2. \A n : BodySize(n)' = BodySize(n)
  BY DEF BodySize
<1>3. BodySize(NextFrame)' = BodySize(NextFrame)
  BY <1>1 DEF BodySize
<1>4. Unbroken(Unread)' /\ LastWritten' = LastWritten
  <2>1. Unbroken(Unread')
    BY DEF Inv, InStep
  <2> QED
    BY <2>1, NothingWritten
<1>5. InStep
  BY DEF Inv
<1> QED
  BY <1>1, <1>3, <1>4, <1>5 DEF InStep, InPlace

(* The session key is written as the first frame, whole.                    *)
LEMMA SendKeyStep ==
  ASSUME Inv, SendKey
  PROVE  Inv'
<1> DEFINE put == LenSize + SealedSize(KeySize)
<1>1. /\ Running /\ link = "open" /\ frames = <<>>
      /\ frames' = <<[data |-> SessionKey, put |-> put]>>
      /\ flight' = Bytes(1, 1, put) /\ arrived' = arrived /\ link' = link
      /\ UNCHANGED <<receiver, events, fault>>
  BY DEF SendKey
<1>2. FrameType /\ WireType /\ ReceiverType /\ Frames /\ InStep /\ Phase
  BY TypeParts DEF Inv
<1>3. put \in Nat \ {0} /\ put <= Buffer
  <2>1. SecretSize(KeySize) \in Nat
    BY SecretSizeType, StreamAssumption
  <2>2. SealedSize(KeySize) \in Nat
    BY <2>1, SizesAssumption DEF SealedSize
  <2> QED
    BY <2>2, SizesAssumption, StreamAssumption
<1>4. Len(frames) = 0 /\ SessionKey \in Payloads \cup {SessionKey}
  BY <1>1
<1>5. put = NewSize(0, SessionKey)
  BY DEF NewSize
<1> HIDE DEF put
<1>6. frames' = Append(frames, [data |-> SessionKey, put |-> put])
  <2> DEFINE r == [data |-> SessionKey, put |-> put]
  <2>1. frames = <<>> /\ frames' = <<r>>
    BY <1>1
  <2> HIDE DEF r
  <2>2. frames' = Append(frames, r)
    BY <2>1
  <2> QED
    BY <2>2 DEF r
<1>7. /\ FrameType' /\ Frames' /\ Len(frames') = 1
      /\ frames'[1] = [data |-> SessionKey, put |-> put]
  <2>1. put \in 1..NewSize(Len(frames), SessionKey) /\ Len(frames) <= MaxMsgs
    BY <1>3, <1>4, <1>5, StreamAssumption
  <2> QED
    BY <1>2, <1>4, <1>5, <1>6, <2>1, OneFrameMore
<1>8. Unread = <<>> /\ flight = <<>> /\ Len(arrived) = 0
  <2>1. \A k \in DOMAIN Unread : FALSE
    BY <1>1, <1>2, <1>4 DEF InStep, Unbroken, Written
  <2>2. /\ Unread \in Seq(Nat \X Nat)
        /\ Len(Unread) = Len(arrived) + Len(flight)
    BY UnreadType DEF Inv
  <2>3. Len(Unread) = 0
    <3>1. Len(Unread) \in Nat /\ DOMAIN Unread = 1..Len(Unread)
      BY <2>2
    <3>2. 1 \notin 1..Len(Unread)
      BY <2>1, <3>1
    <3> QED
      BY <3>1, <3>2
  <2>4. arrived \in Seq(Nat \X Nat) /\ flight \in Seq(Nat \X Nat)
    BY <1>2 DEF WireType
  <2>5. Unread = <<>>
    BY <2>2, <2>3
  <2>6. Len(arrived) = 0 /\ Len(flight) = 0
    <3>1. Len(arrived) \in Nat /\ Len(flight) \in Nat
      BY <2>4
    <3>2. Len(arrived) + Len(flight) = 0
      BY <2>2, <2>3, Zenon
    <3> QED
      BY <3>1, <3>2
  <2> QED
    BY <2>4, <2>5, <2>6
<1>9. /\ flight' \in Seq(Nat \X Nat) /\ Len(flight') = Len(flight) + put
      /\ Unbroken(Unread)' /\ Unread' # <<>>
      /\ Unread'[Len(Unread')] = LastWritten'
      /\ Unread'[1] = <<Len(frames) + 1, 1>>
      /\ Rest(Unread')
  <2>1. flight' = flight \o Bytes(Len(frames) + 1, 1, put)
    <3>1. Bytes(1, 1, put) \in Seq(Nat \X Nat)
      BY <1>3, FirstBytes
    <3>2. Bytes(1, 1, put) = <<>> \o Bytes(1, 1, put)
      BY <3>1, ConcatEmptySeq
    <3>3. Len(frames) + 1 = 1
      BY <1>4
    <3> QED
      BY <1>1, <1>8, <3>2, <3>3, Zenon
  <2>2. /\ frames'[Len(frames')].put = put /\ Len(frames') = Len(frames) + 1
        /\ \A i \in 1..Len(frames) : frames'[i] = frames[i]
    BY <1>4, <1>7
  <2>3. Unbroken(Unread) /\ link # "reset" /\ Len(frames) \in Nat
    BY <1>1, <1>2, <1>4 DEF InStep
  <2> QED
    BY <1>1, <1>2, <1>3, <1>8, <2>1, <2>2, <2>3, MoreWritten
<1>10. ~Astray => rpc \notin {"key_body", "header", "body"}
  <2>1. Len(got) \in Nat
    BY <1>2 DEF ReceiverType
  <2> QED
    BY <1>2, <1>4, <2>1 DEF Phase, NextFrame
<1>11. WireType'
  <2>1. Len(flight') + Len(arrived') <= Buffer
    BY <1>1, <1>3, <1>8, <1>9
  <2> QED
    BY <1>1, <1>2, <1>9, <2>1 DEF WireType
<1>12. ReceiverType'
  BY <1>1, <1>2 DEF ReceiverType, receiver
<1>13. Phase' /\ InOrder' /\ Started' /\ EventType'
  BY <1>1, <1>4, <1>7, ReceiverWaits
<1>14. InStep'
  <2>1. rpc' = rpc /\ Astray' = Astray
    BY <1>1 DEF receiver, Astray
  <2>2. rpc = "key_header" => NextFrame' = 1
    BY <2>1 DEF NextFrame
  <2>3. Unread'[1] = <<1, 1>>
    BY <1>4, <1>9
  <2>4. ~Astray' => InPlace'
    BY <1>9, <1>10, <2>1, <2>2, <2>3 DEF InPlace
  <2> QED
    BY <1>9, <2>4 DEF InStep
<1>15. Behind'
  BY <1>1, <1>9, <1>11, StaysBehind DEF receiver
<1> QED
  BY <1>7, <1>11, <1>12, <1>13, <1>14, <1>15, TypeParts DEF Inv

(* A message is written as one frame more, as much of it as there is room   *)
(* for, or its size is too large for the cipher.                            *)
LEMMA SendStep ==
  ASSUME Inv, NEW n \in Sizes, Send(n)
  PROVE  Inv'
<1> DEFINE l == Len(frames)
           size1 == LenSize + SecretSize(n)
           room == Buffer - Len(flight) - Len(arrived)
           put == Least(size1, room)
           msg == Message((l + 1) - 1, n)
<1>1. /\ Running /\ link = "open" /\ frames # <<>> /\ l <= MaxMsgs
      /\ Len(flight) + Len(arrived) < Buffer
      /\ arrived' = arrived /\ link' = link
      /\ UNCHANGED <<receiver, events>>
      /\ \/ /\ IntsHold(n)
            /\ frames' = Append(frames, [data |-> msg, put |-> put])
            /\ flight' = flight \o Bytes(l + 1, 1, put)
            /\ fault' = fault
         \/ fault' = "wild_size" /\ frames' = frames /\ flight' = flight
  BY DEF Send, Room
<1>2. /\ FrameType /\ WireType /\ ReceiverType /\ EventType
      /\ Frames /\ InStep /\ Phase
  BY TypeParts DEF Inv
<1>3. CASE fault' = "wild_size" /\ frames' = frames /\ flight' = flight
  <2>1. /\ FrameType' /\ Frames'
        /\ \A i \in 1..Len(frames) : Whole(i)' <=> Whole(i)
    BY <1>2, <1>3, SameFrames
  <2>2. Len(frames) <= Len(frames')
    BY <1>2, <1>3 DEF FrameType
  <2>3. Phase' /\ InOrder' /\ Started' /\ EventType'
    BY <1>1, <2>1, <2>2, ReceiverWaits
  <2>4. WireType' /\ ReceiverType'
    BY <1>1, <1>2, <1>3 DEF WireType, ReceiverType, receiver
  <2>5. InStep'
    BY <1>3 DEF InStep, Running
  <2>6. Behind'
    BY <1>1, <1>3, SameBehind DEF Inv, receiver, Unread
  <2> QED
    BY <2>1, <2>3, <2>4, <2>5, <2>6, TypeParts DEF Inv
<1>4. CASE /\ IntsHold(n)
           /\ frames' = Append(frames, [data |-> msg, put |-> put])
           /\ flight' = flight \o Bytes(l + 1, 1, put)
           /\ fault' = fault
  <2>1. l \in Nat /\ l > 0 /\ n \in Nat
    BY <1>1, <1>2, StreamAssumption DEF FrameType
  <2>2. msg \in Payloads /\ msg = Message(l, n)
    <3>1. (l + 1) - 1 = l /\ l \in 1..MaxMsgs
      BY <1>1, <2>1
    <3> HIDE DEF l
    <3> QED
      BY <3>1 DEF Payloads
  <2>3. Len(msg) = n
    BY <2>1, <2>2 DEF Message
  <2>4. SecretSize(n) \in Nat /\ Fits(SecretSize(n))
    <3>1. SecretSize(n) \in Nat
      BY <2>1, SecretSizeType
    <3>2. SecretSize(n) <= NonceSize + IntMax /\ NonceSize + IntMax \in Nat
      BY <1>4, <3>1, SizesAssumption DEF IntsHold
    <3> QED
      BY <3>1, <3>2, SmallerFits, StreamAssumption
  <2>5. put \in 1..size1 /\ put <= room /\ room \in Nat
    <3>1. Len(flight) \in Nat /\ Len(arrived) \in Nat /\ Buffer \in Nat
      BY <1>2, StreamAssumption DEF WireType
    <3>2. size1 \in Nat \ {0}
      BY <2>4, SizesAssumption
    <3>3. room \in Nat \ {0}
      BY <1>1, <3>1
    <3> HIDE DEF size1, room
    <3> QED
      BY <3>2, <3>3 DEF Least
  <2>6. put \in 1..NewSize(l, msg)
    BY <2>1, <2>3, <2>5 DEF NewSize
  <2> HIDE DEF put, msg
  <2>7. /\ FrameType' /\ Frames' /\ Len(frames') = l + 1
        /\ \A i \in 1..l : /\ frames'[i] = frames[i]
                           /\ BodySize(i)' = BodySize(i)
                           /\ (Whole(i)' <=> Whole(i))
        /\ frames'[Len(frames')].put = put
    <3>1. IF Len(frames) = 0 THEN msg = SessionKey /\ put = NewSize(0, msg)
          ELSE msg \in Payloads /\ Fits(SecretSize(Len(msg)))
      BY <2>1, <2>2, <2>3, <2>4
    <3>2. /\ msg \in Payloads \cup {SessionKey}
          /\ put \in 1..NewSize(Len(frames), msg)
          /\ frames' = Append(frames, [data |-> msg, put |-> put])
          /\ Len(frames) <= MaxMsgs
      BY <1>1, <1>4, <2>2, <2>6
    <3>3. /\ FrameType' /\ Frames' /\ Len(frames') = Len(frames) + 1
          /\ \A i \in 1..Len(frames) :
               /\ frames'[i] = frames[i] /\ BodySize(i)' = BodySize(i)
               /\ (Whole(i)' <=> Whole(i))
          /\ frames'[Len(frames')] = [data |-> msg, put |-> put]
      BY <1>2, <3>1, <3>2, OneFrameMore
    <3> QED
      BY <3>3
  <2>8. /\ flight' \in Seq(Nat \X Nat) /\ Len(flight') = Len(flight) + put
        /\ Unbroken(Unread)' /\ Unread' # <<>>
        /\ Unread'[Len(Unread')] = LastWritten'
        /\ Unread # <<>> => Unread'[1] = Unread[1]
        /\ Unread = <<>> => Unread'[1] = <<l + 1, 1>>
        /\ Rest(Unread')
    <3>1. /\ put \in Nat \ {0} /\ link # "reset"
          /\ Unbroken(Unread)
          /\ Unread # <<>> => Unread[Len(Unread)] = LastWritten
      BY <1>1, <1>2, <2>5 DEF InStep
    <3> QED
      BY <1>1, <1>2, <1>4, <2>1, <2>7, <3>1, MoreWritten
  <2>9. WireType'
    <3>1. Len(flight) \in Nat /\ Len(arrived) \in Nat
      BY <1>2 DEF WireType
    <3>2. Len(flight') + Len(arrived') <= Buffer
      BY <1>1, <2>5, <2>8, <3>1, StreamAssumption
    <3> QED
      BY <1>1, <1>2, <2>8, <3>2 DEF WireType
  <2>10. ReceiverType'
    BY <1>1, <1>2, <1>4 DEF ReceiverType, receiver
  <2>11. Phase' /\ InOrder' /\ Started' /\ EventType'
    BY <1>1, <2>1, <2>7, ReceiverWaits
  <2>12. InStep'
    <3>1. /\ rpc' = rpc /\ size' = size /\ key' = key /\ got' = got
          /\ NextFrame' = NextFrame /\ Astray' = Astray
      BY <1>1 DEF receiver, NextFrame, Astray
    <3>2. NextFrame \in Nat \ {0}
      BY <1>2 DEF ReceiverType, NextFrame
    <3>3. ASSUME rpc \in {"key_header", "header"}, ~Astray
          PROVE  Unread'[1] = <<NextFrame, 1>>
      <4>1. CASE Unread # <<>>
        BY <1>1, <1>2, <2>8, <3>3, <4>1 DEF InStep, InPlace
      <4>2. CASE Unread = <<>>
        <5>1. l = NextFrame - 1
          BY <1>1, <1>2, <3>3, <4>2 DEF InStep, InPlace
        <5> QED
          BY <2>8, <3>2, <4>2, <5>1
      <4> QED
        BY <4>1, <4>2
    <3>4. ASSUME rpc \in {"key_body", "body"}, ~Astray
          PROVE  \/ /\ Unread'[1] = <<NextFrame, LenSize + 1>>
                    /\ size = BodySize(NextFrame)'
                 \/ Unread'[1][1] = NextFrame /\ Unread'[1][2] \in 2..LenSize
                 \/ Unread'[1][1] > NextFrame /\ Unread'[1][2] \in 1..LenSize
      <4>1. NextFrame \in 1..l
        BY <1>2, <2>1, <3>2, <3>4 DEF Phase
      <4>2. BodySize(NextFrame)' = BodySize(NextFrame)
        <5> DEFINE m == NextFrame
        <5>1. frames'[m] = frames[m]
          BY <2>7, <4>1
        <5> QED
          BY <3>1, <5>1 DEF BodySize
      <4>3. CASE Unread # <<>>
        BY <1>1, <1>2, <2>8, <3>4, <4>2, <4>3 DEF InStep, InPlace
      <4>4. CASE Unread = <<>>
        <5>1. Unread'[1][1] = l + 1 /\ Unread'[1][2] = 1
          BY <2>8, <4>4
        <5> QED
          BY <2>1, <4>1, <5>1, SizesAssumption
      <4> QED
        BY <4>3, <4>4
    <3>5. ~Astray /\ rpc \in {"header", "body"} => key = SessionKey
      BY <1>1, <1>2 DEF InStep, InPlace
    <3>6. InPlace' <=> (
            /\ rpc' \in {"key_header", "header"} =>
                 IF Unread' # <<>> THEN Unread'[1] = <<NextFrame', 1>>
                 ELSE link' # "reset" => Len(frames') = NextFrame' - 1
            /\ rpc' \in {"key_body", "body"} /\ Unread' # <<>> =>
                 \/ /\ Unread'[1] = <<NextFrame', LenSize + 1>>
                    /\ size' = BodySize(NextFrame)'
                 \/ Unread'[1][1] = NextFrame' /\ Unread'[1][2] \in 2..LenSize
                 \/ Unread'[1][1] > NextFrame' /\ Unread'[1][2] \in 1..LenSize
            /\ rpc' \in {"header", "body"} => key' = SessionKey)
      BY DEF InPlace
    <3>7. ~Astray => InPlace'
      BY <2>8, <3>1, <3>3, <3>4, <3>5, <3>6
    <3> QED
      BY <2>8, <3>1, <3>7 DEF InStep
  <2>13. Behind'
    BY <1>1, <2>8, <2>9, StaysBehind DEF receiver
  <2> QED
    BY <2>7, <2>9, <2>10, <2>11, <2>12, <2>13, TypeParts DEF Inv
<1> QED
  BY <1>1, <1>3, <1>4

(* The sender closes; its bytes stay.                                       *)
LEMMA CloseStep ==
  ASSUME Inv, Close
  PROVE  Inv'
<1>1. /\ Running /\ link' = "fin" /\ link = "open" /\ frames' = frames
      /\ UNCHANGED <<wire, receiver, events, fault>>
  BY DEF Close
<1>2. FrameType /\ WireType /\ ReceiverType /\ Frames
  BY TypeParts DEF Inv
<1>3. FrameType' /\ Frames' /\ \A i \in 1..Len(frames) : Whole(i)' <=> Whole(i)
  BY <1>1, <1>2, SameFrames
<1>4. Len(frames) <= Len(frames')
  BY <1>1, <1>2 DEF FrameType
<1>5. Phase' /\ InOrder' /\ Started' /\ EventType'
  BY <1>1, <1>3, <1>4, ReceiverWaits
<1>6. WireType' /\ ReceiverType'
  BY <1>1, <1>2 DEF WireType, ReceiverType, receiver, wire
<1>7. InStep'
  <2>1. Unread' = Unread
    BY <1>1 DEF wire, Unread
  <2> QED
    BY <1>1, <2>1, StaysInStep
<1>8. Behind'
  BY <1>1, SameBehind DEF Inv, receiver, wire, Unread
<1> QED
  BY <1>3, <1>5, <1>6, <1>7, <1>8, TypeParts DEF Inv

(* A byte that arrives is not read yet.                                     *)
LEMMA DeliverStep ==
  ASSUME Inv, Deliver
  PROVE  Inv'
<1>1. /\ Running /\ frames' = frames /\ link' = link /\ flight # <<>>
      /\ arrived' = Append(arrived, Head(flight)) /\ flight' = Tail(flight)
      /\ UNCHANGED <<receiver, events, fault>>
  BY DEF Deliver, sender
<1>2. TypeOK /\ FrameType /\ WireType /\ ReceiverType /\ Frames
  BY TypeParts DEF Inv
<1>3. FrameType' /\ Frames' /\ \A i \in 1..Len(frames) : Whole(i)' <=> Whole(i)
  BY <1>1, <1>2, SameFrames
<1>4. Len(frames) <= Len(frames')
  BY <1>1, <1>2 DEF FrameType
<1>5. Phase' /\ InOrder' /\ Started' /\ EventType'
  BY <1>1, <1>3, <1>4, ReceiverWaits
<1>6. /\ arrived' \in Seq(Nat \X Nat) /\ flight' \in Seq(Nat \X Nat)
      /\ Len(flight') + Len(arrived') = Len(flight) + Len(arrived)
      /\ Unread' = Unread
  BY <1>1, <1>2, DeliverKeeps
<1>7. WireType'
  BY <1>1, <1>2, <1>6 DEF WireType
<1>8. ReceiverType'
  BY <1>1, <1>2 DEF ReceiverType, receiver
<1>9. InStep'
  BY <1>1, <1>6, StaysInStep
<1>10. Behind'
  BY <1>1, <1>6, SameBehind DEF Inv, receiver
<1> QED
  BY <1>3, <1>5, <1>7, <1>8, <1>9, <1>10, TypeParts DEF Inv

(* What arrived before the connection was lost is still read.              *)
LEMMA ResetStep ==
  ASSUME Inv, Reset
  PROVE  Inv'
<1>1. /\ Running /\ frames' = frames /\ link' = "reset"
      /\ arrived' = arrived /\ flight' = <<>>
      /\ UNCHANGED <<receiver, events, fault>>
  BY DEF Reset
<1>2. TypeOK /\ FrameType /\ WireType /\ ReceiverType /\ Frames /\ InStep
  BY TypeParts DEF Inv
<1>3. FrameType' /\ Frames' /\ \A i \in 1..Len(frames) : Whole(i)' <=> Whole(i)
  BY <1>1, <1>2, SameFrames
<1>4. Len(frames) <= Len(frames')
  BY <1>1, <1>2 DEF FrameType
<1>5. Phase' /\ InOrder' /\ Started' /\ EventType'
  BY <1>1, <1>3, <1>4, ReceiverWaits
<1>6. arrived \in Seq(Nat \X Nat) /\ flight \in Seq(Nat \X Nat)
  BY <1>2 DEF WireType
<1>7. WireType'
  <2>1. Len(flight') = 0 /\ flight' \in Seq(Nat \X Nat)
    BY <1>1
  <2>2. Len(flight') + Len(arrived') <= Buffer
    <3>1. Len(flight) \in Nat /\ Len(arrived) \in Nat
      BY <1>6
    <3> QED
      BY <1>1, <1>2, <2>1, <3>1, StreamAssumption DEF WireType
  <2> QED
    BY <1>1, <1>6, <2>1, <2>2 DEF WireType
<1>8. ReceiverType'
  BY <1>1, <1>2 DEF ReceiverType, receiver
<1>9. Unread' = arrived
  <2>1. arrived \o <<>> = arrived
    BY <1>6, ConcatEmptySeq
  <2> QED
    BY <1>1, <2>1 DEF Unread
<1>10. Unbroken(Unread)' /\ Rest(Unread')
  <2>1. /\ Len(arrived) \in Nat /\ Len(arrived) <= Len(Unread)
        /\ Len(Unread) \in Nat
        /\ DOMAIN Unread = 1..Len(Unread) /\ DOMAIN arrived = 1..Len(arrived)
        /\ \A j \in 1..Len(arrived) : arrived[j] = Unread[j]
    <3>1. Len(flight) \in Nat /\ Len(arrived) \in Nat
      BY <1>6
    <3>2. /\ Unread \in Seq(Nat \X Nat)
          /\ Len(Unread) = Len(arrived) + Len(flight)
          /\ \A j \in 1..Len(arrived) : Unread[j] = arrived[j]
      BY <1>2, UnreadType
    <3>3. DOMAIN Unread = 1..Len(Unread) /\ DOMAIN arrived = 1..Len(arrived)
      BY <1>6, <3>2
    <3>4. Len(arrived) <= Len(Unread) /\ Len(Unread) \in Nat
      BY <3>1, <3>2
    <3> QED
      BY <3>1, <3>2, <3>3, <3>4
  <2>2. Unbroken(Unread)
    BY <1>1, <1>2 DEF InStep
  <2>3. Unbroken(arrived)
    <3>1. \A k \in DOMAIN arrived : Written(arrived[k])
      BY <2>1, <2>2 DEF Unbroken
    <3>2. ASSUME NEW k \in 1..(Len(arrived) - 1)
          PROVE  Follows(arrived[k + 1], arrived[k])
      <4>1. /\ k \in 1..Len(arrived) /\ k + 1 \in 1..Len(arrived)
            /\ k \in 1..(Len(Unread) - 1)
        BY <2>1
      <4>2. Follows(Unread[k + 1], Unread[k])
        BY <2>2, <4>1 DEF Unbroken
      <4> QED
        BY <2>1, <4>1, <4>2
    <3> QED
      BY <3>1, <3>2 DEF Unbroken
  <2>4. Rest(Unread')
    BY <1>9, <2>1 DEF Rest
  <2> QED
    BY <1>1, <1>9, <2>3, <2>4, NothingWritten
<1>11. InStep'
  <2>1. /\ rpc' = rpc /\ size' = size /\ key' = key /\ got' = got
        /\ NextFrame' = NextFrame /\ Astray' = Astray
    BY <1>1 DEF receiver, NextFrame, Astray
  <2>2. BodySize(NextFrame)' = BodySize(NextFrame)
    BY <1>1, <2>1 DEF BodySize
  <2>3. arrived # <<>> => Unread # <<>> /\ Unread[1] = arrived[1]
    BY <1>2, FirstArrived
  <2>4. ~Astray =>
        /\ rpc \in {"key_header", "header"} /\ arrived # <<>> =>
             arrived[1] = <<NextFrame, 1>>
        /\ rpc \in {"key_body", "body"} /\ arrived # <<>> =>
             \/ /\ arrived[1] = <<NextFrame, LenSize + 1>>
                /\ size = BodySize(NextFrame)
             \/ arrived[1][1] = NextFrame /\ arrived[1][2] \in 2..LenSize
             \/ arrived[1][1] > NextFrame /\ arrived[1][2] \in 1..LenSize
        /\ rpc \in {"header", "body"} => key = SessionKey
    BY <1>1, <1>2, <2>3 DEF InStep, InPlace
  <2>5. ~Astray' => InPlace'
    BY <1>1, <1>9, <2>1, <2>2, <2>4 DEF InPlace
  <2> QED
    BY <1>1, <1>10, <2>5 DEF InStep
<1>12. Behind'
  BY <1>1, <1>7, <1>10, StaysBehind DEF receiver
<1> QED
  BY <1>3, <1>5, <1>7, <1>8, <1>11, <1>12, TypeParts DEF Inv

-----------------------------------------------------------------------------
(* The receiver's steps *)

(* A read leaves what it does not take as it was.                          *)
LEMMA AnyRead ==
  ASSUME Inv, Running, NEW k \in 0..Len(arrived),
         arrived' = SubSeq(arrived, k + 1, Len(arrived)),
         flight' = flight, frames' = frames, link' = link
  PROVE  /\ FrameType' /\ Frames' /\ WireType'
         /\ \A i : BodySize(i)' = BodySize(i) /\ (Whole(i)' <=> Whole(i))
         /\ Unbroken(Unread)'
         /\ link' # "reset" /\ Unread' # <<>> =>
              Unread'[Len(Unread')] = LastWritten'
         /\ Rest(Unread')
<1> DEFINE U == Unread
           V == Unread'
<1>1. TypeOK /\ FrameType /\ WireType /\ Frames /\ InStep
  BY TypeParts DEF Inv
<1>2. /\ FrameType' /\ Frames'
      /\ \A i : BodySize(i)' = BodySize(i) /\ (Whole(i)' <=> Whole(i))
  BY <1>1, SameFrames
<1>3. k \in Nat /\ Len(arrived) \in Nat /\ Len(flight) \in Nat
  BY <1>1 DEF WireType
<1>4. /\ arrived' \in Seq(Nat \X Nat) /\ Len(arrived') = Len(arrived) - k
      /\ V \in Seq(Nat \X Nat) /\ Len(V) = Len(U) - k
      /\ \A j \in 1..Len(V) : V[j] = U[j + k]
  BY <1>1, ReadLeaves
<1>5. Unbroken(U) /\ (link # "reset" /\ U # <<>> => U[Len(U)] = LastWritten)
  BY <1>1 DEF InStep
<1>6. Unbroken(V) /\ (V # <<>> => U # <<>> /\ V[Len(V)] = U[Len(U)])
  <2> HIDE DEF V
  <2> QED
    BY <1>1, <1>3, <1>4, <1>5, ReadKeeps
<1>7. Unbroken(Unread)' /\ LastWritten' = LastWritten
  BY <1>6, NothingWritten
<1>8. WireType'
  <2>1. Len(flight') + Len(arrived') <= Buffer
    <3>1. Len(flight) + Len(arrived) <= Buffer
      BY <1>1 DEF WireType
    <3>2. Len(flight') = Len(flight)
      OBVIOUS
    <3>3. Len(arrived') = Len(arrived) - k
      BY <1>4, Zenon
    <3> DEFINE a == Len(arrived)
               b == Len(arrived')
               f == Len(flight)
    <3>4. a \in Nat /\ f \in Nat /\ b = a - k /\ f + a <= Buffer
      BY <1>3, <3>1, <3>3, Zenon
    <3> HIDE DEF a, b, f
    <3>5. f + b <= Buffer
      BY <1>3, <3>4, StreamAssumption
    <3> QED
      BY <3>2, <3>5, Zenon DEF b, f
  <2> QED
    BY <1>1, <1>4, <2>1 DEF WireType
<1>10. U \in Seq(Nat \X Nat)
  BY <1>1, UnreadType
<1> HIDE DEF U, V
<1>d. /\ DOMAIN U = 1..Len(U) /\ DOMAIN V = 1..Len(V)
      /\ Len(U) \in Nat /\ Len(V) \in Nat
  <2>1. V \in Seq(Nat \X Nat)
    BY <1>4
  <2> QED
    BY <1>10, <2>1
<1>9. link' # "reset" /\ V # <<>> => V[Len(V)] = LastWritten'
  BY <1>5, <1>6, <1>7
<1>11. ASSUME NEW m \in DOMAIN V
       PROVE  \E j \in DOMAIN U : V[m] = U[j]
  <2>1. m \in 1..Len(V) /\ Len(V) = Len(U) - k
    BY <1>4, <1>d, <1>11, Zenon
  <2>2. m + k \in DOMAIN U
    BY <1>3, <1>d, <2>1
  <2> QED
    BY <1>4, <2>1, <2>2, Zenon
<1> QED
  BY <1>2, <1>7, <1>8, <1>9, <1>11 DEF V, U, Rest

(* Where no message is taken or written, their order stays.                *)
LEMMA SameOrder ==
  ASSUME InOrder, got' = got, frames' = frames,
         \A i : Whole(i)' <=> Whole(i)
  PROVE  InOrder'
BY DEF InOrder

(* Where the receiver gives up, the rest stays as it was.                  *)
LEMMA GivesUp ==
  ASSUME Inv, Running, GiveUp \/ Hangup,
         NEW k \in 0..Len(arrived), rpc \notin {"ended", "failed"},
         arrived' = SubSeq(arrived, k + 1, Len(arrived)),
         flight' = flight, frames' = frames, link' = link
  PROVE  Inv'
<1>1. /\ rpc' \in {"ended", "failed"}
      /\ size' = size /\ key' = key /\ got' = got /\ fault' = fault
      /\ \/ running' = running
         \/ /\ rpc' = "ended"
            /\ running' = running \cup {[msg |-> 0, data |-> <<>>]}
      /\ handled' = handled
  BY DEF GiveUp, Hangup, Start, events
<1>2. ReceiverType /\ EventType /\ InOrder /\ Started
  BY TypeParts DEF Inv
<1>3. /\ FrameType' /\ Frames' /\ WireType'
      /\ \A i : BodySize(i)' = BodySize(i) /\ (Whole(i)' <=> Whole(i))
      /\ Unbroken(Unread)'
      /\ link' # "reset" /\ Unread' # <<>> =>
           Unread'[Len(Unread')] = LastWritten'
      /\ Rest(Unread')
  BY AnyRead
<1>4. ReceiverType'
  BY <1>1, <1>2 DEF ReceiverType
<1>5. EventType'
  BY <1>1, <1>2 DEF EventType, Started, Belongs
<1>6. InStep'
  BY <1>1, <1>3 DEF InStep, InPlace
<1>7. Phase'
  BY <1>1 DEF Phase
<1>8. InOrder'
  BY <1>1, <1>2, <1>3, SameOrder
<1>9. Started'
  <2>1. \A e \in running \cup handled : Belongs(e)'
    BY <1>1, <1>2 DEF Started, Belongs
  <2>2. rpc' = "ended" => Belongs([msg |-> 0, data |-> <<>>])'
    BY DEF Belongs
  <2> QED
    BY <1>1, <2>1, <2>2 DEF Started
<1>10. Behind'
  BY <1>1, <1>3, StaysBehind
<1> QED
  BY <1>3, <1>4, <1>5, <1>6, <1>7, <1>8, <1>9, <1>10, TypeParts DEF Inv

(* A header leaves the loop in the frame it belongs to.                    *)
LEMMA HeaderReadStep ==
  ASSUME Inv, Running, NEW next \in {"key_body", "body"}, HeaderRead(next),
         \/ rpc = "key_header" /\ next = "key_body"
         \/ rpc = "header" /\ next = "body"
  PROVE  Inv'
<1>1. /\ rpc' = next /\ frames' = frames /\ link' = link /\ flight' = flight
      /\ UNCHANGED <<key, got, events, fault>>
  BY DEF HeaderRead, sender
<1>2. /\ TypeOK /\ FrameType /\ WireType /\ ReceiverType /\ EventType
      /\ Frames /\ InStep /\ Phase /\ InOrder /\ Started
  BY TypeParts DEF Inv
<1>3. /\ size' \in Nat /\ Fits(size')
      /\ \E k \in 0..Len(arrived) :
           arrived' = SubSeq(arrived, k + 1, Len(arrived))
  <2>1. PICK header \in Headers : size' = DecodeSize(header)
    BY DEF HeaderRead
  <2>2. size' \in Nat /\ Fits(size')
    BY <2>1, DecodedFits
  <2>3. Least(LenSize, Len(arrived)) \in 0..Len(arrived)
    <3>1. Len(arrived) \in Nat /\ LenSize \in Nat
      BY <1>2, SizesAssumption DEF WireType
    <3> QED
      BY <3>1 DEF Least
  <2>4. arrived' =
          SubSeq(arrived, Least(LenSize, Len(arrived)) + 1, Len(arrived))
    BY DEF HeaderRead
  <2> QED
    BY <2>2, <2>3, <2>4
<1>4. /\ FrameType' /\ Frames' /\ WireType'
      /\ \A i : BodySize(i)' = BodySize(i) /\ (Whole(i)' <=> Whole(i))
      /\ Unbroken(Unread)'
      /\ link' # "reset" /\ Unread' # <<>> =>
           Unread'[Len(Unread')] = LastWritten'
      /\ Rest(Unread')
  BY <1>1, <1>3, AnyRead
<1>5. ~Astray =>
      /\ NextFrame \in 1..Len(frames)
      /\ Unread' # <<>> =>
           \/ /\ Unread'[1] = <<NextFrame, LenSize + 1>>
              /\ size' = BodySize(NextFrame)
           \/ Unread'[1][1] = NextFrame /\ Unread'[1][2] \in 2..LenSize
           \/ Unread'[1][1] > NextFrame /\ Unread'[1][2] \in 1..LenSize
  BY <1>2, AfterHeader
<1>6. ReceiverType'
  BY <1>1, <1>2, <1>3 DEF ReceiverType
<1>7. NextFrame' = NextFrame /\ Astray' = Astray
  BY <1>1 DEF NextFrame, Astray
<1>8. InStep'
  <2>1. BodySize(NextFrame)' = BodySize(NextFrame)
    BY <1>1, <1>7 DEF BodySize
  <2>2. ~Astray /\ rpc' \in {"header", "body"} => key' = SessionKey
    BY <1>1, <1>2 DEF InStep, InPlace
  <2>3. rpc' \notin {"key_header", "header"}
    BY <1>1
  <2>4. ~Astray' => InPlace'
    BY <1>1, <1>5, <1>7, <2>1, <2>2, <2>3 DEF InPlace
  <2> QED
    BY <1>4, <2>4 DEF InStep
<1>9. Phase'
  <2>1. ~Astray' => NextFrame' <= Len(frames')
    BY <1>1, <1>2, <1>5, <1>7 DEF FrameType
  <2> QED
    BY <1>1, <1>2, <2>1 DEF Phase
<1>10. InOrder'
  BY <1>1, <1>2, <1>4, SameOrder
<1>11. Started' /\ EventType'
  BY <1>1, <1>2 DEF Started, Belongs, EventType, events
<1>12. Behind'
  BY <1>1, <1>4, StaysBehind
<1> QED
  BY <1>4, <1>6, <1>8, <1>9, <1>10, <1>11, <1>12, TypeParts DEF Inv

(* Nothing is read.                                                        *)
LEMMA NothingRead ==
  ASSUME TypeOK, UNCHANGED <<sender, wire>>
  PROVE  /\ 0 \in 0..Len(arrived)
         /\ arrived' = SubSeq(arrived, 0 + 1, Len(arrived))
         /\ flight' = flight /\ frames' = frames /\ link' = link
<1>1. arrived \in Seq(Nat \X Nat) /\ arrived' = arrived
  BY DEF TypeOK, wire
<1>2. SubSeq(arrived, 1, Len(arrived)) = arrived
  BY <1>1, SubSeqFull
<1>3. Len(arrived) \in Nat /\ 0 + 1 = 1
  BY <1>1
<1> QED
  BY <1>1, <1>2, <1>3 DEF wire, sender

(* The header of the session key.                                           *)
LEMMA KeyHeaderStep ==
  ASSUME Inv, KeyHeader
  PROVE  Inv'
<1>1. Running /\ rpc = "key_header" /\ TypeOK
  BY DEF KeyHeader, Inv
<1>2. CASE HeaderRead("key_body")
  BY <1>1, <1>2, HeaderReadStep
<1>3. CASE GiveUp /\ UNCHANGED <<sender, wire>>
  BY <1>1, <1>3, NothingRead, GivesUp
<1> QED
  BY <1>2, <1>3 DEF KeyHeader

(* The header of a message.                                                 *)
LEMMA HeaderStep ==
  ASSUME Inv, Header
  PROVE  Inv'
<1>1. Running /\ rpc = "header" /\ TypeOK
  BY DEF Header, Inv
<1>2. CASE HeaderRead("body")
  BY <1>1, <1>2, HeaderReadStep
<1>3. CASE (GiveUp \/ Hangup) /\ UNCHANGED <<sender, wire>>
  BY <1>1, <1>3, NothingRead, GivesUp
<1> QED
  BY <1>2, <1>3 DEF Header

(* What a read of size bytes takes.                                        *)
LEMMA ReadSize ==
  ASSUME TypeOK
  PROVE  /\ Least(size, Len(arrived)) \in 0..Len(arrived)
         /\ size <= Len(arrived) => Least(size, Len(arrived)) = size
         /\ size \in Nat /\ Len(arrived) \in Nat
<1>1. size \in Nat /\ Len(arrived) \in Nat
  BY DEF TypeOK
<1> QED
  BY <1>1 DEF Least

(* A body that decrypts is followed by the next frame.                     *)
LEMMA BodyTaken ==
  ASSUME Inv, Running, rpc \in {"key_body", "body"}, fault' = fault,
         size \in 1..Len(arrived), NEW i \in 1..Len(frames),
         SubSeq(arrived, 1, size) = Body(i),
         arrived' = SubSeq(arrived, size + 1, Len(arrived)),
         flight' = flight, frames' = frames, link' = link,
         rpc' = "header", key' = SessionKey,
         ~Astray' => NextFrame' = i + 1
  PROVE  /\ InStep' /\ Phase' /\ Whole(i)
         /\ ~Astray => i = NextFrame
         /\ Unread[1][1] = i /\ Unread # <<>>
         /\ \A m \in DOMAIN Unread' : i < Unread'[m][1]
<1>1. TypeOK /\ Frames /\ InStep
  BY DEF Inv
<1>2. /\ Unbroken(Unread)'
      /\ link # "reset" /\ Unread' # <<>> =>
           Unread'[Len(Unread')] = LastWritten
      /\ IF Unread' # <<>> THEN Unread'[1] = <<i + 1, 1>>
         ELSE link # "reset" => Len(frames) = i
      /\ \A m \in DOMAIN Unread' : i < Unread'[m][1]
  BY <1>1, AfterBody
<1>3. /\ ~Astray => i = NextFrame
      /\ Whole(i) /\ Unread[1] = <<i, LenSize + 1>>
      /\ size \in 1..Len(Unread)
  BY <1>1, WholeBody
<1>4. LastWritten' = LastWritten
  BY DEF LastWritten
<1>5. InStep'
  <2>1. ~Astray' => InPlace'
    BY <1>2 DEF InPlace
  <2> QED
    BY <1>2, <1>4, <2>1 DEF InStep
<1>6. Phase'
  <2>1. Len(frames) \in Nat
    BY <1>1 DEF TypeOK
  <2> QED
    BY <2>1 DEF Phase
<1>7. Unread[1][1] = i /\ Unread # <<>>
  <2>1. Unread \in Seq(Nat \X Nat)
    BY <1>1, UnreadType
  <2>2. Len(Unread) # 0
    BY <1>3, <2>1
  <2> QED
    BY <1>3, <2>1, <2>2
<1> QED
  BY <1>2, <1>3, <1>5, <1>6, <1>7

(* One more is taken.                                                      *)
LEMMA Appended ==
  ASSUME TypeOK, NEW x \in 0..MaxMsgs, got' = Append(got, x)
  PROVE  /\ got' \in Seq(0..MaxMsgs)
         /\ Len(got') = Len(got) + 1 /\ DOMAIN got' = 1..(Len(got) + 1)
         /\ DOMAIN got = 1..Len(got) /\ Len(got) \in Nat
         /\ \A k \in 1..Len(got) : got'[k] = got[k]
         /\ got'[Len(got) + 1] = x
         /\ Astray' <=> (Astray \/ x = 0)
<1>1. got \in Seq(0..MaxMsgs)
  BY DEF TypeOK
<1>2. /\ got' \in Seq(0..MaxMsgs)
      /\ Len(got') = Len(got) + 1 /\ DOMAIN got' = 1..(Len(got) + 1)
      /\ DOMAIN got = 1..Len(got) /\ Len(got) \in Nat
      /\ \A k \in 1..Len(got) : got'[k] = got[k]
      /\ got'[Len(got) + 1] = x
  BY <1>1
<1>3. Astray' <=> (\E k \in 1..(Len(got) + 1) : got'[k] = 0)
  BY <1>2 DEF Astray
<1>4. Astray <=> (\E k \in 1..Len(got) : got[k] = 0)
  BY <1>2 DEF Astray
<1>5. \A k : k \in 1..(Len(got) + 1) <=> k \in 1..Len(got) \/ k = Len(got) + 1
  BY <1>2
<1>6. Astray' <=> (Astray \/ x = 0)
  BY <1>2, <1>3, <1>4, <1>5, Zenon
<1> QED
  BY <1>2, <1>6

(* What is taken comes after what was taken.                               *)
LEMMA OrderAppended ==
  ASSUME Inv, NEW x \in 0..MaxMsgs, got' = Append(got, x),
         frames' = frames, \A i : Whole(i)' <=> Whole(i),
         x # 0 => /\ x < Len(frames) /\ Whole(x + 1)
                  /\ ~Astray => x = Len(got) + 1
                  /\ \A k \in DOMAIN got : got[k] < x
  PROVE  InOrder'
<1>1. /\ DOMAIN got' = 1..(Len(got) + 1)
      /\ DOMAIN got = 1..Len(got) /\ Len(got) \in Nat
      /\ \A k \in 1..Len(got) : got'[k] = got[k]
      /\ got'[Len(got) + 1] = x
  BY Appended DEF Inv
<1> DEFINE Ordered(f, k) ==
             /\ (\A j \in 1..k : f[j] # 0) => f[k] = k
             /\ f[k] # 0 => /\ f[k] < Len(frames) /\ Whole(f[k] + 1)
                            /\ \A j \in 1..(k - 1) : f[j] < f[k]
<1>2. ASSUME NEW k \in 1..Len(got)
      PROVE  Ordered(got', k)
  <2>1. Ordered(got, k)
    BY <1>1 DEF Inv, InOrder
  <2>2. \A j \in 1..k : j \in 1..Len(got)
    BY <1>1
  <2>3. \A j \in 1..k : got'[j] = got[j]
    BY <1>1, <2>2
  <2>4. k \in 1..k /\ \A j \in 1..(k - 1) : j \in 1..k
    BY <1>1
  <2>5. got'[k] = got[k]
    BY <2>3, <2>4
  <2>6. \A j \in 1..(k - 1) : got'[j] = got[j]
    BY <2>3, <2>4
  <2> QED
    BY <2>1, <2>3, <2>5, <2>6
<1>3. Ordered(got', Len(got) + 1)
  <2> DEFINE g == Len(got) + 1
  <2>1. (\A j \in 1..g : got'[j] # 0) => x = g
    <3>1. ASSUME \A j \in 1..g : got'[j] # 0
          PROVE  ~Astray /\ x # 0
      <4>1. \A j \in 1..Len(got) : j \in 1..g /\ got[j] = got'[j]
        BY <1>1
      <4>2. g \in 1..g
        BY <1>1
      <4> QED
        BY <1>1, <3>1, <4>1, <4>2 DEF Astray
    <3> QED
      BY <3>1
  <2>2. x # 0 => \A j \in 1..(g - 1) : got'[j] < x
    <3>1. g - 1 = Len(got)
      BY <1>1
    <3> QED
      BY <1>1, <3>1
  <2>3. got'[g] = x
    BY <1>1
  <2> HIDE DEF g
  <2>4. Ordered(got', g)
    BY <2>1, <2>2, <2>3
  <2> QED
    BY <2>4 DEF g
<1>4. \A k \in DOMAIN got' : k \in 1..Len(got) \/ k = Len(got) + 1
  BY <1>1
<1>5. \A k \in DOMAIN got' : Ordered(got', k)
  <2> HIDE DEF Ordered
  <2> QED
    BY <1>2, <1>3, <1>4
<1> QED
  BY <1>5 DEF InOrder

(* The event of what is taken is a new one.                                *)
LEMMA EventTaken ==
  ASSUME Inv, NEW x \in 0..MaxMsgs, got' = Append(got, x),
         rpc # "ended", handled' = handled,
         NEW event, running' \in {running, running \cup {event}},
         event.msg = IF x = 0 THEN 0 - (Len(got) + 1) ELSE x,
         x # 0 => \A k \in DOMAIN got : got[k] < x
  PROVE  Started' /\ EventType'
<1>1. /\ DOMAIN got' = 1..(Len(got) + 1) /\ Len(got') = Len(got) + 1
      /\ DOMAIN got = 1..Len(got) /\ Len(got) \in Nat
      /\ \A k \in 1..Len(got) : got'[k] = got[k]
      /\ got'[Len(got) + 1] = x
  BY Appended DEF Inv
<1>2. Started /\ EventType /\ MaxMsgs \in Nat
  BY TypeParts, StreamAssumption DEF Inv
<1>3. ASSUME NEW e \in running \cup handled
      PROVE  Belongs(e)' /\ e # event
  <2>1. /\ e.msg \in Int /\ e.msg # 0
        /\ e.msg > 0 => \E k \in DOMAIN got : got[k] = e.msg
        /\ e.msg < 0 => 0 - e.msg <= Len(got)
    BY <1>2 DEF Started, Belongs
  <2>2. Belongs(e)'
    <3>1. e.msg > 0 => \E k \in DOMAIN got' : got'[k] = e.msg
      BY <1>1, <2>1
    <3>2. e.msg < 0 => 0 - e.msg <= Len(got')
      BY <1>1, <2>1
    <3> QED
      BY <2>1, <3>1, <3>2 DEF Belongs
  <2>3. e.msg # event.msg
    <3>1. CASE x = 0
      BY <1>1, <2>1, <3>1
    <3>2. CASE x # 0
      <4>1. event.msg = x /\ x > 0 /\ \A k \in DOMAIN got : got[k] # x
        BY <1>2, <3>2, GotType DEF Inv
      <4> QED
        BY <2>1, <4>1
    <3> QED
      BY <3>1, <3>2
  <2> QED
    BY <2>2, <2>3
<1>4. Belongs(event)'
  <2>1. CASE x = 0
    <3>1. event.msg = 0 - (Len(got) + 1)
      BY <2>1
    <3>2. event.msg \in Int /\ event.msg < 0 /\ 0 - event.msg <= Len(got')
      BY <1>1, <3>1
    <3> QED
      BY <3>2 DEF Belongs
  <2>2. CASE x # 0
    <3>1. event.msg = x /\ x \in Int /\ x > 0
      BY <1>2, <2>2
    <3>2. Len(got) + 1 \in DOMAIN got' /\ got'[Len(got) + 1] = event.msg
      BY <1>1, <3>1
    <3> QED
      BY <3>1, <3>2 DEF Belongs
  <2> QED
    BY <2>1, <2>2
<1>5. Started'
  BY <1>3, <1>4 DEF Started
<1>6. EventType'
  BY <1>2, <1>3 DEF EventType
<1> QED
  BY <1>5, <1>6

(* Garbage is taken: from here on the loop may be anywhere.                *)
LEMMA GarbageTaken ==
  ASSUME Inv, Running, rpc \in {"key_body", "body"},
         NEW k \in 0..Len(arrived),
         arrived' = SubSeq(arrived, k + 1, Len(arrived)),
         flight' = flight, frames' = frames, link' = link,
         rpc' = "header", key' \in {SessionKey, Garbage, key},
         got' = Append(got, 0),
         running' \in {running, running \cup
           {[msg |-> 0 - (Len(got) + 1), data |-> Garbage]}},
         UNCHANGED <<size, handled, fault>>
  PROVE  Inv'
<1>1. TypeOK /\ ReceiverType /\ MaxMsgs \in Nat
  BY TypeParts, StreamAssumption DEF Inv
<1>2. /\ FrameType' /\ Frames' /\ WireType'
      /\ \A i : BodySize(i)' = BodySize(i) /\ (Whole(i)' <=> Whole(i))
      /\ Unbroken(Unread)'
      /\ link' # "reset" /\ Unread' # <<>> =>
           Unread'[Len(Unread')] = LastWritten'
      /\ Rest(Unread')
  BY AnyRead
<1>3. 0 \in 0..MaxMsgs
  BY <1>1
<1>4. /\ got' \in Seq(0..MaxMsgs) /\ Astray'
      /\ DOMAIN got' = 1..(Len(got) + 1)
      /\ DOMAIN got = 1..Len(got) /\ Len(got) \in Nat
      /\ \A j \in 1..Len(got) : got'[j] = got[j]
      /\ got'[Len(got) + 1] = 0
  BY <1>1, <1>3, Appended
<1>5. ReceiverType'
  BY <1>1, <1>4 DEF ReceiverType
<1>6. InStep' /\ Phase'
  BY <1>2, <1>4 DEF InStep, Phase
<1>7. InOrder'
  BY <1>2, <1>3, OrderAppended
<1>8. Started' /\ EventType'
  <2> DEFINE event == [msg |-> 0 - (Len(got) + 1), data |-> Garbage]
  <2>1. event.msg = 0 - (Len(got) + 1)
    OBVIOUS
  <2> HIDE DEF event
  <2>2. running' \in {running, running \cup {event}}
    BY DEF event
  <2> QED
    BY <1>3, <2>1, <2>2, EventTaken
<1>9. Behind'
  <2>1. ASSUME NEW j \in DOMAIN got', got'[j] # 0
        PROVE  j \in DOMAIN got /\ got'[j] = got[j]
    BY <1>4, <2>1
  <2>2. \A j \in DOMAIN got : got[j] # 0 =>
          \A m \in DOMAIN Unread' : got[j] + 1 < Unread'[m][1]
    BY <1>2, LeftBehind
  <2> QED
    BY <2>1, <2>2 DEF Behind
<1> QED
  BY <1>2, <1>5, <1>6, <1>7, <1>8, <1>9, TypeParts DEF Inv

(* A body that does not decrypt ends the behaviour.                        *)
LEMMA GarbledStep ==
  ASSUME Inv, Running, Garbled, NEW k \in 0..Len(arrived),
         arrived' = SubSeq(arrived, k + 1, Len(arrived)),
         flight' = flight, frames' = frames, link' = link
  PROVE  Inv'
<1>1. fault' = "garbled" /\ UNCHANGED <<receiver, events>>
  BY DEF Garbled
<1>2. FrameType /\ ReceiverType
  BY TypeParts DEF Inv
<1>3. /\ FrameType' /\ Frames' /\ WireType'
      /\ \A i : BodySize(i)' = BodySize(i) /\ (Whole(i)' <=> Whole(i))
      /\ Rest(Unread')
  BY AnyRead
<1>4. InStep'
  BY <1>1 DEF InStep, Running
<1>5. ReceiverType'
  BY <1>1, <1>2 DEF ReceiverType, receiver
<1>6. Phase' /\ InOrder' /\ Started' /\ EventType'
  <2>1. Len(frames) <= Len(frames')
    BY <1>2 DEF FrameType
  <2> QED
    BY <1>1, <1>3, <2>1, ReceiverWaits
<1>7. Behind'
  BY <1>1, <1>3, StaysBehind DEF receiver
<1> QED
  BY <1>3, <1>4, <1>5, <1>6, <1>7, TypeParts DEF Inv

(* The session key is read and decrypted, or the key exchange fails.        *)
LEMMA KeyBodyStep ==
  ASSUME Inv, KeyBody
  PROVE  Inv'
<1>1. /\ Running /\ rpc = "key_body" /\ TypeOK
      /\ arrived' =
           SubSeq(arrived, Least(size, Len(arrived)) + 1, Len(arrived))
      /\ frames' = frames /\ link' = link /\ flight' = flight
  BY DEF KeyBody, Inv, sender
<1>2. /\ Least(size, Len(arrived)) \in 0..Len(arrived)
      /\ size <= Len(arrived) => Least(size, Len(arrived)) = size
      /\ size \in Nat /\ Len(arrived) \in Nat
  BY <1>1, ReadSize
<1>3. CASE size = 0 \/ Len(arrived) < size
  <2>1. GiveUp
    BY <1>2, <1>3 DEF KeyBody
  <2> QED
    BY <1>1, <1>2, <2>1, GivesUp
<1>4. CASE ~(size = 0 \/ Len(arrived) < size)
  <2>1. size \in 1..Len(arrived)
    BY <1>2, <1>4
  <2>2. /\ FrameType' /\ Frames' /\ WireType'
        /\ \A i : BodySize(i)' = BodySize(i) /\ (Whole(i)' <=> Whole(i))
    BY <1>1, <1>2, AnyRead
  <2>3. /\ ReceiverType /\ EventType /\ Frames
        /\ Phase /\ InOrder /\ Started
    BY TypeParts DEF Inv
  <2>4. CASE Opens(SubSeq(arrived, 1, size))
    <3>1. /\ key' = Unpad(Pad(frames[1].data)) /\ rpc' = "header"
          /\ UNCHANGED <<size, got, events, fault>>
      BY <1>2, <1>4, <2>4 DEF KeyBody, HasKey, Garbled
    <3>2. got = <<>> /\ 1 \in 1..Len(frames) /\ NextFrame' = 1 + 1
      <4>1. got = <<>> /\ NextFrame = 1 /\ 1 <= Len(frames)
        BY <1>1, <2>3 DEF Phase, NextFrame, Astray
      <4>2. Len(frames) \in Nat
        BY <1>1 DEF TypeOK
      <4>3. NextFrame' = Len(got) + 2
        BY <3>1 DEF NextFrame
      <4> QED
        BY <4>1, <4>2, <4>3
    <3>3. key' = SessionKey
      <4>1. frames # <<>>
        BY <3>2
      <4>2. frames[1].data = SessionKey
        BY <2>3, <4>1 DEF Frames
      <4>3. SessionKey \in Seq(Nat)
        BY DataType
      <4>4. Unpad(Pad(SessionKey)) = SessionKey
        BY <4>3, RoundTrip
      <4> QED
        BY <3>1, <4>2, <4>4
    <3>4. InStep' /\ Phase' /\ Behind'
      <4>1. SubSeq(arrived, 1, size) = Body(1)
        BY <2>4 DEF Opens
      <4>2. arrived' = SubSeq(arrived, size + 1, Len(arrived))
        BY <1>1, <1>2, <2>1
      <4>3. InStep' /\ Phase'
        BY <1>1, <2>1, <3>1, <3>2, <3>3, <4>1, <4>2, BodyTaken
      <4> QED
        BY <3>1, <3>2, <4>3 DEF Behind
    <3>5. ReceiverType'
      BY <2>3, <3>1, <3>3 DEF ReceiverType
    <3>6. InOrder'
      BY <1>1, <2>2, <2>3, <3>1, SameOrder
    <3>7. Started' /\ EventType'
      BY <1>1, <2>3, <3>1 DEF Started, Belongs, EventType, events
    <3> QED
      BY <2>2, <3>4, <3>5, <3>6, <3>7, TypeParts DEF Inv
  <2>5. CASE ~Opens(SubSeq(arrived, 1, size))
    <3>1. Garbled \/ (HasKey(Garbage) /\ got' = Append(got, 0))
      BY <1>2, <1>4, <2>5 DEF KeyBody
    <3>2. CASE Garbled
      BY <1>1, <1>2, <3>2, GarbledStep
    <3>3. CASE HasKey(Garbage) /\ got' = Append(got, 0)
      <4>1. /\ rpc' = "header" /\ key' = Garbage /\ running' = running
            /\ UNCHANGED <<size, handled, fault>>
        BY <3>3 DEF HasKey, events
      <4> QED
        BY <1>1, <1>2, <3>3, <4>1, GarbageTaken
    <3> QED
      BY <3>1, <3>2, <3>3
  <2> QED
    BY <2>4, <2>5
<1> QED
  BY <1>3, <1>4

(* The message that OnRecv takes comes after those taken, and is the next  *)
(* one as long as no garbage was.                                          *)
LEMMA OnRecvTakes ==
  ASSUME Inv, Running, rpc = "body", size \in 1..Len(arrived),
         Decrypts(SubSeq(arrived, 1, size)), OnRecv(SubSeq(arrived, 1, size))
  PROVE  \E n \in 2..Len(frames) :
           /\ SubSeq(arrived, 1, size) = Body(n)
           /\ ~Astray => n = Len(got) + 2
           /\ \A k \in DOMAIN got : got[k] < n - 1
           /\ got' = Append(got, n - 1)
           /\ Start([msg |-> n - 1, data |-> frames[n].data])
           /\ key = SessionKey /\ rpc' = "header"
           /\ UNCHANGED <<size, key, handled, fault>>
<1> DEFINE body == SubSeq(arrived, 1, size)
           n == body[1][1]
<1>1. TypeOK /\ FrameType /\ Frames /\ InStep /\ Phase /\ Behind
  BY TypeParts DEF Inv
<1>2. n > 1 /\ body = Body(n) /\ key = SessionKey
  BY DEF Decrypts
<1>3. /\ got' = Append(got, n - 1)
      /\ Start([msg |-> n - 1, data |-> Unpad(Pad(frames[n].data))])
      /\ rpc' = "header" /\ UNCHANGED <<size, key, handled, fault>>
  BY DEF OnRecv, HandOn
<1>4. n = Unread[1][1] /\ Unread # <<>> /\ Unread \in Seq(Nat \X Nat)
  <2>1. arrived \in Seq(Nat \X Nat) /\ Len(arrived) \in Nat /\ arrived # <<>>
    BY <1>1 DEF TypeOK
  <2>2. body[1] = arrived[1]
    BY <2>1
  <2>3. Unread[1] = arrived[1] /\ Unread # <<>>
    BY <1>1, <2>1, FirstArrived
  <2> QED
    BY <1>1, <2>2, <2>3, UnreadType
<1> HIDE DEF n
<1>5. n \in 1..Len(frames) /\ 1 \in DOMAIN Unread
  <2>1. 1 \in DOMAIN Unread
    BY <1>4
  <2>2. Written(Unread[1])
    BY <1>1, <2>1 DEF InStep, Unbroken
  <2> QED
    BY <1>4, <2>1, <2>2 DEF Written
<1>6. ~Astray => n = NextFrame
  BY <1>1, <1>2, <1>5, WholeBody
<1>7. NextFrame = Len(got) + 2 /\ Len(frames) \in Nat
  BY <1>1 DEF NextFrame, TypeOK
<1>8. n \in 2..Len(frames) /\ (~Astray => n = Len(got) + 2)
  BY <1>2, <1>5, <1>6, <1>7
<1>9. Unpad(Pad(frames[n].data)) = frames[n].data
  <2>1. frames[n].data \in Payloads \cup {SessionKey}
    BY <1>1, <1>5, FrameTypes
  <2>2. frames[n].data \in Seq(Nat)
    BY <2>1, DataType
  <2> QED
    BY <2>2, RoundTrip
<1>10. ASSUME NEW k \in DOMAIN got
       PROVE  got[k] < n - 1
  <2>1. got[k] \in Nat
    BY <1>1, GotType
  <2>2. got[k] # 0 => got[k] + 1 < n
    BY <1>1, <1>4, <1>5 DEF Behind
  <2> QED
    BY <1>7, <1>8, <2>1, <2>2
<1> QED
  BY <1>2, <1>3, <1>8, <1>9, <1>10

(* The body of a message is read: the message is taken, or garbage, or the *)
(* end is reached.                                                         *)
LEMMA BodyReadStep ==
  ASSUME Inv, BodyRead
  PROVE  Inv'
<1>1. /\ Running /\ rpc = "body" /\ TypeOK
      /\ arrived' =
           SubSeq(arrived, Least(size, Len(arrived)) + 1, Len(arrived))
      /\ frames' = frames /\ link' = link /\ flight' = flight
  BY DEF BodyRead, Inv, sender
<1>2. /\ Least(size, Len(arrived)) \in 0..Len(arrived)
      /\ size <= Len(arrived) => Least(size, Len(arrived)) = size
      /\ size \in Nat /\ Len(arrived) \in Nat
  BY <1>1, ReadSize
<1>3. CASE GiveUp \/ Hangup
  BY <1>1, <1>2, <1>3, GivesUp
<1>4. CASE size > 0 /\ Len(arrived) >= size /\ OnRecv(SubSeq(arrived, 1, size))
  <2>1. size \in 1..Len(arrived)
    BY <1>2, <1>4
  <2>2. /\ FrameType' /\ Frames' /\ WireType'
        /\ \A i : BodySize(i)' = BodySize(i) /\ (Whole(i)' <=> Whole(i))
        /\ Rest(Unread')
    BY <1>1, <1>2, AnyRead
  <2>3. /\ FrameType /\ ReceiverType /\ EventType /\ Frames
        /\ Phase /\ InOrder /\ Started
    BY TypeParts DEF Inv
  <2>4. CASE Decrypts(SubSeq(arrived, 1, size))
    <3>1. PICK n \in 2..Len(frames) :
            /\ SubSeq(arrived, 1, size) = Body(n)
            /\ ~Astray => n = Len(got) + 2
            /\ \A k \in DOMAIN got : got[k] < n - 1
            /\ got' = Append(got, n - 1)
            /\ Start([msg |-> n - 1, data |-> frames[n].data])
            /\ key = SessionKey /\ rpc' = "header"
            /\ UNCHANGED <<size, key, handled, fault>>
      BY <1>1, <1>4, <2>1, <2>4, OnRecvTakes
    <3>2. /\ n - 1 \in 1..MaxMsgs /\ n - 1 \in 0..MaxMsgs /\ n - 1 # 0
          /\ n - 1 < Len(frames) /\ (n - 1) + 1 = n /\ n \in 1..Len(frames)
      <4>1. Len(frames) \in Nat /\ Len(frames) <= MaxMsgs + 1
        BY <2>3 DEF FrameType
      <4> QED
        BY <4>1, StreamAssumption
    <3>3. /\ got' \in Seq(0..MaxMsgs)
          /\ Len(got') = Len(got) + 1 /\ DOMAIN got' = 1..(Len(got) + 1)
          /\ DOMAIN got = 1..Len(got) /\ Len(got) \in Nat
          /\ \A k \in 1..Len(got) : got'[k] = got[k]
          /\ got'[Len(got) + 1] = n - 1
          /\ Astray' <=> Astray
      BY <1>1, <3>1, <3>2, Appended
    <3>4. ~Astray' => NextFrame' = n + 1
      <4>1. NextFrame' = Len(got') + 2
        BY <3>1 DEF NextFrame
      <4> QED
        BY <3>1, <3>3, <4>1
    <3>5. /\ InStep' /\ Phase' /\ Whole(n)
          /\ \A m \in DOMAIN Unread' : n < Unread'[m][1]
      <4>1. arrived' = SubSeq(arrived, size + 1, Len(arrived))
        BY <1>1, <1>2, <2>1
      <4> QED
        BY <1>1, <2>1, <3>1, <3>2, <3>4, <4>1, BodyTaken
    <3>6. ReceiverType'
      BY <2>3, <3>1, <3>3 DEF ReceiverType
    <3>7. InOrder'
      <4>1. Whole((n - 1) + 1)
        BY <3>2, <3>5
      <4>2. ~Astray => n - 1 = Len(got) + 1
        BY <3>1, <3>3
      <4> DEFINE x == n - 1
      <4>3. /\ x \in 0..MaxMsgs /\ x < Len(frames) /\ Whole(x + 1)
            /\ ~Astray => x = Len(got) + 1
            /\ \A k \in DOMAIN got : got[k] < x
            /\ got' = Append(got, x)
        BY <3>1, <3>2, <4>1, <4>2
      <4> HIDE DEF x
      <4> QED
        BY <1>1, <2>2, <4>3, OrderAppended
    <3>8. Started' /\ EventType'
      <4> DEFINE x == n - 1
                 event == [msg |-> x, data |-> frames[n].data]
      <4>1. event.msg = x
        OBVIOUS
      <4>2. running' \in {running, running \cup {event}}
        BY <3>1 DEF Start
      <4> HIDE DEF event
      <4>3. /\ x \in 0..MaxMsgs /\ x # 0 /\ got' = Append(got, x)
            /\ \A k \in DOMAIN got : got[k] < x
        BY <3>1, <3>2
      <4> HIDE DEF x
      <4>4. event.msg = IF x = 0 THEN 0 - (Len(got) + 1) ELSE x
        BY <4>1, <4>3
      <4> QED
        BY <1>1, <3>1, <4>2, <4>3, <4>4, EventTaken
    <3>9. Behind'
      <4>1. ASSUME NEW j \in DOMAIN got', got'[j] # 0, NEW m \in DOMAIN Unread'
            PROVE  got'[j] + 1 < Unread'[m][1]
        <5>1. CASE j \in 1..Len(got)
          <6>1. got'[j] = got[j] /\ j \in DOMAIN got
            BY <3>3, <5>1
          <6> QED
            BY <2>2, <4>1, <6>1, LeftBehind
        <5>2. CASE j = Len(got) + 1
          <6>1. got'[j] = n - 1 /\ (n - 1) + 1 = n
            BY <3>2, <3>3, <5>2
          <6>2. got'[j] + 1 = n
            BY <6>1
          <6> QED
            BY <3>5, <6>2
        <5> QED
          BY <3>3, <5>1, <5>2
      <4> QED
        BY <4>1 DEF Behind
    <3> QED
      BY <2>2, <3>5, <3>6, <3>7, <3>8, <3>9, TypeParts DEF Inv
  <2>5. CASE ~Decrypts(SubSeq(arrived, 1, size))
    <3>1. Garbled \/ HandOnGarbage
      BY <1>4, <2>5 DEF OnRecv
    <3>2. CASE Garbled
      BY <1>1, <1>2, <3>2, GarbledStep
    <3>3. CASE HandOnGarbage
      <4>1. /\ rpc' = "header" /\ got' = Append(got, 0)
            /\ UNCHANGED <<size, key, handled, fault>>
            /\ running' \in {running, running \cup
                 {[msg |-> 0 - (Len(got) + 1), data |-> Garbage]}}
        BY <3>3 DEF HandOnGarbage, HandOn, Start
      <4> QED
        BY <1>1, <1>2, <4>1, GarbageTaken
    <3> QED
      BY <3>1, <3>2, <3>3
  <2> QED
    BY <2>4, <2>5
<1> QED
  BY <1>3, <1>4 DEF BodyRead, ShortBody

(* The application is called with an event.                                 *)
LEMMA CallStep ==
  ASSUME Inv, Call
  PROVE  Inv'
<1>1. /\ UNCHANGED <<sender, wire, receiver, fault>> /\ Running
      /\ \E e \in running : /\ running' = running \ {e}
                            /\ handled' = handled \cup {e}
  BY DEF Call
<1>2. /\ FrameType /\ WireType /\ ReceiverType /\ EventType
      /\ Frames /\ InStep /\ Phase /\ InOrder /\ Started
  BY TypeParts DEF Inv
<1>3. frames' = frames /\ link' = link /\ Unread' = Unread
  BY <1>1 DEF sender, wire, Unread
<1>4. /\ FrameType' /\ Frames'
      /\ \A i : BodySize(i)' = BodySize(i) /\ (Whole(i)' <=> Whole(i))
  BY <1>2, <1>3, SameFrames
<1>5. WireType' /\ ReceiverType'
  BY <1>1, <1>2 DEF WireType, ReceiverType, sender, wire, receiver
<1>6. InStep'
  BY <1>1, <1>3, StaysInStep
<1>7. Phase' /\ InOrder'
  <2>1. rpc' = rpc /\ got' = got
    BY <1>1 DEF receiver
  <2>2. NextFrame' = NextFrame /\ Astray' = Astray
    BY <2>1 DEF NextFrame, Astray
  <2>3. Phase'
    BY <1>2, <1>3, <2>1, <2>2 DEF Phase
  <2> QED
    BY <1>2, <1>3, <1>4, <2>1, <2>3, SameOrder
<1>8. EventType'
  BY <1>1, <1>2 DEF EventType
<1>9. Started'
  BY <1>1, <1>2 DEF Started, Belongs, receiver
<1>10. Behind'
  BY <1>1, <1>3, SameBehind DEF Inv, receiver
<1> QED
  BY <1>4, <1>5, <1>6, <1>7, <1>8, <1>9, <1>10, TypeParts DEF Inv


-----------------------------------------------------------------------------
(* The invariant *)

(* It holds before anything is written.                                    *)
LEMMA InitInv ==
  ASSUME Init
  PROVE  Inv
<1>1. /\ frames = <<>> /\ link = "open" /\ flight = <<>> /\ arrived = <<>>
      /\ rpc = "key_header" /\ size = 0 /\ key = <<>> /\ got = <<>>
      /\ running = {} /\ handled = {} /\ fault = "none"
  BY DEF Init
<1>2. Unread = <<>> /\ NextFrame = 1
  BY <1>1 DEF Unread, NextFrame
<1>3. Fits(0)
  <2>1. SealedSize(KeySize) \in Nat
    BY SecretSizeType, StreamAssumption, SizesAssumption DEF SealedSize
  <2>2. 0 \in 0..SealedSize(KeySize)
    BY <2>1
  <2> QED
    BY <2>1, <2>2, SmallerFits, StreamAssumption
<1>4. TypeOK
  BY <1>1, <1>3, StreamAssumption DEF TypeOK
<1>5. Frames
  BY <1>1 DEF Frames
<1>6. InStep
  BY <1>1, <1>2 DEF InStep, InPlace, Unbroken
<1>7. Phase /\ InOrder /\ Behind /\ Started
  BY <1>1, <1>2 DEF Phase, InOrder, Behind, Started
<1> QED
  BY <1>4, <1>5, <1>6, <1>7 DEF Inv

(* A step that changes nothing.                                            *)
LEMMA Stutter ==
  ASSUME Inv, UNCHANGED vars
  PROVE  Inv'
<1>1. /\ frames' = frames /\ link' = link /\ Unread' = Unread
      /\ flight' = flight /\ arrived' = arrived /\ Running' = Running
      /\ UNCHANGED <<receiver, events, fault>>
  BY DEF vars, sender, wire, Unread, Running
<1>2. FrameType /\ WireType /\ ReceiverType /\ Frames
  BY TypeParts DEF Inv
<1>3. /\ FrameType' /\ Frames'
      /\ \A i : BodySize(i)' = BodySize(i) /\ (Whole(i)' <=> Whole(i))
  BY <1>1, <1>2, SameFrames
<1>4. WireType' /\ ReceiverType'
  BY <1>1, <1>2 DEF WireType, ReceiverType, receiver
<1>5. InStep'
  <2>1. CASE Running
    BY <1>1, <2>1, StaysInStep
  <2>2. CASE ~Running
    BY <1>1, <2>2 DEF InStep
  <2> QED
    BY <2>1, <2>2
<1>6. Phase' /\ InOrder' /\ Started' /\ EventType'
  <2>1. Len(frames) <= Len(frames')
    BY <1>1, <1>2 DEF FrameType
  <2> QED
    BY <1>1, <1>3, <2>1, ReceiverWaits
<1>7. Behind'
  BY <1>1, SameBehind DEF Inv, receiver
<1> QED
  BY <1>3, <1>4, <1>5, <1>6, <1>7, TypeParts DEF Inv

(* Every step keeps it.                                                    *)
LEMMA StepInv ==
  ASSUME Inv, [Next]_vars
  PROVE  Inv'
<1>1. CASE SendKey
  BY <1>1, SendKeyStep
<1>2. ASSUME NEW n \in Sizes, Send(n)
      PROVE  Inv'
  BY <1>2, SendStep
<1>3. CASE Close
  BY <1>3, CloseStep
<1>4. CASE Deliver
  BY <1>4, DeliverStep
<1>5. CASE Reset
  BY <1>5, ResetStep
<1>6. CASE Receive
  BY <1>6, KeyHeaderStep, KeyBodyStep, HeaderStep, BodyReadStep DEF Receive
<1>7. CASE Call
  BY <1>7, CallStep
<1>8. CASE UNCHANGED vars
  BY <1>8, Stutter
<1> QED
  BY <1>1, <1>2, <1>3, <1>4, <1>5, <1>6, <1>7, <1>8 DEF Next

(* The invariant of the connection: whatever the application sends, the    *)
(* kernels take and the network delivers, and however the reads fall.      *)
THEOREM Invariance == SafeSpec => []Inv
<1> QED
  BY InitInv, StepInv, PTL DEF SafeSpec

(* The variables keep their types: the two kernels never hold more than    *)
(* Buffer bytes, send() took at least a byte of every frame, and what is   *)
(* decoded from a header fits in one (client.c 605-615, server.c 406).     *)
THEOREM TypeCorrect == SafeSpec => []TypeOK
<1>1. Inv => TypeOK
  BY DEF Inv
<1> QED
  BY <1>1, Invariance, PTL

(* The serve loop keeps its place in the stream, frames cut short or not,  *)
(* until a misread body happens to decrypt or the behaviour of the program *)
(* is undefined (server.c 380-406).                                        *)
THEOREM LoopInStep == SafeSpec => []InStep
<1>1. Inv => InStep
  BY DEF Inv
<1> QED
  BY <1>1, Invariance, PTL

(* As long as no garbage was handed on, no message is handed on once a     *)
(* send() was cut short, and one that was cut never is (client.c 608).     *)
THEOREM HoleEndsStream == SafeSpec => []NothingPastAHole
<1>1. ASSUME Inv
      PROVE  NothingPastAHole
  <2>1. /\ Len(got) \in Nat /\ DOMAIN got = 1..Len(got)
        /\ Frames /\ InOrder /\ Len(frames) \in Nat
    BY <1>1, GotType DEF Inv
  <2>2. ASSUME NEW k \in DOMAIN got, \A j \in 1..k : got[j] # 0,
               NEW i \in 1..(got[k] + 1)
        PROVE  Whole(i)
    <3>1. got[k] = k /\ k \in 1..Len(got) /\ got[k] # 0
      BY <2>1, <2>2 DEF InOrder
    <3>2. CASE i = 1
      <4>1. k < Len(frames)
        BY <2>1, <3>1 DEF InOrder
      <4>2. frames # <<>>
        BY <2>1, <3>1, <4>1
      <4> QED
        BY <2>1, <3>2, <4>2 DEF Frames
    <3>3. CASE i # 1
      <4>1. /\ i - 1 \in DOMAIN got /\ (i - 1) + 1 = i
            /\ \A j \in 1..(i - 1) : j \in 1..k
            /\ i - 1 \in 1..(i - 1)
        BY <2>1, <3>1, <3>3
      <4>2. got[i - 1] = i - 1 /\ got[i - 1] # 0
        BY <2>1, <2>2, <4>1 DEF InOrder
      <4>3. Whole(got[i - 1] + 1)
        BY <2>1, <4>1, <4>2 DEF InOrder
      <4> QED
        BY <4>1, <4>2, <4>3
    <3> QED
      BY <3>2, <3>3
  <2>3. \A k \in DOMAIN got : got[k] # 0 => Whole(got[k] + 1)
    BY <2>1 DEF InOrder
  <2> QED
    BY <2>2, <2>3 DEF NothingPastAHole
<1> QED
  BY <1>1, Invariance, PTL

(* The buffers that crypto.c 305 and 480 allocate for ciphertexts hold     *)
(* what the cipher writes, for every size of block and of messages.        *)
THEOREM BuffersSuffice == SafeSpec => []BuffersFit
<1>1. ASSUME Inv
      PROVE  BuffersFit
  <2>1. TypeOK /\ Frames /\ DOMAIN frames = 1..Len(frames)
    BY <1>1 DEF Inv, TypeOK
  <2>2. ASSUME NEW i \in 1..Len(frames)
        PROVE  CipherSize(PadSize(Len(frames[i].data)))
                 <= CipherRoom(PadSize(Len(frames[i].data)))
    <3>1. Len(frames[i].data) \in Nat
      BY <2>1, FrameTypes, DataType
    <3> QED
      BY <3>1, CipherFits
  <2> QED
    BY <2>1, <2>2 DEF BuffersFit
<1> QED
  BY <1>1, Invariance, PTL

-----------------------------------------------------------------------------
(* The connection implements the channel *)

Accepted ==
  [i \in 1..(IF frames = <<>> THEN 0 ELSE Len(frames) - 1) |->
     frames[i + 1].data]

Finished == Over \/ ~Running

(* The channel's steps, in the variables of the connection.                *)
LEMMA ChannelStep ==
  ASSUME \/ UNCHANGED <<Accepted, got, running, handled, Finished>>
         \/ /\ \E payload \in Payloads : Accepted' = Append(Accepted, payload)
            /\ UNCHANGED <<got, running, handled, Finished>>
         \/ /\ ~Finished
            /\ \E i \in 1..Len(Accepted) :
                 /\ \A k \in DOMAIN got : got[k] < i
                 /\ (\A k \in DOMAIN got : got[k] # 0) => i = Len(got) + 1
                 /\ got' = Append(got, i)
                 /\ running' \in {running, running \cup
                      {[msg |-> i, data |-> Accepted[i]]}}
            /\ UNCHANGED <<Accepted, handled, Finished>>
         \/ /\ ~Finished
            /\ got' = Append(got, 0)
            /\ running' \in {running, running \cup
                 {[msg |-> 0 - (Len(got) + 1), data |-> Garbage]}}
            /\ UNCHANGED <<Accepted, handled, Finished>>
         \/ /\ ~Finished /\ Finished'
            /\ running' \in
                 {running, running \cup {[msg |-> 0, data |-> <<>>]}}
            /\ UNCHANGED <<Accepted, got, handled>>
         \/ /\ \E event \in running :
                 /\ running' = running \ {event}
                 /\ handled' = handled \cup {event}
            /\ UNCHANGED <<Accepted, got, Finished>>
  PROVE  [Ch!Next]_(Ch!vars)
BY DEF Ch!Next, Ch!vars, Ch!Accept, Ch!Take, Ch!TakeGarbage, Ch!Finish,
       Ch!Call, Ch!Event, Ch!EndEvent, Ch!InOrder, Accepted, Finished

(* Where nothing is accepted or taken, and the end is not reached.         *)
LEMMA ChannelWaits ==
  ASSUME frames' = frames, got' = got, running' = running, handled' = handled,
         rpc' = rpc \/ {rpc, rpc'} \cap {"ended", "failed"} = {},
         fault' = fault
  PROVE  [Ch!Next]_(Ch!vars)
<1>1. Accepted' = Accepted
  BY DEF Accepted
<1>2. Finished' = Finished
  BY DEF Finished, Over, Running
<1> QED
  BY <1>1, <1>2, ChannelStep

(* The end: the receiver hangs up or gives up, or the behaviour is         *)
(* undefined from here on.                                                 *)
LEMMA ChannelEnds ==
  ASSUME frames' = frames, got' = got, handled' = handled, Running,
         \/ Hangup \/ GiveUp
         \/ fault' # "none" /\ UNCHANGED <<rpc, running>>,
         Over => UNCHANGED <<rpc, running>>
  PROVE  [Ch!Next]_(Ch!vars)
<1>1. Accepted' = Accepted
  BY DEF Accepted
<1>2. CASE Over
  <2>1. Finished'
    BY <1>2 DEF Finished, Over
  <2>2. Finished /\ running' = running
    BY <1>2 DEF Finished
  <2> QED
    BY <1>1, <2>1, <2>2, ChannelStep
<1>3. CASE ~Over
  <2>1. ~Finished
    BY <1>3 DEF Finished
  <2>2. Finished'
    BY DEF Finished, Over, Running, Hangup, GiveUp
  <2>3. running' \in {running, running \cup {[msg |-> 0, data |-> <<>>]}}
    BY DEF Hangup, GiveUp, Start, events
  <2> QED
    BY <1>1, <2>1, <2>2, <2>3, ChannelStep
<1> QED
  BY <1>2, <1>3

(* The key of the key exchange is not a message.                           *)
LEMMA SendKeyChannel ==
  ASSUME SendKey
  PROVE  [Ch!Next]_(Ch!vars)
<1>1. /\ frames = <<>> /\ Len(frames') = 1 /\ frames' # <<>>
      /\ UNCHANGED <<rpc, got, running, handled, fault>>
  BY DEF SendKey, receiver, events
<1>2. Accepted = <<>>
  BY <1>1 DEF Accepted
<1>3. Accepted' = <<>>
  BY <1>1 DEF Accepted
<1>4. Finished' = Finished
  BY <1>1 DEF Finished, Over, Running
<1> QED
  BY <1>1, <1>2, <1>3, <1>4, ChannelStep

(* A message whose size the cipher can add to is accepted.                 *)
LEMMA SendChannel ==
  ASSUME Inv, NEW n \in Sizes, Send(n)
  PROVE  [Ch!Next]_(Ch!vars)
<1>1. /\ Running /\ frames # <<>> /\ Len(frames) <= MaxMsgs
      /\ UNCHANGED <<rpc, got, running, handled>>
  BY DEF Send, receiver, events
<1>2. CASE ~IntsHold(n)
  <2>1. frames' = frames /\ fault' = "wild_size"
    BY <1>2 DEF Send
  <2> QED
    BY <1>1, <2>1, ChannelEnds
<1>3. CASE IntsHold(n)
  <2>1. PICK put : frames' = Append(frames,
                     [data |-> Message(Len(frames) + 1 - 1, n), put |-> put])
    <3> DEFINE put == Least(LenSize + SecretSize(n),
                            Buffer - Len(flight) - Len(arrived))
    <3>1. frames' = Append(frames,
                      [data |-> Message(Len(frames) + 1 - 1, n), put |-> put])
      BY <1>3 DEF Send
    <3> QED
      BY <3>1
  <2>2. Finished' = Finished
    BY <1>1, <1>3 DEF Send, Finished, Over, Running
  <2>3. frames \in Seq([data : Payloads \cup {SessionKey}, put : Nat])
    BY DEF Inv, TypeOK
  <2> DEFINE l == Len(frames)
             m == Message(l + 1 - 1, n)
  <2>4. l \in 1..MaxMsgs /\ l + 1 - 1 = l /\ MaxMsgs \in Nat
    BY <1>1, <2>3, StreamAssumption
  <2>5. m \in Payloads
    BY <2>4 DEF Payloads
  <2>6. Accepted = [i \in 1..(l - 1) |-> frames[i + 1].data]
    BY <1>1 DEF Accepted
  <2> HIDE DEF m
  <2>7. /\ Len(frames') = l + 1 /\ frames' # <<>>
        /\ \A i \in 1..l : frames'[i] = frames[i]
        /\ frames'[l + 1].data = m
    BY <2>1, <2>3 DEF m
  <2>8. Accepted' = [i \in 1..((l + 1) - 1) |-> frames'[i + 1].data]
    BY <2>7 DEF Accepted
  <2>9. Accepted' = Append(Accepted, m)
    <3> DEFINE A == Accepted
               B == Accepted'
    <3>1. A = [i \in 1..(l - 1) |-> A[i]] /\ Len(A) = l - 1
      BY <2>4, <2>6
    <3>2. \A i \in 1..(l - 1) : A[i] = frames[i + 1].data
      BY <2>6
    <3>3. \A i \in 1..l : B[i] = frames'[i + 1].data
      BY <2>4, <2>8
    <3>4. \A i \in 1..(l - 1) : B[i] = A[i]
      BY <2>4, <2>7, <3>2, <3>3
    <3>5. B[l] = m
      BY <2>4, <2>7, <3>3
    <3>6. DOMAIN B = 1..l /\ B = [i \in DOMAIN B |-> B[i]]
      BY <2>4, <2>8
    <3> HIDE DEF A, B
    <3>7. B = [i \in 1..l |-> IF i = l THEN m ELSE A[i]]
      BY <2>4, <3>4, <3>5, <3>6
    <3>8. Append(A, m) = [i \in 1..l |-> IF i = l THEN m ELSE A[i]]
      BY <2>4, <3>1
    <3> QED
      BY <3>7, <3>8 DEF A, B
  <2> QED
    BY <1>1, <2>2, <2>5, <2>9, ChannelStep
<1> QED
  BY <1>2, <1>3

(* Garbage is taken.                                                       *)
LEMMA GarbageChannel ==
  ASSUME Running, ~Over, frames' = frames, rpc' = "header",
         got' = Append(got, 0),
         running' \in {running, running \cup
           {[msg |-> 0 - (Len(got) + 1), data |-> Garbage]}},
         UNCHANGED <<handled, fault>>
  PROVE  [Ch!Next]_(Ch!vars)
<1>1. Accepted' = Accepted
  BY DEF Accepted
<1>2. ~Finished /\ Finished' = Finished
  BY DEF Finished, Over, Running
<1> QED
  BY <1>1, <1>2, ChannelStep

(* What the receiver does is to take a message or garbage, to end, or      *)
(* nothing.                                                                *)
LEMMA ReceiveChannel ==
  ASSUME Inv, Receive
  PROVE  [Ch!Next]_(Ch!vars)
<1>1. /\ frames' = frames /\ Running /\ ~Over
      /\ TypeOK
  BY DEF Receive, KeyHeader, KeyBody, Header, BodyRead, HeaderRead, sender,
         Over, Inv
<1>2. CASE KeyHeader
  BY <1>1, <1>2, ChannelWaits, ChannelEnds
     DEF KeyHeader, HeaderRead, GiveUp, events
<1>3. CASE KeyBody
  <2>1. CASE GiveUp
    BY <1>1, <2>1, ChannelEnds DEF GiveUp, events
  <2>2. CASE Garbled
    BY <1>1, <2>2, ChannelEnds DEF Garbled, receiver, events
  <2>3. CASE rpc' = "header" /\ UNCHANGED <<size, got, events, fault>>
    BY <1>1, <1>3, <2>3, ChannelWaits DEF KeyBody, events
  <2>4. CASE HasKey(Garbage) /\ got' = Append(got, 0)
    <3>1. rpc' = "header" /\ UNCHANGED <<running, handled, fault>>
      BY <2>4 DEF HasKey, events
    <3> QED
      BY <1>1, <2>4, <3>1, GarbageChannel
  <2> QED
    BY <1>3, <2>1, <2>2, <2>3, <2>4 DEF KeyBody, HasKey
<1>4. CASE Header
  BY <1>1, <1>4, ChannelWaits, ChannelEnds
     DEF Header, HeaderRead, GiveUp, Hangup, events
<1>5. CASE BodyRead
  <2>1. CASE Hangup \/ GiveUp
    BY <1>1, <2>1, ChannelEnds DEF Hangup, GiveUp, events
  <2>2. CASE /\ size > 0 /\ Len(arrived) >= size
             /\ OnRecv(SubSeq(arrived, 1, size))
    <3>1. CASE ~Decrypts(SubSeq(arrived, 1, size))
      <4>1. Garbled \/ HandOnGarbage
        BY <2>2, <3>1 DEF OnRecv
      <4>2. CASE Garbled
        BY <1>1, <4>2, ChannelEnds DEF Garbled, receiver, events
      <4>3. CASE HandOnGarbage
        BY <1>1, <4>3, GarbageChannel DEF HandOnGarbage, HandOn, Start
      <4> QED
        BY <4>1, <4>2, <4>3
    <3>2. CASE Decrypts(SubSeq(arrived, 1, size))
      <4>1. rpc = "body" /\ size \in 1..Len(arrived)
        BY <1>1, <1>5, <2>2 DEF BodyRead, TypeOK
      <4>2. PICK n \in 2..Len(frames) :
              /\ ~Astray => n = Len(got) + 2
              /\ \A k \in DOMAIN got : got[k] < n - 1
              /\ got' = Append(got, n - 1)
              /\ Start([msg |-> n - 1, data |-> frames[n].data])
              /\ rpc' = "header" /\ UNCHANGED <<handled, fault>>
        BY <1>1, <2>2, <3>2, <4>1, OnRecvTakes
      <4>3. Len(frames) \in Nat /\ Len(got) \in Nat
        BY <1>1, GotType
      <4> DEFINE i == n - 1
      <4>4. /\ i \in 1..(Len(frames) - 1) /\ i + 1 = n /\ frames # <<>>
            /\ ~Astray => i = Len(got) + 1
            /\ \A k \in DOMAIN got : got[k] < i
            /\ got' = Append(got, i)
            /\ running' \in {running, running \cup
                 {[msg |-> i, data |-> frames[i + 1].data]}}
        BY <4>2, <4>3 DEF Start
      <4> HIDE DEF i
      <4>5. /\ Accepted = [j \in 1..(Len(frames) - 1) |-> frames[j + 1].data]
            /\ Accepted' = Accepted
        BY <1>1, <4>4 DEF Accepted
      <4>6. i \in 1..Len(Accepted) /\ Accepted[i] = frames[i + 1].data
        BY <4>3, <4>4, <4>5
      <4>7. ~Finished /\ Finished' = Finished
        BY <1>1, <4>2 DEF Finished, Over, Running
      <4>8. (\A k \in DOMAIN got : got[k] # 0) => ~Astray
        BY DEF Astray
      <4> QED
        BY <4>2, <4>4, <4>5, <4>6, <4>7, <4>8, ChannelStep
    <3> QED
      BY <3>1, <3>2
  <2> QED
    BY <1>5, <2>1, <2>2 DEF BodyRead, ShortBody
<1> QED
  BY <1>2, <1>3, <1>4, <1>5 DEF Receive

(* The initial states are those of the channel.                            *)
LEMMA ChannelInit ==
  ASSUME Init
  PROVE  Ch!Init
<1>1. Accepted = <<>>
  BY DEF Init, Accepted
<1> QED
  BY <1>1 DEF Init, Ch!Init, Accepted, Over, Running

(* The connection implements the channel: messages are taken in the order  *)
(* they were accepted in, none twice and each with the content it had, and *)
(* none is left out before garbage is taken for one (client.c 597-615,     *)
(* server.c 380-440).                                                      *)
THEOREM Refinement == SafeSpec => ImplementsChannel
<1>1. ASSUME Inv, [Next]_vars
      PROVE  [Ch!Next]_(Ch!vars)
  <2>1. CASE SendKey
    BY <2>1, SendKeyChannel
  <2>2. ASSUME NEW n \in Sizes, Send(n)
        PROVE  [Ch!Next]_(Ch!vars)
    BY <1>1, <2>2, SendChannel
  <2>3. CASE Close \/ Deliver \/ Reset \/ UNCHANGED vars
    BY <2>3, ChannelWaits
       DEF Close, Deliver, Reset, vars, sender, receiver, events
  <2>4. CASE Receive
    BY <1>1, <2>4, ReceiveChannel
  <2>5. CASE Call
    <3>1. Accepted' = Accepted /\ Finished' = Finished /\ got' = got
      BY <2>5 DEF Call, sender, receiver, Accepted, Finished, Over, Running
    <3> QED
      BY <2>5, <3>1, ChannelStep DEF Call
  <2> QED
    BY <1>1, <2>1, <2>2, <2>3, <2>4, <2>5 DEF Next
<1> QED
  BY <1>1, Invariance, ChannelInit, PTL
     DEF SafeSpec, ImplementsChannel, Ch!Spec
=============================================================================
