------------------------------- MODULE Stream -------------------------------
(***************************************************************************)
(* The bytes of one connection in one direction, from cdtp_client_send to  *)
(* the server's on_recv callbacks: the session key of the key exchange,    *)
(* then messages, each a header and a body (module Codec).  The other      *)
(* direction is the same code in cdtp_server_send and _cdtp_client_handle, *)
(* with a public key in the place of the session key.                      *)
(*                                                                         *)
(* After the key exchange both sockets are non-blocking: send() takes what *)
(* there is room for, and a read returns what has arrived.  The code takes *)
(* any result of send() but an error for success, reads a header with one  *)
(* read() whose result it does not compare with LenSize, and a body with   *)
(* one read() a short sleep later.                                         *)
(*                                                                         *)
(* A body that is not one that was written makes the decryption fail,      *)
(* whose NULL is used: fault "garbled" ends the behaviour.  Or it happens  *)
(* to end in a valid padding, as one in 256 does: the garbage is taken for *)
(* a plaintext and the loop goes on.  A size that overflows the int sums   *)
(* of the cipher is fault "wild_size".                                     *)
(***************************************************************************)
EXTENDS Codec, FiniteSets

CONSTANTS Sizes,     \* sizes of the messages the application sends
          KeySize,   \* CDTP_AES_KEY_SIZE
          Buffer,    \* bytes the two kernels hold for the connection
          MaxMsgs    \* bound: messages that are sent

ASSUME StreamAssumption ==
  /\ Sizes \subseteq Nat /\ KeySize \in Nat
  /\ Buffer \in Nat /\ MaxMsgs \in Nat
  /\ IntsHold(KeySize)
  /\ Fits(SealedSize(KeySize))   \* the sizes of all bodies fit in a header,
  /\ Fits(NonceSize + IntMax)    \* as with five bytes and a 32-bit int
  /\ LenSize + SealedSize(KeySize) <= Buffer

VARIABLES
  frames,    \* what was written: the data, and how many bytes send() took
  flight,    \* bytes written and not arrived
  arrived,   \* bytes arrived and not read
  link,      \* the sender's end: "open", "fin" (closed) or "reset"
  rpc,       \* where the receiving thread is
  size,      \* msg_size
  key,       \* client->key: <<>> until the key exchange is over
  got,       \* the numbers of the messages decrypted, 0 for garbage
  running,   \* events whose thread has not called the application yet
  handled,   \* events the application has been called with
  fault      \* why the behaviour is undefined from here on

sender == <<frames, link>>
wire == <<flight, arrived>>
receiver == <<rpc, size, key, got>>
events == <<running, handled>>
vars == <<sender, wire, receiver, events, fault>>

Running == fault = "none"

(* A message's number and content; its bytes all have its number as value. *)
Message(i, n) == [j \in 1..n |-> i]
Payloads == {Message(i, n) : i \in 1..MaxMsgs, n \in Sizes}

(* _cdtp_crypto_aes_key: the key that the client makes. *)
SessionKey == Message(0, KeySize)

(* What a body decrypts to that nobody has encrypted. *)
Garbage == Message(-1, 1)

(* Frame 1 is the session key, frame i + 1 is message i. *)
BodySize(i) ==
  IF i = 1 THEN SealedSize(KeySize) ELSE SecretSize(Len(frames[i].data))

FrameSize(i) == LenSize + BodySize(i)

(* A byte of the stream is <<frame, position in the frame>>. *)
Bytes(i, from, to) == [j \in 1..(to - from + 1) |-> <<i, from + j - 1>>]
Body(i) == Bytes(i, LenSize + 1, FrameSize(i))
Whole(i) == frames[i].put = FrameSize(i)

(* The values a byte can have: a digit of the size, or any in a ciphertext.*)
Values(byte) ==
  IF byte[2] <= LenSize THEN {EncodeSize(BodySize(byte[1]))[byte[2]]}
                        ELSE Digits

Least(m, n) == IF m < n THEN m ELSE n

Init ==
  /\ frames = <<>> /\ link = "open"
  /\ flight = <<>> /\ arrived = <<>>
  /\ rpc = "key_header" /\ size = 0 /\ key = <<>> /\ got = <<>>
  /\ running = {} /\ handled = {}
  /\ fault = "none"

-----------------------------------------------------------------------------
(* The sender *)

(* _cdtp_client_exchange_keys, on a blocking socket: send() takes it all.  *)
SendKey ==
  /\ Running /\ link = "open" /\ frames = <<>>
  /\ LET all == LenSize + SealedSize(KeySize)
     IN  /\ frames' = <<[data |-> SessionKey, put |-> all]>>
         /\ flight' = Bytes(1, 1, all)
  /\ UNCHANGED <<link, arrived, receiver, events, fault>>

(* Mutant of Room: a send() that fails (EAGAIN) is not told from one that  *)
(* took something.                                                         *)
RoomUnchecked == Len(flight) + Len(arrived) <= Buffer

(* send() takes at least a byte; where there is no room, the call fails    *)
(* and the message is dropped.                                             *)
Room == Len(flight) + Len(arrived) < Buffer

(* cdtp_client_send, from any thread: the frame is made, and one send()    *)
(* takes as much of it as there is room for.                               *)
Send(n) ==
  /\ Running /\ link = "open" /\ frames # <<>>
  /\ Len(frames) <= MaxMsgs
  /\ Room
  /\ LET i == Len(frames) + 1
         put == Least(LenSize + SecretSize(n),
                      Buffer - Len(flight) - Len(arrived))
     IN  IF IntsHold(n)
         THEN /\ frames' = Append(frames,
                             [data |-> Message(i - 1, n), put |-> put])
              /\ flight' = flight \o Bytes(i, 1, put)
              /\ UNCHANGED fault
         ELSE /\ fault' = "wild_size"
              /\ UNCHANGED <<frames, flight>>
  /\ UNCHANGED <<link, arrived, receiver, events>>

(* cdtp_client_disconnect closes; what was written still arrives. *)
Close ==
  /\ Running /\ link = "open"
  /\ link' = "fin"
  /\ UNCHANGED <<frames, wire, receiver, events, fault>>

-----------------------------------------------------------------------------
(* The network *)

Deliver ==
  /\ Running /\ flight # <<>>
  /\ arrived' = Append(arrived, Head(flight))
  /\ flight' = Tail(flight)
  /\ UNCHANGED <<sender, receiver, events, fault>>

(* The connection is lost, with what was on its way. *)
Reset ==
  /\ Running /\ link # "reset"
  /\ link' = "reset" /\ flight' = <<>>
  /\ UNCHANGED <<frames, arrived, receiver, events, fault>>

(* What a read() returns when nothing has arrived: 0 at the end of the     *)
(* stream, an error otherwise (EAGAIN, ECONNRESET).                        *)
EndOfStream == arrived = <<>> /\ flight = <<>> /\ link = "fin"
Broken == arrived = <<>> /\ link = "reset"

-----------------------------------------------------------------------------
(* The receiver *)

(* pthread_create may fail, and the event is lost. *)
Start(event) == running' \in {running, running \cup {event}}

(* The client is popped and closed, on_disconnect is started. *)
Hangup ==
  /\ rpc' = "ended"
  /\ Start([msg |-> 0, data |-> <<>>])
  /\ UNCHANGED <<size, key, got, handled, fault>>

(* An error is set and the loop returns. *)
GiveUp ==
  /\ rpc' = "failed"
  /\ UNCHANGED <<size, key, got, events, fault>>

(* _cdtp_crypto_rsa_decrypt, _cdtp_crypto_aes_decrypt: they yield a        *)
(* plaintext, of a whole body and with the key it was encrypted with.      *)
Opens(body) == body = Body(1)

Decrypts(body) ==
  LET i == body[1][1] IN i > 1 /\ body = Body(i) /\ key = SessionKey

(* CBC decrypts any whole blocks behind a nonce, and checks the padding.   *)
WholeBlocks(n) == n > NonceSize /\ (n - NonceSize) % Block = 0

(* Mutant of HeaderRead: the read waits for a whole header. *)
HeaderReadWhole(next) ==
  /\ Len(arrived) >= LenSize
  /\ arrived' = SubSeq(arrived, LenSize + 1, Len(arrived))
  /\ size' = DecodeSize([j \in 1..LenSize |->
                           CHOOSE v \in Values(arrived[j]) : TRUE])
  /\ rpc' = next
  /\ UNCHANGED <<sender, flight, key, got, events, fault>>

(* A read of LenSize bytes returns what there is of them; the rest of      *)
(* size_buffer is what a previous header, or nothing, has left there.      *)
HeaderRead(next) ==
  /\ arrived # <<>>
  /\ LET count == Least(LenSize, Len(arrived))
     IN  /\ \E header \in Headers :
              /\ \A j \in 1..count : header[j] \in Values(arrived[j])
              /\ size' = DecodeSize(header)
         /\ arrived' = SubSeq(arrived, count + 1, Len(arrived))
  /\ rpc' = next
  /\ UNCHANGED <<sender, flight, key, got, events, fault>>

(* _cdtp_server_exchange_keys, the header: a blocking read. *)
KeyHeader ==
  /\ Running /\ rpc = "key_header"
  /\ \/ HeaderRead("key_body")
     \/ /\ EndOfStream \/ Broken
        /\ GiveUp
        /\ UNCHANGED <<sender, wire>>

(* The key exchange is over. *)
HasKey(plaintext) ==
  /\ key' = plaintext
  /\ rpc' = "header"
  /\ UNCHANGED <<size, events, fault>>

(* The NULL of a decryption that has failed is used. *)
Garbled == fault' = "garbled" /\ UNCHANGED <<receiver, events>>

(* The body: a blocking read, of size bytes or of what there is of them.   *)
KeyBody ==
  /\ Running /\ rpc = "key_body"
  /\ arrived # <<>> \/ size = 0 \/ EndOfStream \/ Broken
  /\ arrived' = SubSeq(arrived, Least(size, Len(arrived)) + 1, Len(arrived))
  /\ \/ /\ size = 0 \/ Len(arrived) < size
        /\ GiveUp
     \/ /\ size > 0 /\ Len(arrived) >= size
        /\ LET body == SubSeq(arrived, 1, size)
           IN  \/ Opens(body) /\ HasKey(Unpad(Pad(frames[1].data)))
                              /\ UNCHANGED got
               \/ ~Opens(body) /\ Garbled
               \/ ~Opens(body) /\ HasKey(Garbage) /\ got' = Append(got, 0)
  /\ UNCHANGED <<sender, flight>>

(* The serve loop, the header; EAGAIN leaves the socket for the next round.*)
Header ==
  /\ Running /\ rpc = "header"
  /\ \/ HeaderRead("body")
     \/ /\ EndOfStream /\ Hangup
        /\ UNCHANGED <<sender, wire>>
     \/ /\ Broken /\ GiveUp
        /\ UNCHANGED <<sender, wire>>

(* A plaintext is handed to on_recv, as an event of its own. *)
HandOn(number, event) ==
  /\ got' = Append(got, number)
  /\ Start(event)
  /\ rpc' = "header"
  /\ UNCHANGED <<size, key, handled, fault>>

(* Garbage has no number, so its place among what was taken tells it from  *)
(* other garbage.                                                          *)
HandOnGarbage ==
  HandOn(0, [msg |-> 0 - (Len(got) + 1), data |-> Garbage])

(* Mutant of OnRecv: the padding is not taken off. *)
OnRecvPadded(body) ==
  LET i == body[1][1]
  IN  \/ /\ Decrypts(body)
         /\ HandOn(i - 1, [msg |-> i - 1, data |-> Pad(frames[i].data)])
      \/ ~Decrypts(body) /\ Garbled
      \/ ~Decrypts(body) /\ WholeBlocks(Len(body)) /\ HandOnGarbage

(* _cdtp_server_call_on_recv: the body is decrypted, the event started.    *)
OnRecv(body) ==
  LET i == body[1][1]
  IN  \/ /\ Decrypts(body)
         /\ HandOn(i - 1,
                   [msg |-> i - 1, data |-> Unpad(Pad(frames[i].data))])
      \/ ~Decrypts(body) /\ Garbled
      \/ ~Decrypts(body) /\ WholeBlocks(Len(body)) /\ HandOnGarbage

(* Mutant of ShortBody: the loop goes on with the next header. *)
ShortBodyIgnored ==
  /\ arrived # <<>> /\ Len(arrived) < size
  /\ rpc' = "header"
  /\ UNCHANGED <<size, key, got, events, fault>>

(* Less than the body has arrived (EAGAIN where there is nothing). *)
ShortBody ==
  /\ size > 0 /\ Len(arrived) < size /\ ~EndOfStream
  /\ GiveUp

(* The serve loop, the body, after the sleep; a read of no bytes returns 0 *)
(* as at the end of the stream.                                            *)
BodyRead ==
  /\ Running /\ rpc = "body"
  /\ arrived' = SubSeq(arrived, Least(size, Len(arrived)) + 1, Len(arrived))
  /\ \/ size = 0 /\ Hangup
     \/ size > 0 /\ EndOfStream /\ Hangup
     \/ ShortBody
     \/ /\ size > 0 /\ Len(arrived) >= size
        /\ OnRecv(SubSeq(arrived, 1, size))
  /\ UNCHANGED <<sender, flight>>

-----------------------------------------------------------------------------
(* _cdtp_event_thread: the application is called. *)
Call ==
  /\ Running
  /\ \E event \in running :
       /\ running' = running \ {event}
       /\ handled' = handled \cup {event}
  /\ UNCHANGED <<sender, wire, receiver, fault>>

Receive == KeyHeader \/ KeyBody \/ Header \/ BodyRead

Next ==
  \/ SendKey \/ (\E n \in Sizes : Send(n)) \/ Close
  \/ Deliver \/ Reset
  \/ Receive \/ Call

(* The network delivers or resets; threads inside the library run. *)
Fairness == WF_vars(Deliver) /\ WF_vars(Receive) /\ WF_vars(Call)

SafeSpec == Init /\ [][Next]_vars
Spec == SafeSpec /\ Fairness

-----------------------------------------------------------------------------
(* Types of the variables. *)
TypeOK ==
  /\ frames \in Seq([data : Payloads \cup {SessionKey}, put : Nat])
  /\ Len(frames) <= MaxMsgs + 1
  /\ \A i \in DOMAIN frames : frames[i].put \in 1..FrameSize(i)
  /\ link \in {"open", "fin", "reset"}
  /\ flight \in Seq(Nat \X Nat) /\ arrived \in Seq(Nat \X Nat)
  /\ Len(flight) + Len(arrived) <= Buffer
  /\ rpc \in {"key_header", "key_body", "header", "body", "ended", "failed"}
  /\ size \in Nat /\ Fits(size)
  /\ key \in {<<>>, SessionKey, Garbage}
  /\ got \in Seq(0..MaxMsgs)
  /\ running \cap handled = {}
  /\ fault \in {"none", "garbled", "wild_size"}

(* crypto.c allocates p + Block - 1 bytes for what the cipher makes of p:  *)
(* that is enough only because padded data never fill whole blocks.        *)
BuffersFit ==
  \A i \in DOMAIN frames :
    LET p == PadSize(Len(frames[i].data)) IN CipherSize(p) <= CipherRoom(p)

Unread == arrived \o flight

(* Garbage has been taken for a plaintext. *)
Astray == \E k \in DOMAIN got : got[k] = 0

NextFrame == IF rpc \in {"key_header", "key_body"} THEN 1 ELSE Len(got) + 2

(* Bytes as they were written, none left out. *)
Written(byte) ==
  byte[1] \in 1..Len(frames) /\ byte[2] \in 1..frames[byte[1]].put

Follows(byte, last) ==
  \/ byte = <<last[1], last[2] + 1>>
  \/ byte = <<last[1] + 1, 1>> /\ last[2] = frames[last[1]].put

Unbroken(bytes) ==
  /\ \A k \in DOMAIN bytes : Written(bytes[k])
  /\ \A k \in 1..(Len(bytes) - 1) : Follows(bytes[k + 1], bytes[k])

LastWritten == <<Len(frames), frames[Len(frames)].put>>

(* The place the loop has in the stream: between messages, the next frame; *)
(* in a message, at most LenSize bytes further, never the body of a later  *)
(* frame, and the body of this one only if msg_size is its size.           *)
InPlace ==
  /\ rpc \in {"key_header", "header"} =>
       IF Unread # <<>> THEN Unread[1] = <<NextFrame, 1>>
       ELSE link # "reset" => Len(frames) = NextFrame - 1
  /\ rpc \in {"key_body", "body"} /\ Unread # <<>> =>
       \/ Unread[1] = <<NextFrame, LenSize + 1>> /\ size = BodySize(NextFrame)
       \/ Unread[1][1] = NextFrame /\ Unread[1][2] \in 2..LenSize
       \/ Unread[1][1] > NextFrame /\ Unread[1][2] \in 1..LenSize
  /\ rpc \in {"header", "body"} => key = SessionKey

(* The bytes that are not read are those that were written last, unless    *)
(* the connection is lost; and the loop keeps its place in them, whatever  *)
(* was written, short or not, and however it arrived, as long as no body   *)
(* that was misread has happened to decrypt (server.c 380-406).            *)
InStep ==
  Running =>
  /\ Unbroken(Unread)
  /\ link # "reset" /\ Unread # <<>> => Unread[Len(Unread)] = LastWritten
  /\ ~Astray => InPlace

(* Nothing past a hole: once a send() was cut short, which neither side    *)
(* notices (client.c 608, server.c 884), no later message is handed on,    *)
(* unless garbage was handed on first; and never one that was itself cut.  *)
NothingPastAHole ==
  \A k \in DOMAIN got :
    /\ (\A j \in 1..k : got[j] # 0) => \A i \in 1..(got[k] + 1) : Whole(i)
    /\ got[k] # 0 => Whole(got[k] + 1)

Over == rpc \in {"ended", "failed"}
Taken(i) == \E k \in DOMAIN got : got[k] = i
Unhandled(i) == \E event \in running : event.msg = i

(* The connection implements the channel. *)
Ch == INSTANCE Channel WITH
  accepted <- [i \in 1..(IF frames = <<>> THEN 0 ELSE Len(frames) - 1) |->
                 frames[i + 1].data],
  taken <- got,
  over <- Over \/ ~Running

ImplementsChannel == Ch!Spec

(* Misread as a part of a body that has decrypted to garbage. *)
Swallowed(i) ==
  Astray /\ ~Taken(i) /\ \A k \in DOMAIN Unread : Unread[k][1] # i + 1

(* A message that was accepted is handed to the application, or lost with  *)
(* a thread that could not be started, or the receiver has given up, or    *)
(* has read it as garbage; it does not wait for ever, even for the rest of *)
(* a frame cut short.                                                      *)
Delivered ==
  \A i \in 1..MaxMsgs :
    (Len(frames) > i) ~>
      \/ Taken(i) /\ ~Unhandled(i)
      \/ Over /\ ~Taken(i)
      \/ Swallowed(i)
      \/ ~Running

(* server.c 409: "Wait in case the message is sent in multiple chunks": a  *)
(* message that was written whole is not misread, whatever the pieces it   *)
(* arrives in.  It is when a piece ends inside the header: size_buffer is  *)
(* decoded though read() did not fill it, and the rest of the header is    *)
(* read as the body (server.c 380-412), with every byte there in time.     *)
ChunksAreJoined ==
  (key = SessionKey /\ \A i \in DOMAIN frames : Whole(i)) =>
    fault # "garbled" /\ ~Astray
=============================================================================
