---------------------------- MODULE ClientProofs ----------------------------
(***************************************************************************)
(* Proofs about Client for any set of application threads and any number   *)
(* of messages: type correctness, then the inductive invariant Inv behind  *)
(* DoneMeansDown, OneReaper, ToldWhenDown and SilentAfterEnd.              *)
(***************************************************************************)
EXTENDS Client, TLAPS

(* The steps of a connect call whose connect() succeeded, and of one that  *)
(* may still succeed.                                                      *)
LinkSteps == {"c_flag", "c_block", "k_send", "k_store", "c_spawn",
              "c_assign"} \cup KeyReads
Connecting == LinkSteps \cup {"c_dial"}

(* From the server's key to the handle thread.                             *)
KeySteps == {"k_send", "k_store", "c_spawn"}

(* A socket that is not up yet belongs to a client nothing has happened to.*)
FreshSocket ==
  /\ fd \in {"new", "dialing"} =>
       /\ ~connected /\ ~done
       /\ pc[H] = "none"
       /\ \A t \in Threads : pc[t] \notin DiscSteps \cup LinkSteps
  /\ fd = "new" => \A t \in Threads : pc[t] # "c_dial"

(* The kernel lets one connect call through, unless two have crossed.      *)
OneConnector ==
  ~crossed => \A t, v \in Users :
    pc[t] \in Connecting /\ pc[v] \in Connecting => t = v

(* When connected is about to be set, no disconnect can be under way.      *)
FlagComing ==
  ~crossed => \A t \in Users : pc[t] \in {"c_dial", "c_flag"} =>
    /\ ~connected /\ ~done /\ pc[H] = "none"
    /\ \A v \in Threads : pc[v] \notin DiscSteps

(* Past its first step a disconnect has taken connected down for good.     *)
Down ==
  ~crossed =>
    /\ done => ~connected
    /\ \A t \in Threads : pc[t] \in DiscSteps \ {"d_flag"} => ~connected
    /\ pc[H] = "h_event" \/ discs > 0 => ~connected

(* The server's key comes once, and who has read it, and nobody else,      *)
(* starts the handle thread, even when two connects have crossed.          *)
HasKey(w) == \E i \in 1..Len(w) : w[i] = "kbody"
OneKey(w) ==
  \A i, j \in 1..Len(w) : w[i] = "kbody" /\ w[j] = "kbody" => i = j

OneExchange ==
  /\ OneKey(wire)
  /\ peer = "hello" \/ HasKey(wire) =>
       pc[H] = "none" /\ \A t \in Users : pc[t] \notin KeySteps
  /\ peer = "hello" => ~HasKey(wire)
  /\ \A t, v \in Users : pc[t] \in KeySteps /\ pc[v] \in KeySteps => t = v
  /\ \A t \in Users : pc[t] \in KeySteps => pc[H] = "none"

(* Only the thread that closed the socket reaps the handle thread.         *)
Reaping ==
  /\ reaps <= 1
  /\ fd # "closed" => /\ reaps = 0
                      /\ \A t \in Threads : pc[t] # "d_reap"
  /\ Running => \A t \in Threads : pc[t] = "d_reap" =>
                  /\ reaps = 0
                  /\ \A v \in Threads : pc[v] = "d_reap" => v = t

(* Events end with the handle thread.                                      *)
Ended ==
  /\ discs <= 1
  /\ joined \/ discs > 0 => pc[H] = "exit"

Inv == /\ TypeOK /\ FreshSocket /\ OneConnector /\ FlagComing
       /\ Down /\ OneExchange /\ Reaping /\ Ended

-----------------------------------------------------------------------------
USE ThreadsAssumption, MaxMsgsAssumption DEF Threads, Running

(* TypeOK in four parts, each within the reach of one prover call.         *)
FlagTypes ==
  /\ connected \in BOOLEAN /\ done \in BOOLEAN
  /\ key \in BOOLEAN /\ handle \in BOOLEAN /\ freed \in BOOLEAN
  /\ joined \in BOOLEAN /\ crossed \in BOOLEAN /\ blocking \in BOOLEAN

PcTypes ==
  /\ pc \in [Threads -> UserSteps \cup HandleSteps]
  /\ pc[H] \in HandleSteps /\ \A u \in Users : pc[u] \in UserSteps

DataTypes ==
  /\ fd \in {"new", "dialing", "up", "closed"}
  /\ peer \in Peers
  /\ sent \in 0..MaxMsgs
  /\ recvs \in Nat /\ discs \in Nat /\ reaps \in Nat
  /\ fault \in Faults

WireTypes == wire \in Seq(Chunks) /\ waiting \subseteq Threads

(* The parts are TypeOK. *)
LEMMA TypeParts == TypeOK <=> FlagTypes /\ PcTypes /\ DataTypes /\ WireTypes
  BY DEF TypeOK, FlagTypes, PcTypes, DataTypes, WireTypes

(* What reads leave is some of what there was, and the key only if it was  *)
(* there and has not been read.                                            *)
LEMMA Reading ==
  ASSUME NEW w \in Seq(Chunks), w # <<>>
  PROVE  /\ Tail(w) \in Seq(Chunks) /\ Past(w) \in Seq(Chunks)
         /\ HasKey(Tail(w)) => HasKey(w)
         /\ HasKey(Past(w)) => HasKey(w)
         /\ OneKey(w) => OneKey(Tail(w)) /\ OneKey(Past(w))
         /\ OneKey(w) /\ Head(w) = "kbody" => ~HasKey(Tail(w))
<1>1. /\ Tail(w) \in Seq(Chunks) /\ Len(Tail(w)) = Len(w) - 1
      /\ \A i \in 1..Len(Tail(w)) : Tail(w)[i] = w[i + 1]
      /\ Len(w) \in Nat /\ Len(w) > 0 /\ Head(w) = w[1]
  OBVIOUS
<1>2. /\ HasKey(Tail(w)) => HasKey(w)
      /\ OneKey(w) => OneKey(Tail(w))
      /\ OneKey(w) /\ Head(w) = "kbody" => ~HasKey(Tail(w))
  BY <1>1 DEF HasKey, OneKey
<1>3. CASE Head(w) \in {"khead", "header"}
  BY <1>1, <1>2, <1>3 DEF Past
<1>4. CASE Head(w) \notin {"khead", "header"}
  <2> DEFINE p == <<"rest">> \o Tail(w)
  <2>1. Past(w) = p
    BY <1>4 DEF Past
  <2>2. /\ p \in Seq(Chunks) /\ Len(p) = Len(w)
        /\ p[1] = "rest" /\ \A i \in 2..Len(p) : p[i] = w[i]
    <3>1. <<"rest">> \in Seq(Chunks) /\ Len(<<"rest">>) = 1
      BY DEF Chunks
    <3>2. p \in Seq(Chunks) /\ Len(p) = 1 + Len(Tail(w))
      BY <1>1, <3>1
    <3>3. \A i \in 2..Len(p) : p[i] = Tail(w)[i - 1]
      BY <1>1, <3>1, <3>2
    <3> QED
      BY <1>1, <3>1, <3>2, <3>3
  <2>3. \A i \in 1..Len(p) : p[i] = "kbody" => w[i] = "kbody"
    BY <2>2
  <2> HIDE DEF p
  <2> QED
    BY <1>1, <1>2, <2>1, <2>2, <2>3 DEF HasKey, OneKey
<1> QED
  BY <1>3, <1>4

(* Two sequences, one after the other. *)
LEMMA Joining ==
  ASSUME NEW v \in Seq(Chunks), NEW w \in Seq(Chunks)
  PROVE  /\ v \o w \in Seq(Chunks) /\ Len(v \o w) = Len(v) + Len(w)
         /\ \A i \in 1..Len(v \o w) :
              (v \o w)[i] = IF i <= Len(v) THEN v[i] ELSE w[i - Len(v)]
  OBVIOUS

(* What the peer writes: the key once, and no key with a message. *)
LEMMA Writing ==
  ASSUME NEW w \in Seq(Chunks)
  PROVE  /\ w \o <<"khead", "kbody">> \in Seq(Chunks)
         /\ ~HasKey(w) => OneKey(w \o <<"khead", "kbody">>)
         /\ \A c \in {"header", "body"} :
              /\ w \o <<c>> \in Seq(Chunks)
              /\ HasKey(w \o <<c>>) => HasKey(w)
              /\ OneKey(w) => OneKey(w \o <<c>>)
<1>1. Len(w) \in Nat
  OBVIOUS
<1>2. /\ w \o <<"khead", "kbody">> \in Seq(Chunks)
      /\ ~HasKey(w) => OneKey(w \o <<"khead", "kbody">>)
  <2> DEFINE k == <<"khead", "kbody">>
  <2> DEFINE v == w \o k
  <2>1. k \in Seq(Chunks) /\ Len(k) = 2 /\ k[1] = "khead" /\ k[2] = "kbody"
    BY DEF Chunks
  <2> HIDE DEF k
  <2>2. /\ v \in Seq(Chunks) /\ Len(v) = Len(w) + 2
        /\ \A i \in 1..Len(v) :
             v[i] = IF i <= Len(w) THEN w[i] ELSE k[i - Len(w)]
    BY <2>1, Joining
  <2>4. v[Len(w) + 1] = "khead" /\ v[Len(w) + 2] = "kbody"
    BY <1>1, <2>1, <2>2
  <2> HIDE DEF v
  <2>5. ~HasKey(w) => OneKey(v)
    BY <1>1, <2>2, <2>4 DEF HasKey, OneKey
  <2> QED
    BY <2>2, <2>5 DEF v, k
<1>3. ASSUME NEW c \in {"header", "body"}
      PROVE  /\ w \o <<c>> \in Seq(Chunks)
             /\ HasKey(w \o <<c>>) => HasKey(w)
             /\ OneKey(w) => OneKey(w \o <<c>>)
  <2> DEFINE v == w \o <<c>>
  <2>1. <<c>> \in Seq(Chunks) /\ Len(<<c>>) = 1
    BY DEF Chunks
  <2>2. v \in Seq(Chunks) /\ Len(v) = Len(w) + 1
    BY <2>1
  <2>3. /\ \A i \in 1..Len(w) : v[i] = w[i]
        /\ v[Len(w) + 1] = c
    BY <1>1, <2>1, <2>2
  <2> HIDE DEF v
  <2>4. \A i \in 1..Len(v) :
          v[i] = "kbody" => i \in 1..Len(w) /\ w[i] = "kbody"
    BY <1>1, <2>2, <2>3
  <2>5. (HasKey(v) => HasKey(w)) /\ (OneKey(w) => OneKey(v))
    BY <2>4 DEF HasKey, OneKey
  <2> QED
    BY <2>2, <2>5 DEF v
<1> QED
  BY <1>2, <1>3

(* Init establishes the types. *)
LEMMA InitTypes == Init => TypeOK
<1> SUFFICES ASSUME Init PROVE TypeOK
  OBVIOUS
<1>1. FlagTypes
  BY DEF Init, FlagTypes
<1>2. PcTypes
  BY DEF Init, PcTypes, UserSteps, HandleSteps
<1>3. DataTypes
  BY DEF Init, DataTypes, Peers, PeerOpen, Faults
<1>4. WireTypes
  BY DEF Init, WireTypes
<1> QED
  BY <1>1, <1>2, <1>3, <1>4, TypeParts

(* A call an application thread begins keeps the types. *)
LEMMA CallTypes ==
  ASSUME TypeOK, NEW u \in Users, Call(u) PROVE TypeOK'
<1> USE DEF Call, ConnectDone, DiscCheck, SendCheck, Free, Back, At, Goto,
           flags, object, mode, far, near, link, events, ends
<1>0. FlagTypes /\ PcTypes /\ DataTypes /\ WireTypes
  BY TypeParts
<1>1. FlagTypes'
  BY <1>0 DEF FlagTypes
<1>2. PcTypes'
  BY <1>0 DEF PcTypes, UserSteps, HandleSteps, ConnSteps, KeyReads, DiscSteps
<1>3. DataTypes'
  BY <1>0 DEF DataTypes, Faults
<1>4. WireTypes'
  BY <1>0 DEF WireTypes
<1> QED
  BY <1>1, <1>2, <1>3, <1>4
     DEF TypeOK, FlagTypes, PcTypes, DataTypes, WireTypes

(* So does every step of connect and send, and the end of a join. *)
LEMMA UserTypes ==
  ASSUME TypeOK, NEW u \in Users, UserStep(u) PROVE TypeOK'
<1> USE DEF UserStep, ConnectConnected, ConnectCall, ConnectReturn,
           ConnectFlag, ConnectBlock, KeyHeader, KeyBody, KeyOther,
           Wait, Return, KeySend, KeyStore, Spawn, Assign, SendKey, SendWire,
           SendOn, DiscJoin, At, Goto, flags, object, mode, far, near, link,
           events, ends
<1>0. FlagTypes /\ PcTypes /\ DataTypes /\ WireTypes
  BY TypeParts
<1>1. FlagTypes'
  BY <1>0 DEF FlagTypes
<1>2. PcTypes'
  BY <1>0 DEF PcTypes, UserSteps, HandleSteps, ConnSteps, KeyReads, DiscSteps
<1>3. DataTypes'
  <2>1. peer' \in Peers
    BY <1>0 DEF DataTypes, Peers, PeerOpen, PeerClosed
  <2>2. fd' \in {"new", "dialing", "up", "closed"} /\ fault' \in Faults
    BY <1>0 DEF DataTypes, Faults
  <2>3. UNCHANGED <<sent, recvs, discs, reaps>>
    OBVIOUS
  <2> QED
    BY <1>0, <2>1, <2>2, <2>3 DEF DataTypes
<1>4. WireTypes'
  BY <1>0, Reading DEF WireTypes, Got
<1> QED
  BY <1>1, <1>2, <1>3, <1>4
     DEF TypeOK, FlagTypes, PcTypes, DataTypes, WireTypes

(* So does every step of a disconnect. *)
LEMMA DiscTypes ==
  ASSUME TypeOK, NEW t \in Threads, DiscStep(t) PROVE TypeOK'
<1> USE DEF DiscStep, DiscFlag, DiscDone, DiscClose, DiscReap, UseAfterFree,
           Back, At, Goto, flags, object, mode, far, near, link, events, ends
<1>0. FlagTypes /\ PcTypes /\ DataTypes /\ WireTypes
  BY TypeParts
<1>1. FlagTypes'
  BY <1>0 DEF FlagTypes
<1>2. PcTypes'
  BY <1>0 DEF PcTypes, UserSteps, HandleSteps, ConnSteps, KeyReads, DiscSteps
<1>3. DataTypes'
  BY <1>0 DEF DataTypes, Faults
<1>4. WireTypes'
  BY <1>0 DEF WireTypes
<1> QED
  BY <1>1, <1>2, <1>3, <1>4
     DEF TypeOK, FlagTypes, PcTypes, DataTypes, WireTypes

(* So does every step of the handle thread. *)
LEMMA HandleTypes ==
  ASSUME TypeOK, HandleStep PROVE TypeOK'
<1> USE DEF HandleStep, HandleBlock, HandleLoop, HandleRead, HandleCheck,
           HandleBody, HandleRecv, HandleEvent, DiscCheck, Wait, Return,
           Back, At, Goto,
           flags, object, mode, far, near, link, events, ends
<1>0. FlagTypes /\ PcTypes /\ DataTypes /\ WireTypes
  BY TypeParts
<1>1. FlagTypes'
  BY <1>0 DEF FlagTypes
<1>2. PcTypes'
  BY <1>0 DEF PcTypes, UserSteps, HandleSteps, ConnSteps, KeyReads, DiscSteps
<1>3. DataTypes'
  BY <1>0 DEF DataTypes, Faults
<1>4. WireTypes'
  BY <1>0, Reading DEF WireTypes, Got
<1> QED
  BY <1>1, <1>2, <1>3, <1>4
     DEF TypeOK, FlagTypes, PcTypes, DataTypes, WireTypes

(* So does every step of the peer. *)
LEMMA PeerTypes ==
  ASSUME TypeOK, PeerStep PROVE TypeOK'
<1> USE DEF PeerStep, PeerHello, PeerHeader, PeerBody, PeerLeave, PeerSends,
           flags, object, mode, far, near, link, events, ends
<1>0. FlagTypes /\ PcTypes /\ DataTypes /\ WireTypes
  BY TypeParts
<1>1. FlagTypes'
  BY <1>0 DEF FlagTypes
<1>2. PcTypes'
  BY <1>0 DEF PcTypes, UserSteps, HandleSteps, ConnSteps, KeyReads, DiscSteps
<1>3. DataTypes'
  <2>1. peer' \in Peers
    BY <1>0 DEF DataTypes, Peers, PeerOpen, PeerClosed
  <2>4. fd' = fd /\ fault' = fault
    OBVIOUS
  <2>2. sent' \in 0..MaxMsgs
    BY <1>0 DEF DataTypes
  <2>3. recvs' \in Nat /\ discs' \in Nat /\ reaps' \in Nat
    BY <1>0 DEF DataTypes
  <2> QED
    BY <1>0, <2>1, <2>2, <2>3, <2>4 DEF DataTypes
<1>4. WireTypes'
  BY <1>0, Writing DEF WireTypes
<1> QED
  BY <1>1, <1>2, <1>3, <1>4
     DEF TypeOK, FlagTypes, PcTypes, DataTypes, WireTypes

(* So does the network. *)
LEMMA DialedTypes ==
  ASSUME TypeOK, Dialed PROVE TypeOK'
<1> USE DEF Dialed, flags, object, mode, far, near, link, events, ends
<1>0. FlagTypes /\ PcTypes /\ DataTypes /\ WireTypes
  BY TypeParts
<1>1. FlagTypes'
  BY <1>0 DEF FlagTypes
<1>2. PcTypes'
  <2>1. "idle" \in UserSteps \cup HandleSteps /\ pc[H] # "c_dial"
    BY <1>0 DEF PcTypes, UserSteps, HandleSteps, DiscSteps
  <2> QED
    BY <1>0, <2>1 DEF PcTypes, UserSteps
<1>3. DataTypes'
  BY <1>0 DEF DataTypes
<1>4. WireTypes'
  BY <1>0 DEF WireTypes
<1> QED
  BY <1>1, <1>2, <1>3, <1>4
     DEF TypeOK, FlagTypes, PcTypes, DataTypes, WireTypes

(* Every variable keeps its type (all of client.c).                        *)
THEOREM TypeCorrect == SafeSpec => []TypeOK
<1>1. TypeOK /\ UNCHANGED vars => TypeOK'
  BY DEF TypeOK, vars, flags, object, mode, far, near, link, events, ends
<1>2. TypeOK /\ [Next]_vars => TypeOK'
  BY <1>1, CallTypes, UserTypes, DiscTypes, HandleTypes, PeerTypes, DialedTypes
     DEF Next
<1> QED
  BY InitTypes, <1>2, PTL DEF SafeSpec

-----------------------------------------------------------------------------
(* The invariant holds of a new client. *)
LEMMA InitInv == Init => Inv
<1> SUFFICES ASSUME Init PROVE Inv
  OBVIOUS
<1>1. TypeOK
  BY InitTypes
<1>2. FreshSocket /\ OneConnector /\ FlagComing
  BY DEF Init, Connecting, LinkSteps, KeyReads, DiscSteps, FreshSocket,
         OneConnector, FlagComing
<1>7. OneExchange
  BY DEF Init, OneExchange, OneKey, HasKey, KeySteps
<1>3. Down
  BY DEF Init, DiscSteps, Down
<1>4. Reaping
  <2>1. \A t \in Threads : pc[t] # "d_reap"
    BY DEF Init
  <2>2. reaps = 0
    BY DEF Init
  <2> QED
    BY <2>1, <2>2 DEF Reaping
<1>5. Ended
  BY DEF Init, Ended
<1> QED
  BY <1>1, <1>2, <1>3, <1>4, <1>5, <1>7 DEF Inv

(* Beginning a call keeps the invariant. *)
LEMMA CallInv ==
  ASSUME Inv, NEW u \in Users, Call(u) PROVE Inv'
<1> USE DEF Call, ConnectDone, DiscCheck, SendCheck, Free, Back, At, Goto,
           flags, object, mode, far, near, link, events, ends,
           KeySteps, Connecting, LinkSteps, KeyReads, DiscSteps
<1>0. TypeOK'
  BY CallTypes DEF Inv
<1>p. PcTypes /\ DataTypes
  BY TypeParts DEF Inv
<1>1. FreshSocket'
  BY <1>p DEF Inv, FreshSocket, PcTypes
<1>2. OneConnector'
  BY <1>p DEF Inv, OneConnector, PcTypes
<1>3. FlagComing'
  BY <1>p DEF Inv, FlagComing, PcTypes
<1>4. Down'
  BY <1>p DEF Inv, Down, PcTypes
<1>5. Reaping'
  BY <1>p DEF Inv, Reaping, PcTypes
<1>6. Ended'
  BY <1>p DEF Inv, Ended, PcTypes
<1>7. OneExchange'
  BY <1>p DEF Inv, OneExchange, PcTypes
<1> QED
  BY <1>0, <1>1, <1>2, <1>3, <1>4, <1>5, <1>6, <1>7 DEF Inv

(* Where a step of connect or send, or the end of a join, can take the     *)
(* threads, and what it takes from the wire.                               *)
LEMMA UserMoves ==
  ASSUME TypeOK, NEW u \in Users, UserStep(u)
  PROVE  /\ \A t \in Threads \ {u, H} : pc'[t] = pc[t]
         /\ \/ pc'[H] = pc[H]
            \/ pc[u] = "c_spawn" /\ pc'[u] = "c_assign" /\ pc'[H] = "h_block"
         /\ pc'[u] # pc[u] /\ pc'[u] \in Connecting =>
              \/ pc[u] \in Connecting
              \/ /\ pc[u] = "c_connect" /\ fd \in {"new", "dialing"}
                 /\ pc'[u] = "c_dial" /\ (fd = "dialing" => crossed')
         /\ pc'[u] \in LinkSteps =>
              \/ pc[u] \in LinkSteps
              \/ pc[u] = "c_dial" /\ fd \in {"up", "closed"}
         /\ pc'[u] = "c_flag" => pc[u] \in {"c_flag", "c_dial"}
         /\ pc'[u] = "c_dial" => pc[u] \in {"c_dial", "c_connect"}
         /\ pc'[u] \in DiscSteps => pc[u] = pc'[u]
         /\ pc'[u] \in KeySteps =>
              \/ pc[u] \in KeySteps
              \/ wire # <<>> /\ Head(wire) = "kbody" /\ wire' = Tail(wire)
         /\ UNCHANGED <<done, discs, reaps>>
         /\ \/ connected' = connected
            \/ pc[u] = "c_flag" /\ pc'[u] = "c_block" /\ pc'[H] = pc[H]
         /\ \/ fd' = fd
            \/ fd = "new" /\ fd' = "dialing" /\ pc'[u] = "c_dial"
         /\ crossed => crossed'
         /\ joined' => joined \/ (pc[u] = "d_join" /\ pc[H] = "exit")
         /\ peer' = "hello" => peer = "hello"
         /\ \/ wire' = wire
            \/ wire # <<>> /\ wire' \in {Tail(wire), Past(wire)}
         /\ fault' = "none" => fault = "none"
<1> USE DEF At, Goto, flags, object, mode, far, near, link, events, ends,
           KeySteps, Connecting, LinkSteps, KeyReads, DiscSteps
<1>p. PcTypes
  BY TypeParts
<1>1. CASE ConnectConnected(u)
  BY <1>1, <1>p DEF ConnectConnected, PcTypes
<1>2. CASE ConnectCall(u)
  BY <1>2, <1>p DEF ConnectCall, PcTypes
<1>3. CASE ConnectReturn(u)
  BY <1>3, <1>p DEF ConnectReturn, PcTypes
<1>4. CASE ConnectFlag(u)
  BY <1>4, <1>p DEF ConnectFlag, PcTypes
<1>5. CASE ConnectBlock(u)
  BY <1>5, <1>p DEF ConnectBlock, PcTypes
<1>6. CASE KeyHeader(u)
  BY <1>6, <1>p DEF KeyHeader, Wait, Return, Got, PcTypes
<1>7. CASE KeyBody(u)
  BY <1>7, <1>p DEF KeyBody, Wait, Return, Got, PcTypes
<1>8. CASE KeyOther(u)
  BY <1>8, <1>p DEF KeyOther, Wait, Return, Got, PcTypes
<1>9. CASE KeySend(u)
  BY <1>9, <1>p DEF KeySend, SendOn, PeerOpen, PcTypes
<1>10. CASE KeyStore(u)
  BY <1>10, <1>p DEF KeyStore, PcTypes
<1>11. CASE Spawn(u)
  BY <1>11, <1>p DEF Spawn, PcTypes
<1>12. CASE Assign(u)
  BY <1>12, <1>p DEF Assign, PcTypes
<1>13. CASE SendKey(u)
  BY <1>13, <1>p DEF SendKey, PcTypes
<1>14. CASE SendWire(u)
  BY <1>14, <1>p DEF SendWire, SendOn, PeerOpen, PcTypes
<1>15. CASE DiscJoin(u)
  BY <1>15, <1>p DEF DiscJoin, PcTypes
<1> QED
  BY <1>1, <1>2, <1>3, <1>4, <1>5, <1>6, <1>7, <1>8, <1>9, <1>10, <1>11,
     <1>12, <1>13, <1>14, <1>15
     DEF UserStep

(* The steps of connect and send, and the end of a join, keep it. *)
LEMMA UserInv ==
  ASSUME Inv, NEW u \in Users, UserStep(u) PROVE Inv'
<1> USE DEF KeySteps, Connecting, LinkSteps, KeyReads, DiscSteps
<1>0. TypeOK'
  BY UserTypes DEF Inv
<1>p. PcTypes /\ DataTypes
  BY TypeParts DEF Inv
<1>m. TypeOK /\ wire \in Seq(Chunks) /\ u \in Threads /\ u # H
  BY DEF Inv, TypeOK
<1>n. \A t \in Threads : t # u /\ t # H => pc'[t] = pc[t]
  BY <1>m, UserMoves
<1>1. FreshSocket'
  <2> SUFFICES ASSUME fd' \in {"new", "dialing"}
               PROVE  /\ ~connected' /\ ~done' /\ pc'[H] = "none"
                      /\ \A t \in Threads :
                           pc'[t] \notin DiscSteps \cup LinkSteps
                      /\ fd' = "new" => \A t \in Threads : pc'[t] # "c_dial"
    BY DEF FreshSocket
  <2>1. fd \in {"new", "dialing"} /\ (fd' = "new" => fd = "new")
    BY <1>m, UserMoves
  <2>2. /\ ~connected /\ ~done /\ pc[H] = "none"
        /\ \A t \in Threads : pc[t] \notin DiscSteps \cup LinkSteps
        /\ fd = "new" => \A t \in Threads : pc[t] # "c_dial"
    BY <2>1 DEF Inv, FreshSocket
  <2>3. ~connected' /\ ~done' /\ pc'[H] = "none"
    BY <1>m, <2>2, UserMoves
  <2>4. pc'[u] \notin DiscSteps \cup LinkSteps
    BY <1>m, <2>1, <2>2, UserMoves
  <2>5. fd' = "new" => pc'[u] # "c_dial"
    BY <1>m, <1>p, <2>1, <2>2
       DEF UserStep, ConnectConnected, ConnectCall, ConnectReturn, ConnectFlag,
           ConnectBlock, KeyHeader, KeyBody, KeyOther, Wait, KeySend, KeyStore,
           Spawn, Assign, SendKey, SendWire, SendOn, DiscJoin, At, Goto,
           PcTypes
  <2> QED
    BY <1>n, <2>1, <2>2, <2>3, <2>4, <2>5
<1>2. OneConnector'
  <2> SUFFICES ASSUME ~crossed'
               PROVE  \A t, v \in Users : pc'[t] \in Connecting /\
                        pc'[v] \in Connecting => t = v
    BY DEF OneConnector
  <2>1. ~crossed
    BY <1>m, UserMoves
  <2>2. CASE pc[u] \in Connecting \/ pc'[u] \notin Connecting
    BY <1>n, <2>1, <2>2 DEF Inv, OneConnector
  <2>3. CASE pc[u] \notin Connecting /\ pc'[u] \in Connecting
    <3>1. fd = "new"
      BY <1>m, <2>3, UserMoves
    <3>2. \A t \in Users : pc[t] \notin Connecting
      BY <3>1 DEF Inv, FreshSocket
    <3> QED
      BY <1>n, <3>2
  <2> QED
    BY <2>2, <2>3
<1>3. FlagComing'
  <2> SUFFICES ASSUME ~crossed', NEW t \in Users,
                      pc'[t] \in {"c_dial", "c_flag"}
               PROVE  /\ ~connected' /\ ~done' /\ pc'[H] = "none"
                      /\ \A v \in Threads : pc'[v] \notin DiscSteps
    BY DEF FlagComing
  <2>1. ~crossed /\ UNCHANGED done
    BY <1>m, UserMoves
  <2>2. \A v \in Threads : pc'[v] \in DiscSteps => pc[v] \in DiscSteps
    BY <1>m, <1>n, UserMoves
  <2>3. CASE pc[t] \in {"c_dial", "c_flag"}
    <3>1. /\ ~connected /\ ~done /\ pc[H] = "none"
          /\ \A v \in Threads : pc[v] \notin DiscSteps
      BY <2>1, <2>3 DEF Inv, FlagComing
    <3>2. pc[u] \in {"c_flag", "c_spawn"} => u = t
      BY <2>1, <2>3 DEF Inv, OneConnector
    <3>3. pc[u] # "c_spawn" /\ (pc[u] = "c_flag" => pc'[u] # "c_block")
      BY <2>3, <3>2
    <3>4. ~connected' /\ pc'[H] = "none"
      BY <1>m, <3>1, <3>3, UserMoves
    <3> QED
      BY <2>1, <2>2, <3>1, <3>4
  <2>4. CASE pc[t] \notin {"c_dial", "c_flag"}
    <3>1. t = u
      BY <1>n, <2>4
    <3>2. pc[u] = "c_connect" /\ pc'[u] = "c_dial" /\ fd = "new"
      BY <1>m, <2>1, <2>4, <3>1, UserMoves
    <3>3. /\ ~connected /\ ~done /\ pc[H] = "none"
          /\ \A v \in Threads : pc[v] \notin DiscSteps
      BY <3>2 DEF Inv, FreshSocket
    <3>4. ~connected' /\ pc'[H] = "none"
      BY <1>m, <3>2, <3>3, UserMoves
    <3> QED
      BY <2>1, <2>2, <3>3, <3>4
  <2> QED
    BY <2>3, <2>4
<1>4. Down'
  <2> SUFFICES ASSUME ~crossed'
               PROVE  /\ done' => ~connected'
                      /\ \A t \in Threads :
                           pc'[t] \in DiscSteps \ {"d_flag"} => ~connected'
                      /\ pc'[H] = "h_event" \/ discs' > 0 => ~connected'
    BY DEF Down
  <2>1. ~crossed /\ UNCHANGED <<done, discs>>
    BY <1>m, UserMoves
  <2>2. \A t \in Threads : pc'[t] \in DiscSteps => pc'[t] = pc[t]
    BY <1>m, <1>n, UserMoves
  <2>3. pc'[H] = "h_event" => pc[H] = "h_event"
    BY <1>m, UserMoves
  <2>4. CASE connected' = connected
    BY <2>1, <2>2, <2>3, <2>4 DEF Inv, Down
  <2>5. CASE pc[u] = "c_flag" /\ pc'[H] = pc[H]
    <3>1. /\ ~connected /\ ~done /\ pc[H] = "none"
          /\ \A v \in Threads : pc[v] \notin DiscSteps
      BY <2>1, <2>5 DEF Inv, FlagComing
    <3>2. ~(discs > 0)
      BY <3>1 DEF Inv, Ended
    <3> QED
      BY <2>1, <2>2, <2>3, <3>1, <3>2
  <2> QED
    BY <1>m, <2>4, <2>5, UserMoves
<1>5. Reaping'
  BY <1>p, <1>m, UserMoves DEF Inv, Reaping, PcTypes
<1>6. Ended'
  BY <1>p, <1>m, UserMoves DEF Inv, OneExchange, Ended, PcTypes
<1>7. OneExchange'
  <2>1. /\ OneKey(wire') /\ (HasKey(wire') => HasKey(wire))
        /\ wire # <<>> /\ Head(wire) = "kbody" /\ wire' = Tail(wire)
             => ~HasKey(wire')
        /\ wire # <<>> /\ Head(wire) = "kbody" => HasKey(wire)
    <3>1. wire # <<>> /\ Head(wire) = "kbody" => HasKey(wire)
      BY <1>m DEF HasKey
    <3> QED
      BY <1>m, <3>1, UserMoves, Reading DEF Inv, OneExchange
  <2>2. /\ pc'[u] \in KeySteps => pc[u] \in KeySteps \/ HasKey(wire)
        /\ pc'[u] \in KeySteps /\ pc[u] \notin KeySteps => ~HasKey(wire')
        /\ pc'[H] = pc[H] \/ (pc[u] = "c_spawn" /\ pc'[u] = "c_assign")
    BY <1>m, <2>1, UserMoves
  <2>3. peer' = "hello" => peer = "hello" /\ pc'[u] \notin KeySteps
    BY <1>m, <2>1, <2>2, UserMoves DEF Inv, OneExchange
  <2> QED
    BY <1>m, <2>1, <2>2, <2>3, UserMoves DEF Inv, OneExchange
<1> QED
  BY <1>0, <1>1, <1>2, <1>3, <1>4, <1>5, <1>6, <1>7 DEF Inv

(* The steps of a disconnect keep it. *)
LEMMA DiscInv ==
  ASSUME Inv, NEW t \in Threads, DiscStep(t) PROVE Inv'
<1> USE DEF DiscStep, DiscFlag, DiscDone, DiscClose, DiscReap, UseAfterFree,
           Back, At, Goto, flags, object, mode, far, near, link, events, ends,
           KeySteps, Connecting, LinkSteps, KeyReads, DiscSteps
<1>0. TypeOK'
  BY DiscTypes DEF Inv
<1>p. PcTypes /\ DataTypes
  BY TypeParts DEF Inv
<1>1. FreshSocket'
  BY DEF Inv, FreshSocket
<1>2. OneConnector'
  BY <1>p DEF Inv, OneConnector, PcTypes
<1>3. FlagComing'
  BY <1>p DEF Inv, FlagComing, PcTypes
<1>4. Down'
  BY DEF Inv, Down
<1>5. Reaping'
  BY <1>p DEF Inv, Reaping, PcTypes
<1>6. Ended'
  BY <1>p DEF Inv, Ended, PcTypes
<1>7. OneExchange'
  BY <1>p DEF Inv, OneExchange, PcTypes
<1> QED
  BY <1>0, <1>1, <1>2, <1>3, <1>4, <1>5, <1>6, <1>7 DEF Inv

(* The steps of the handle thread keep it. *)
LEMMA HandleInv ==
  ASSUME Inv, HandleStep PROVE Inv'
<1> USE DEF HandleStep, HandleBlock, HandleLoop, HandleRead, HandleCheck,
           HandleBody, HandleRecv, HandleEvent, DiscCheck, Wait, Return,
           Back, At, Goto,
           flags, object, mode, far, near, link, events, ends,
           KeySteps, Connecting, LinkSteps, KeyReads, DiscSteps
<1>0. TypeOK'
  BY HandleTypes DEF Inv
<1>p. PcTypes /\ DataTypes
  BY TypeParts DEF Inv
<1>1. FreshSocket'
  BY DEF Inv, FreshSocket
<1>2. OneConnector'
  BY <1>p DEF Inv, OneConnector, PcTypes
<1>3. FlagComing'
  BY <1>p DEF Inv, FlagComing, PcTypes
<1>4. Down'
  BY <1>p DEF Inv, Down, PcTypes
<1>5. Reaping'
  BY <1>p DEF Inv, Reaping, PcTypes
<1>6. Ended'
  BY <1>p DEF Inv, Ended, PcTypes, DataTypes
<1>7. OneExchange'
  <2>1. wire \in Seq(Chunks) /\ pc[H] # "none"
    BY DEF Inv, TypeOK
  <2>2. CASE UNCHANGED wire
    BY <1>p, <2>1, <2>2 DEF Inv, OneExchange, PcTypes
  <2>3. CASE wire' # wire
    BY <1>p, <2>1, <2>3, Reading DEF Inv, OneExchange, PcTypes, Got
  <2> QED
    BY <2>2, <2>3
<1> QED
  BY <1>0, <1>1, <1>2, <1>3, <1>4, <1>5, <1>6, <1>7 DEF Inv

(* The steps of the peer keep it. *)
LEMMA PeerInv ==
  ASSUME Inv, PeerStep PROVE Inv'
<1> USE DEF PeerStep, PeerHello, PeerHeader, PeerBody, PeerLeave, PeerSends,
           flags, object, mode, far, near, link, events, ends,
           KeySteps, Connecting, LinkSteps, KeyReads, DiscSteps
<1>0. TypeOK'
  BY PeerTypes DEF Inv
<1>p. PcTypes /\ DataTypes
  BY TypeParts DEF Inv
<1>1. FreshSocket'
  BY DEF Inv, FreshSocket
<1>2. OneConnector'
  BY DEF Inv, OneConnector
<1>3. FlagComing'
  BY DEF Inv, FlagComing
<1>4. Down'
  BY DEF Inv, Down
<1>5. Reaping'
  BY DEF Inv, Reaping
<1>6. Ended'
  BY DEF Inv, Ended
<1>7. OneExchange'
  <2>1. wire \in Seq(Chunks)
    BY DEF Inv, TypeOK
  <2> QED
    BY <2>1, Writing DEF Inv, OneExchange
<1> QED
  BY <1>0, <1>1, <1>2, <1>3, <1>4, <1>5, <1>6, <1>7 DEF Inv

(* The network keeps it. *)
LEMMA DialedInv ==
  ASSUME Inv, Dialed PROVE Inv'
<1> USE DEF Dialed, flags, object, mode, far, near, link, events, ends,
           KeySteps, Connecting, LinkSteps, KeyReads, DiscSteps
<1>0. TypeOK'
  BY DialedTypes DEF Inv
<1>p. /\ PcTypes /\ pc[H] # "c_dial"
      /\ \A t \in Threads : pc'[t] = pc[t] \/ pc'[t] = "idle"
      /\ pc'[H] = pc[H]
  <2>1. PcTypes /\ pc[H] # "c_dial"
    BY TypeParts DEF Inv, PcTypes, HandleSteps
  <2> QED
    BY <2>1
<1>1. FreshSocket'
  BY <1>p DEF Inv, FreshSocket, PcTypes
<1>2. OneConnector'
  BY <1>p DEF Inv, OneConnector
<1>3. FlagComing'
  BY <1>p DEF Inv, FlagComing
<1>4. Down'
  BY <1>p DEF Inv, Down
<1>5. Reaping'
  BY <1>p DEF Inv, Reaping
<1>6. Ended'
  BY <1>p DEF Inv, Ended
<1>7. OneExchange'
  BY <1>p DEF Inv, OneExchange
<1> QED
  BY <1>0, <1>1, <1>2, <1>3, <1>4, <1>5, <1>6, <1>7 DEF Inv

(* The invariant of the client, for any number of application threads.     *)
THEOREM Invariance == SafeSpec => []Inv
<1>1. Inv /\ UNCHANGED vars => Inv'
  <2> SUFFICES ASSUME Inv, UNCHANGED vars PROVE Inv'
    OBVIOUS
  <2>1. TypeOK'
    BY DEF Inv, TypeOK, vars, flags, object, mode, far, near, link, events,
       ends
  <2>2. FreshSocket' /\ OneConnector' /\ FlagComing'
    BY DEF Inv, FreshSocket, OneConnector, FlagComing, vars, flags, mode,
       far, near, link, ends
  <2>3. Down' /\ OneExchange' /\ Reaping' /\ Ended'
    BY DEF Inv, Down, OneExchange, Reaping, Ended, vars, flags, mode, far,
       near, link, events, ends
  <2> QED
    BY <2>1, <2>2, <2>3 DEF Inv
<1>2. Inv /\ [Next]_vars => Inv'
  BY <1>1, CallInv, UserInv, DiscInv, HandleInv, PeerInv, DialedInv DEF Next
<1> QED
  BY InitInv, <1>2, PTL DEF SafeSpec

(* No client that disconnect has marked done is connected again, whatever  *)
(* the interleaving of unlocked checks (client.c:325-369, 402-403), unless *)
(* one connect() was called while another was under way (client.c:363).    *)
THEOREM StaysDown == SafeSpec => []DoneMeansDown
<1>1. Inv => DoneMeansDown
  BY DEF Inv, Down, DoneMeansDown
<1> QED
  BY <1>1, Invariance, PTL

(* The handle thread is joined or detached at most once (client.c:426-446). *)
THEOREM ReapedOnce == SafeSpec => []OneReaper
<1>1. Inv => OneReaper
  BY DEF Inv, Reaping, OneReaper
<1> QED
  BY <1>1, Invariance, PTL

(* on_disconnected is started at most once, and on a client that is down   *)
(* unless two connects have crossed (client.c:216-258, 363-369).           *)
THEOREM ToldOnce == SafeSpec => []ToldWhenDown
<1>1. Inv => ToldWhenDown
  BY DEF Inv, Down, Ended, ToldWhenDown
<1> QED
  BY <1>1, Invariance, PTL

(* After a join, or on_disconnected, no event is started: the handle       *)
(* thread, the only one to start events, has ended (client.c:209-258).     *)
THEOREM Silence == SafeSpec => SilentAfterEnd
<1>1. Inv /\ [Next]_vars => [joined \/ discs > 0 => UNCHANGED events]_vars
  <2> SUFFICES ASSUME Inv, Next, joined \/ discs > 0
               PROVE  UNCHANGED events
    OBVIOUS
  <2>1. pc[H] = "exit"
    BY DEF Inv, Ended
  <2>2. ASSUME NEW u \in Users, Call(u) PROVE UNCHANGED events
    BY <2>2 DEF Call, ConnectDone, DiscCheck, SendCheck, Free
  <2>3. ASSUME NEW u \in Users, UserStep(u) PROVE UNCHANGED events
    BY <2>3 DEF UserStep, ConnectConnected, ConnectCall, ConnectReturn,
       ConnectFlag, ConnectBlock, KeyHeader, KeyBody, KeyOther, KeySend,
       KeyStore, Spawn, Assign, SendKey,
       SendWire, DiscJoin
  <2>4. ASSUME NEW t \in Threads, DiscStep(t) PROVE UNCHANGED events
    BY <2>4 DEF DiscStep, DiscFlag, DiscDone, DiscClose, DiscReap,
       UseAfterFree
  <2>5. ~HandleStep
    BY <2>1 DEF HandleStep, HandleBlock, HandleLoop, HandleRead, HandleCheck,
       HandleBody, HandleRecv, HandleEvent, DiscCheck, At
  <2>6. ASSUME PeerStep PROVE UNCHANGED events
    BY <2>6 DEF PeerStep, PeerHello, PeerHeader, PeerBody, PeerLeave
  <2>7. ASSUME Dialed PROVE UNCHANGED events
    BY <2>7 DEF Dialed
  <2> QED
    BY <2>2, <2>3, <2>4, <2>5, <2>6, <2>7 DEF Next
<1> QED
  BY <1>1, Invariance, PTL DEF SafeSpec, SilentAfterEnd
=============================================================================
