---------------------------- MODULE ServerProofs ----------------------------
(***************************************************************************)
(* Proofs about Server for any sets of application threads and connections *)
(* and any number of messages, on both platforms where nothing else is     *)
(* said: type correctness, then an inductive invariant in four parts.      *)
(***************************************************************************)
EXTENDS Server, FiniteSetTheorems, TLAPS

(***************************************************************************)
(* Starting and stopping.  bind() succeeds once, so one start gets past it *)
(* and makes the one serve thread; stops go on from there.                 *)
(***************************************************************************)
StartSteps == {"st_flag", "st_spawn", "st_assign"}
SweepSteps == StopSteps \ {"sp_flag", "sp_done", "sp_iter", "sp_scan"}

FreshListener ==
  listener = "new" =>
    /\ ~serving /\ ~done /\ ~stopped
    /\ pc[S] = "none"
    /\ \A u \in Users : pc[u] \notin StartSteps \cup StopSteps

OneStarter ==
  /\ \A u, v \in Users : pc[u] \in StartSteps /\ pc[v] \in StartSteps => u = v
  /\ \A u \in Users : pc[u] \in {"st_flag", "st_spawn"} => pc[S] = "none"

(* When serving is about to be set, no stop can be under way. *)
FlagComing ==
  \A u \in Users : pc[u] = "st_flag" =>
    /\ ~serving /\ ~done
    /\ \A v \in Users : pc[v] \notin StopSteps

(* Past its first step a stop has taken serving down for good. *)
Down ==
  /\ done => ~serving
  /\ \A u \in Users : pc[u] \in StopSteps \ {"sp_flag"} => ~serving
  /\ \A u \in Users : pc[u] \in StopSteps \ {"sp_flag", "sp_done"} => done
  /\ stopped => done /\ (Win32 \/ pc[S] = "exit")

Lifecycle == FreshListener /\ OneStarter /\ FlagComing /\ Down

(***************************************************************************)
(* Who may free an object: the map while it has the entry, then the thread *)
(* that popped it, then nobody; unless two pops of the entry overlapped.   *)
(***************************************************************************)
HandSteps == {"s_new", "s_pub", "s_key", "s_set"}

Owns(t, c) == pc[t] \in OwnSteps /\ cur[t] = c

(* Entries of the map are live and have no other owner. *)
Entries ==
  \A c \in clients : mem[c] = "live" /\ \A t \in Threads : ~Owns(t, c)

(* A thread pops what has been in the map, and once it has popped an entry *)
(* it is its only owner, if no other pop was under way.                    *)
Owners ==
  /\ \A t \in Threads : pc[t] \in ClearSteps \cup OwnSteps =>
       cur[t] \in Conns /\ mem[cur[t]] # "none"
  /\ \A t \in Threads : pc[t] \in OwnSteps /\ cur[t] \notin raced =>
       /\ mem[cur[t]] = "live"
       /\ \A v \in Threads : Owns(v, cur[t]) => v = t

(* A connection in the serve thread's hands has no object yet. *)
InHand ==
  pc[S] \in HandSteps =>
    cur[S] \in Conns /\ mem[cur[S]] = "none" /\ fd[cur[S]] # "none"

Ownership ==
  /\ Entries /\ Owners /\ InHand
  /\ \A c \in Conns : fd[c] = "none" => mem[c] = "none"

(***************************************************************************)
(* The events of a connection.                                             *)
(***************************************************************************)
VisitSteps == {"s_read", "s_body", "s_contains", "s_pop", "s_clear", "s_close",
               "s_free", "s_disconnect", "s_get", "s_recv"}

Told(c) == \E i \in 1..Len(log[c]) : log[c][i] = "disconnect"

(* on_connect comes with the object, one step later. *)
Greeted ==
  /\ \A c \in Conns :
       log[c] # <<>> <=>
         mem[c] # "none" /\ ~(pc[S] = "s_connect" /\ cur[S] = c)
  /\ pc[S] = "s_connect" => cur[S] \in Conns /\ mem[cur[S]] # "none"

(* What is listed or visited has an object and is not told yet that it is  *)
(* disconnected; what is told is on no list any more.                      *)
Visits ==
  /\ \A c \in todo[S] : mem[c] # "none"
  /\ pc[S] \in VisitSteps =>
       /\ cur[S] \in Conns /\ mem[cur[S]] # "none"
       /\ cur[S] \notin todo[S] /\ ~Told(cur[S])
  /\ pc[S] \in {"s_close", "s_free", "s_disconnect"} => cur[S] \notin clients
  /\ \A c \in Conns : Told(c) => c \notin clients /\ c \notin todo[S]

Events == Greeted /\ Visits /\ EventOrder

(***************************************************************************)
(* The descriptors a stop leaves open.                                     *)
(***************************************************************************)

(* An open descriptor is in the map, in the serve thread's hands, where it *)
(* stays when the thread ends, or about to be closed by remove_client.     *)
Accounted ==
  \A c \in Conns : fd[c] = "open" =>
    \/ c \in clients
    \/ cur[S] = c /\ pc[S] \in HandSteps \cup {"s_close", "exit"}
    \/ \E u \in Users : pc[u] = "rm_close" /\ cur[u] = c

(* A stop closes before it pops.                                           *)
ClosedFirst ==
  \A u \in Users :
    /\ pc[u] \in {"sp_close", "sp_pop", "sp_clear"} => cur[u] \in Conns
    /\ pc[u] \in {"sp_pop", "sp_clear"} => fd[cur[u]] = "closed"

(* Open, and not about to be closed by remove_client. *)
Loose(c) ==
  fd[c] = "open" /\ \A u \in Users : ~(pc[u] = "rm_close" /\ cur[u] = c)

(* What thread u, in a stop, is still going to close. *)
Ahead(u, c) == c \in todo[u] \/ (pc[u] = "sp_close" /\ cur[u] = c)

(* Since it made its list, a stop has missed one connection at most, and   *)
(* none if the serve thread can still accept one.                          *)
OneMissed ==
  \A u \in Users : pc[u] \in SweepSteps =>
    /\ \A c, d \in Conns :
         Loose(c) /\ Loose(d) /\ ~Ahead(u, c) /\ ~Ahead(u, d) => c = d
    /\ pc[S] = "s_accept" => \A c \in Conns : Loose(c) => Ahead(u, c)
    /\ pc[u] \in {"sp_listen", "sp_join"} => todo[u] = {}

OneLeft ==
  stopped =>
    /\ \A c, d \in Conns : Loose(c) /\ Loose(d) => c = d
    /\ pc[S] = "s_accept" => \A c \in Conns : ~Loose(c)

Descriptors == Accounted /\ ClosedFirst /\ OneMissed /\ OneLeft

Inv == TypeOK /\ Lifecycle /\ Ownership /\ Events /\ Descriptors

-----------------------------------------------------------------------------
USE ThreadsAssumption, ConnsAssumption, PlatformAssumption, MaxMsgsAssumption
DEF Threads, Running

(* The next-state relation in groups of actions that belong together. *)
StartStep(u) ==
  StartServing(u) \/ StartBind(u) \/ StartFlag(u) \/ StartSpawn(u)
    \/ StartAssign(u)

StopStep(u) ==
  StopFlag(u) \/ StopDone(u) \/ StopIter(u) \/ StopScan(u) \/ StopNext(u)
    \/ StopClose(u) \/ StopPop(u) \/ StopClear(u) \/ StopNull(u)
    \/ StopFree(u) \/ StopListen(u) \/ StopJoin(u)

RemoveStep(u) ==
  RemovePop(u) \/ RemoveClear(u) \/ RemoveClose(u) \/ RemoveFree(u)

SendStep(u) ==
  SendIter(u) \/ SendScan(u) \/ SendNext(u) \/ SendDrop(u) \/ SendGet(u)
    \/ SendKey(u) \/ SendWire(u)

AcceptStep ==
  ServeBlock \/ ServeLoop \/ ServeAccept \/ ServeCheck \/ ServePub
    \/ ServeKey \/ ServeSet \/ ServeOnConnect

PassStep ==
  ServeIter \/ ServeScan \/ ServeNext \/ ServeRead \/ ServeBody
    \/ ServeContains \/ ServePop \/ ServeClear \/ ServeClose \/ ServeFree
    \/ ServeOnDisconnect \/ ServeGet \/ ServeOnRecv \/ ServeDangling

(* The groups are all of the next-state relation. *)
LEMMA StepCases ==
  ASSUME Next
  PROVE  \/ \E u \in Users : \/ Call(u) \/ StartStep(u) \/ StopStep(u)
                             \/ RemoveStep(u) \/ SendStep(u)
         \/ AcceptStep \/ PassStep
         \/ \E t \in Threads : UseAfterFree(t)
         \/ \E c \in Conns : Peers(c)
BY DEF Next, UserStep, ServeStep, StartStep, StopStep, RemoveStep, SendStep,
       AcceptStep, PassStep

-----------------------------------------------------------------------------
(* TypeOK in parts, each within the reach of one prover call.              *)
FlagTypes ==
  /\ serving \in BOOLEAN /\ done \in BOOLEAN /\ thread \in BOOLEAN
  /\ freed \in BOOLEAN /\ stopped \in BOOLEAN

ObjectTypes ==
  /\ listener \in {"new", "listening", "closed"}
  /\ clients \subseteq Conns /\ size \in Int
  /\ fd \in [Conns -> {"none", "open", "closed"}]
  /\ mem \in [Conns -> {"none", "live", "freed"}]

PeerTypes == peer \in [Conns -> {"off", "reset"} \cup PeerOpen \cup PeerClosed]

WireTypes ==
  /\ inbox \in [Conns -> Seq({"key", "header", "body"})]
  /\ sent \in 0..MaxMsgs

PcTypes ==
  /\ pc \in [Threads -> UserSteps \cup ServeSteps]
  /\ pc[S] \in ServeSteps /\ \A u \in Users : pc[u] \in UserSteps

WorkTypes ==
  /\ cur \in [Threads -> Conns \cup {NoConn}]
  /\ todo \in [Threads -> SUBSET Conns]
  /\ seen \in [Threads -> Int]
  /\ raced \subseteq Conns \cup {NoConn}

LogTypes == log \in [Conns -> Seq({"connect", "recv", "disconnect"})]

FaultTypes == fault \in Faults

(* The parts are TypeOK. *)
LEMMA TypeParts ==
  TypeOK <=> /\ FlagTypes /\ ObjectTypes /\ PeerTypes /\ WireTypes /\ PcTypes
             /\ WorkTypes /\ LogTypes /\ FaultTypes
BY DEF TypeOK, FlagTypes, ObjectTypes, PeerTypes, WireTypes, PcTypes,
       WorkTypes, LogTypes, FaultTypes

(* So are they a step later. *)
LEMMA TypePartsNext ==
  TypeOK' <=> /\ FlagTypes' /\ ObjectTypes' /\ PeerTypes' /\ WireTypes'
              /\ PcTypes' /\ WorkTypes' /\ LogTypes' /\ FaultTypes'
BY DEF TypeOK, FlagTypes, ObjectTypes, PeerTypes, WireTypes, PcTypes,
       WorkTypes, LogTypes, FaultTypes

(* Init establishes the types. *)
LEMMA InitTypes == Init => TypeOK
<1> SUFFICES ASSUME Init PROVE TypeOK
  OBVIOUS
<1>1. FlagTypes
  BY DEF Init, FlagTypes
<1>2. ObjectTypes
  BY DEF Init, ObjectTypes
<1>3. PeerTypes /\ WireTypes
  BY DEF Init, PeerTypes, WireTypes
<1>4. PcTypes
  BY DEF Init, PcTypes, UserSteps, ServeSteps
<1>5. WorkTypes /\ LogTypes /\ FaultTypes
  BY DEF Init, WorkTypes, LogTypes, FaultTypes, Faults
<1> QED
  BY <1>1, <1>2, <1>3, <1>4, <1>5, TypeParts

(* A call an application thread begins keeps the types. *)
LEMMA CallTypes ==
  ASSUME TypeOK, NEW u \in Users, Call(u) PROVE TypeOK'
<1> USE DEF Call, StartDone, StopCheck, RemoveCheck, SendCheck, Free, At, Goto,
           server, map, objects, network, hand, control, history
<1>0. /\ FlagTypes /\ ObjectTypes /\ PeerTypes /\ WireTypes /\ PcTypes
      /\ WorkTypes /\ LogTypes /\ FaultTypes
  BY TypeParts
<1>1. FlagTypes' /\ ObjectTypes'
  BY <1>0 DEF FlagTypes, ObjectTypes
<1>2. PeerTypes' /\ WireTypes' /\ LogTypes' /\ FaultTypes'
  BY <1>0 DEF PeerTypes, WireTypes, LogTypes, FaultTypes
<1>3. PcTypes'
  BY <1>0 DEF PcTypes, UserSteps, StopSteps, ServeSteps
<1>4. WorkTypes'
  BY <1>0 DEF WorkTypes, ObjectTypes
<1> QED
  BY <1>1, <1>2, <1>3, <1>4, TypePartsNext

(* So does every step of a start. *)
LEMMA StartTypes ==
  ASSUME TypeOK, NEW u \in Users, StartStep(u) PROVE TypeOK'
<1> USE DEF StartStep, StartServing, StartBind, StartFlag, StartSpawn,
           StartAssign, At, Goto, server, map, objects, network, hand,
           control, history
<1>0. /\ FlagTypes /\ ObjectTypes /\ PeerTypes /\ WireTypes /\ PcTypes
      /\ WorkTypes /\ LogTypes /\ FaultTypes
  BY TypeParts
<1>1. FlagTypes' /\ ObjectTypes'
  BY <1>0 DEF FlagTypes, ObjectTypes
<1>2. PeerTypes' /\ WireTypes' /\ LogTypes' /\ FaultTypes'
  BY <1>0 DEF PeerTypes, WireTypes, LogTypes, FaultTypes
<1>3. PcTypes'
  BY <1>0 DEF PcTypes, UserSteps, StopSteps, ServeSteps
<1>4. WorkTypes'
  BY <1>0 DEF WorkTypes
<1> QED
  BY <1>1, <1>2, <1>3, <1>4, TypePartsNext

(* So does every step of a stop. *)
LEMMA StopTypes ==
  ASSUME TypeOK, NEW u \in Users, StopStep(u) PROVE TypeOK'
<1> USE DEF StopStep, StopFlag, StopDone, StopIter, StopScan, StopNext,
StopClose,
           StopPop, StopClear, StopNull, StopFree, StopListen, StopJoin,
           MapIter, MapScan, Torn, NextEntry,
           PopFind, PopClear, Count, CloseObject, Dangling, FreeObject,
           Local, Fail, At, Goto,
           server, map, objects, network, hand, control, history
<1>0. /\ FlagTypes /\ ObjectTypes /\ PeerTypes /\ WireTypes /\ PcTypes
      /\ WorkTypes /\ LogTypes /\ FaultTypes
  BY TypeParts
<1>1. FlagTypes'
  BY <1>0 DEF FlagTypes
<1>2. ObjectTypes'
  BY <1>0 DEF ObjectTypes
<1>3. PeerTypes' /\ WireTypes' /\ LogTypes'
  BY <1>0 DEF PeerTypes, WireTypes, LogTypes
<1>4. PcTypes'
  BY <1>0 DEF PcTypes, UserSteps, StopSteps, ServeSteps
<1>5. WorkTypes'
  BY <1>0 DEF WorkTypes, ObjectTypes
<1>6. FaultTypes'
  BY <1>0 DEF FaultTypes, Faults
<1> QED
  BY <1>1, <1>2, <1>3, <1>4, <1>5, <1>6, TypePartsNext

(* So does every step of cdtp_server_remove_client. *)
LEMMA RemoveTypes ==
  ASSUME TypeOK, NEW u \in Users, RemoveStep(u) PROVE TypeOK'
<1> USE DEF RemoveStep, RemovePop, RemoveClear, RemoveClose, RemoveFree,
PopFind, PopClear, Count, CloseObject, Dangling, FreeObject, Local, Fail, At,
Goto, server, map, objects, network, hand, control, history
<1>0. /\ FlagTypes /\ ObjectTypes /\ PeerTypes /\ WireTypes /\ PcTypes
      /\ WorkTypes /\ LogTypes /\ FaultTypes
  BY TypeParts
<1>1. FlagTypes' /\ WorkTypes'
  BY <1>0 DEF FlagTypes, WorkTypes
<1>2. ObjectTypes'
  BY <1>0 DEF ObjectTypes
<1>3. PeerTypes' /\ WireTypes' /\ LogTypes'
  BY <1>0 DEF PeerTypes, WireTypes, LogTypes
<1>4. PcTypes'
  BY <1>0 DEF PcTypes, UserSteps, StopSteps, ServeSteps
<1>5. FaultTypes'
  BY <1>0 DEF FaultTypes, Faults
<1> QED
  BY <1>1, <1>2, <1>3, <1>4, <1>5, TypePartsNext

(* So does every step of a send. *)
LEMMA SendTypes ==
  ASSUME TypeOK, NEW u \in Users, SendStep(u) PROVE TypeOK'
<1> USE DEF SendStep, SendIter, SendScan, SendNext, SendDrop, SendGet,
SendKey, SendWire,
           MapIter, MapScan, NextEntry, Fail, At, Goto, server, map, objects,
           network, hand, control, history
<1>0. /\ FlagTypes /\ ObjectTypes /\ PeerTypes /\ WireTypes /\ PcTypes
      /\ WorkTypes /\ LogTypes /\ FaultTypes
  BY TypeParts
<1>1. FlagTypes' /\ ObjectTypes'
  BY <1>0 DEF FlagTypes, ObjectTypes
<1>2. PeerTypes'
  BY <1>0 DEF PeerTypes, PeerOpen, PeerClosed, SendTo
<1>3. WireTypes' /\ LogTypes'
  BY <1>0 DEF WireTypes, LogTypes
<1>4. PcTypes'
  BY <1>0 DEF PcTypes, UserSteps, StopSteps, ServeSteps, SendTo
<1>5. WorkTypes'
  BY <1>0 DEF WorkTypes, ObjectTypes
<1>6. FaultTypes'
  BY <1>0 DEF FaultTypes, Faults, SendTo
<1> QED
  BY <1>1, <1>2, <1>3, <1>4, <1>5, <1>6, TypePartsNext

(* Reading takes the oldest of what has arrived on a connection. *)
LEMMA Reading ==
  ASSUME WireTypes, NEW c, inbox[c] # <<>>,
         inbox' = [inbox EXCEPT ![c] = Tail(@)], sent' = sent
  PROVE  WireTypes'
<1>1. CASE c \in Conns
  <2>1. inbox[c] \in Seq({"key", "header", "body"})
    BY <1>1 DEF WireTypes
  <2>2. Tail(inbox[c]) \in Seq({"key", "header", "body"})
    BY <2>1
  <2> QED
    BY <2>2 DEF WireTypes
<1>2. CASE c \notin Conns
  BY <1>2 DEF WireTypes
<1> QED
  BY <1>1, <1>2

(* An event is appended to the log of its connection. *)
LEMMA Logging ==
  ASSUME LogTypes, NEW here, NEW next,
         NEW e \in {"connect", "recv", "disconnect"}, Event(here, e, next)
  PROVE  LogTypes'
<1>1. log' = [log EXCEPT ![cur[S]] = Append(@, e)]
  BY DEF Event
<1>2. CASE cur[S] \in Conns
  <2>1. Append(log[cur[S]], e) \in Seq({"connect", "recv", "disconnect"})
    BY <1>2 DEF LogTypes
  <2> QED
    BY <1>1, <2>1 DEF LogTypes
<1>3. CASE cur[S] \notin Conns
  BY <1>1, <1>3 DEF LogTypes
<1> QED
  BY <1>2, <1>3

(* So does every step that accepts a connection: its client has been in    *)
(* the serve thread's hands since accept().                                *)
LEMMA AcceptTypes ==
  ASSUME TypeOK, InHand, AcceptStep PROVE TypeOK'
<1> USE DEF AcceptStep, ServeBlock, ServeLoop, ServeAccept, ServeCheck,
           ServePub, ServeKey, ServeSet, ServeOnConnect, Event, Fail, At, Goto,
           server, map, objects, network, hand, control, history
<1>0. /\ FlagTypes /\ ObjectTypes /\ PeerTypes /\ WireTypes /\ PcTypes
      /\ WorkTypes /\ LogTypes /\ FaultTypes
  BY TypeParts
<1>1. FlagTypes'
  BY <1>0 DEF FlagTypes
<1>2. ObjectTypes'
  BY <1>0 DEF ObjectTypes, InHand, HandSteps, Count
<1>3. PeerTypes'
  BY <1>0 DEF PeerTypes, PeerOpen, PeerClosed, SendTo
<1>4. WireTypes'
  <2>1. CASE ServeKey /\ inbox' # inbox
    BY <1>0, <2>1, Reading
  <2>2. CASE inbox' = inbox
    BY <1>0, <2>2 DEF WireTypes
  <2> QED
    BY <2>1, <2>2
<1>5. PcTypes'
  BY <1>0 DEF PcTypes, UserSteps, StopSteps, ServeSteps, SendTo
<1>6. WorkTypes'
  BY <1>0 DEF WorkTypes
<1>7. LogTypes'
  <2>1. CASE ServeOnConnect
    BY <1>0, <2>1, Logging DEF ServeOnConnect
  <2>2. CASE ~ServeOnConnect
    BY <1>0, <2>2 DEF LogTypes
  <2> QED
    BY <2>1, <2>2
<1>8. FaultTypes'
  BY <1>0 DEF FaultTypes, Faults, SendTo
<1> QED
  BY <1>1, <1>2, <1>3, <1>4, <1>5, <1>6, <1>7, <1>8, TypePartsNext

(* So does every step of a pass over the clients. *)
LEMMA PassTypes ==
  ASSUME TypeOK, PassStep PROVE TypeOK'
<1> USE DEF PassStep, ServeIter, ServeScan, ServeNext, ServeRead, ServeBody,
           ServeContains, ServePop, ServeClear, ServeClose, ServeFree,
           ServeOnDisconnect,
           ServeGet, ServeOnRecv, ServeDangling, Event, MapIter, MapScan,
           Torn, NextEntry,
           PopFind, PopClear, Count, CloseObject, Dangling, FreeObject,
           Local, Unread, Fail, At, Goto,
           server, map, objects, network, hand, control, history
<1>0. /\ FlagTypes /\ ObjectTypes /\ PeerTypes /\ WireTypes /\ PcTypes
      /\ WorkTypes /\ LogTypes /\ FaultTypes
  BY TypeParts
<1>1. FlagTypes'
  BY <1>0 DEF FlagTypes
<1>2. ObjectTypes'
  BY <1>0 DEF ObjectTypes
<1>3. PeerTypes'
  BY <1>0 DEF PeerTypes
<1>4. WireTypes'
  <2>1. CASE (ServeRead \/ ServeBody) /\ inbox' # inbox
    BY <1>0, <2>1, Reading
  <2>2. CASE inbox' = inbox
    BY <1>0, <2>2 DEF WireTypes
  <2> QED
    BY <2>1, <2>2
<1>5. PcTypes'
  BY <1>0 DEF PcTypes, UserSteps, StopSteps, ServeSteps
<1>6. WorkTypes'
  BY <1>0 DEF WorkTypes, ObjectTypes
<1>7. LogTypes'
  <2>1. CASE ServeOnDisconnect \/ ServeOnRecv
    BY <1>0, <2>1, Logging DEF ServeOnDisconnect, ServeOnRecv
  <2>2. CASE log' = log
    BY <1>0, <2>2 DEF LogTypes
  <2> QED
    BY <2>1, <2>2
<1>8. FaultTypes'
  BY <1>0 DEF FaultTypes, Faults
<1> QED
  BY <1>1, <1>2, <1>3, <1>4, <1>5, <1>6, <1>7, <1>8, TypePartsNext

(* So does a step in a freed server. *)
LEMMA FreedTypes ==
  ASSUME TypeOK, NEW t \in Threads, UseAfterFree(t) PROVE TypeOK'
<1> USE DEF UseAfterFree, Fail, server, map, objects, network, hand, control,
history
<1>0. /\ FlagTypes /\ ObjectTypes /\ PeerTypes /\ WireTypes /\ PcTypes
      /\ WorkTypes /\ LogTypes /\ FaultTypes
  BY TypeParts
<1>1. FlagTypes' /\ ObjectTypes' /\ PcTypes' /\ WorkTypes'
  BY <1>0 DEF FlagTypes, ObjectTypes, PcTypes, WorkTypes
<1>2. PeerTypes' /\ WireTypes' /\ LogTypes' /\ FaultTypes'
  BY <1>0 DEF PeerTypes, WireTypes, LogTypes, FaultTypes, Faults
<1> QED
  BY <1>1, <1>2, TypePartsNext

(* So does every step of a peer. *)
LEMMA PeersTypes ==
  ASSUME TypeOK, NEW c \in Conns, Peers(c) PROVE TypeOK'
<1> USE DEF Peers, PeerConnect, PeerKey, PeerHeader, PeerBody, PeerLeave,
           PeerStep, Arrives, server, map, objects, network, hand, control,
           history
<1>0. /\ FlagTypes /\ ObjectTypes /\ PeerTypes /\ WireTypes /\ PcTypes
      /\ WorkTypes /\ LogTypes /\ FaultTypes
  BY TypeParts
<1>1. FlagTypes' /\ ObjectTypes' /\ PcTypes' /\ WorkTypes'
  BY <1>0 DEF FlagTypes, ObjectTypes, PcTypes, WorkTypes
<1>2. PeerTypes'
  BY <1>0 DEF PeerTypes, PeerOpen, PeerClosed
<1>3. WireTypes'
  <2>1. Append(inbox[c], "key") \in Seq({"key", "header", "body"})
    BY <1>0 DEF WireTypes
  <2>2. Append(inbox[c], "header") \in Seq({"key", "header", "body"})
    BY <1>0 DEF WireTypes
  <2>3. Append(inbox[c], "body") \in Seq({"key", "header", "body"})
    BY <1>0 DEF WireTypes
  <2>4. inbox' \in [Conns -> Seq({"key", "header", "body"})]
    BY <1>0, <2>1, <2>2, <2>3 DEF WireTypes
  <2>5. sent' \in 0..MaxMsgs
    BY <1>0 DEF WireTypes
  <2> QED
    BY <2>4, <2>5 DEF WireTypes
<1>4. LogTypes' /\ FaultTypes'
  BY <1>0 DEF LogTypes, FaultTypes
<1> QED
  BY <1>1, <1>2, <1>3, <1>4, TypePartsNext

(* Every step keeps the types. *)
LEMMA NextTypes ==
  ASSUME TypeOK, InHand, [Next]_vars PROVE TypeOK'
<1>1. CASE UNCHANGED vars
  BY <1>1 DEF TypeOK, vars, server, map, objects, network, hand, control,
     history
<1>2. CASE Next
  BY <1>2, StepCases, CallTypes, StartTypes, StopTypes, RemoveTypes,
     SendTypes, AcceptTypes, PassTypes, FreedTypes, PeersTypes
<1> QED
  BY <1>1, <1>2

-----------------------------------------------------------------------------
(* The invariant holds of a new server. *)
LEMMA InitInv == Init => Inv
<1> SUFFICES ASSUME Init PROVE Inv
  OBVIOUS
<1>1. TypeOK
  BY InitTypes
<1>2. \A t \in Threads : pc[t] \in {"none", "idle"}
  BY DEF Init
<1>3. Lifecycle
  BY <1>2 DEF Init, Lifecycle, FreshListener, OneStarter, FlagComing, Down,
              StartSteps, StopSteps, SweepSteps
<1>4. Ownership
  BY <1>2 DEF Init, Ownership, Entries, Owners, InHand, Owns,
              ClearSteps, OwnSteps, HandSteps
<1>5. Events
  <2>1. \A c \in Conns : log[c] = <<>> /\ mem[c] = "none" /\ ~Told(c)
    BY DEF Init, Told
  <2>2. Greeted
    BY <1>2, <2>1 DEF Greeted
  <2>3. Visits
    BY <1>2, <2>1 DEF Init, Visits, VisitSteps
  <2>4. EventOrder
    BY <2>1 DEF EventOrder
  <2> QED
    BY <2>2, <2>3, <2>4 DEF Events
<1>6. Descriptors
  BY <1>2 DEF Init, Descriptors, Accounted, ClosedFirst, OneMissed, OneLeft,
              SweepSteps, StopSteps
<1> QED
  BY <1>1, <1>3, <1>4, <1>5, <1>6 DEF Inv

-----------------------------------------------------------------------------
(* Starting and stopping: every step keeps Lifecycle. *)
LEMMA LifecycleStep ==
  ASSUME TypeOK, Lifecycle, Next PROVE Lifecycle'
<1> USE DEF Lifecycle, FreshListener, OneStarter, FlagComing, Down,
           StartSteps, StopSteps, SweepSteps,
           At, Goto, server, map, objects, network, hand, control, history
<1>0. PcTypes
  BY TypeParts
<1>1. ASSUME NEW u \in Users, Call(u) PROVE Lifecycle'
  BY <1>0, <1>1 DEF PcTypes, Call, StartDone, StopCheck, RemoveCheck,
                    SendCheck, Free
<1>2. ASSUME NEW u \in Users, StartStep(u) PROVE Lifecycle'
  <2> USE DEF StartStep, StartServing, StartBind, StartFlag, StartSpawn,
             StartAssign
  <2>1. FreshListener'
    BY <1>0, <1>2 DEF PcTypes
  <2>2. OneStarter'
    BY <1>0, <1>2 DEF PcTypes
  <2>3. FlagComing'
    BY <1>0, <1>2 DEF PcTypes
  <2>4. Down'
    BY <1>0, <1>2 DEF PcTypes
  <2> QED
    BY <2>1, <2>2, <2>3, <2>4
<1>3. ASSUME NEW u \in Users, StopStep(u) PROVE Lifecycle'
  <2> USE DEF StopStep, StopFlag, StopDone, StopIter, StopScan, StopNext,
  StopClose,
             StopPop, StopClear, StopNull, StopFree, StopListen, StopJoin,
             MapIter, MapScan, Torn, NextEntry,
             PopFind, PopClear, Count, CloseObject, Dangling, FreeObject,
             Local, Fail
  <2>1. FreshListener'
    BY <1>0, <1>3 DEF PcTypes
  <2>2. OneStarter'
    BY <1>0, <1>3 DEF PcTypes
  <2>3. FlagComing'
    BY <1>0, <1>3 DEF PcTypes
  <2>4. Down'
    BY <1>0, <1>3 DEF PcTypes
  <2> QED
    BY <2>1, <2>2, <2>3, <2>4
<1>4. ASSUME NEW u \in Users, RemoveStep(u) PROVE Lifecycle'
  BY <1>0, <1>4 DEF PcTypes, RemoveStep, RemovePop, RemoveClear, RemoveClose,
     RemoveFree,
                    PopFind, PopClear, Count, CloseObject, Dangling,
                    FreeObject, Local, Fail
<1>5. ASSUME NEW u \in Users, SendStep(u) PROVE Lifecycle'
  BY <1>0, <1>5
     DEF PcTypes, SendStep, SendIter, SendScan, SendNext, SendDrop, SendGet,
         SendKey,
                    SendWire, SendTo, MapIter, MapScan, NextEntry, Fail
<1>6. CASE AcceptStep
  BY <1>0, <1>6 DEF PcTypes, UserSteps, AcceptStep, ServeBlock, ServeLoop,
                    ServeAccept, ServeCheck, ServePub, ServeKey, ServeSet,
                    ServeOnConnect, SendTo, Event, Fail
<1>7. CASE PassStep
  BY <1>0, <1>7
     DEF PcTypes, UserSteps, PassStep, ServeIter, ServeScan, ServeNext,
                    ServeRead, ServeBody, ServeContains, ServePop,
                    ServeClear, ServeClose,
                    ServeFree, ServeOnDisconnect, ServeGet, ServeOnRecv,
                    ServeDangling, Event, MapIter, MapScan, Torn, NextEntry,
                    PopFind, PopClear, Count, CloseObject, Dangling,
                    FreeObject, Local, Unread, Fail
<1>8. ASSUME NEW t \in Threads, UseAfterFree(t) PROVE Lifecycle'
  BY <1>8 DEF UseAfterFree, Fail
<1>9. ASSUME NEW c \in Conns, Peers(c) PROVE Lifecycle'
  BY <1>9 DEF Peers, PeerConnect, PeerKey, PeerHeader, PeerBody, PeerLeave,
              PeerStep
<1> QED
  BY StepCases, <1>1, <1>2, <1>3, <1>4, <1>5, <1>6, <1>7, <1>8, <1>9

-----------------------------------------------------------------------------
(* Who may free an object: every step keeps Ownership. *)
LEMMA OwnershipStep ==
  ASSUME TypeOK, Ownership, Next PROVE Ownership'
<1> USE DEF Ownership, Entries, Owners, InHand, Owns,
           ClearSteps, OwnSteps, HandSteps, At, Goto, server, map, objects,
           network, hand, control, history
<1>0. PcTypes /\ ObjectTypes /\ WorkTypes
  BY TypeParts
<1>1. ASSUME NEW u \in Users, Call(u) PROVE Ownership'
  BY <1>0, <1>1 DEF PcTypes, WorkTypes, Call, StartDone, StopCheck,
                    RemoveCheck, SendCheck, Free
<1>2. ASSUME NEW u \in Users, StartStep(u) PROVE Ownership'
  BY <1>0, <1>2 DEF PcTypes, StartStep, StartServing, StartBind, StartFlag,
                    StartSpawn, StartAssign
<1>3. ASSUME NEW u \in Users, StopStep(u) PROVE Ownership'
  <2> USE DEF StopStep, StopFlag, StopDone, StopIter, StopScan, StopNext,
  StopClose,
             StopPop, StopClear, StopNull, StopFree, StopListen, StopJoin,
             MapIter, MapScan, Torn, NextEntry,
             PopFind, PopClear, Count, CloseObject, Dangling, FreeObject,
             Local, Fail
  <2>1. Entries'
    BY <1>0, <1>3 DEF PcTypes, ObjectTypes, WorkTypes
  <2>2. Owners'
    BY <1>0, <1>3 DEF PcTypes, ObjectTypes, WorkTypes
  <2>3. InHand'
    BY <1>0, <1>3 DEF PcTypes, ObjectTypes, WorkTypes
  <2>4. \A c \in Conns : fd'[c] = "none" => mem'[c] = "none"
    BY <1>0, <1>3 DEF ObjectTypes
  <2> QED
    BY <2>1, <2>2, <2>3, <2>4
<1>4. ASSUME NEW u \in Users, RemoveStep(u) PROVE Ownership'
  <2> USE DEF RemoveStep, RemovePop, RemoveClear, RemoveClose, RemoveFree,
  PopFind, PopClear, Count, CloseObject, Dangling, FreeObject, Local, Fail
  <2>1. Entries'
    BY <1>0, <1>4 DEF PcTypes, ObjectTypes, WorkTypes
  <2>2. Owners'
    BY <1>0, <1>4 DEF PcTypes, ObjectTypes, WorkTypes
  <2>3. InHand'
    BY <1>0, <1>4 DEF PcTypes, ObjectTypes, WorkTypes
  <2>4. \A c \in Conns : fd'[c] = "none" => mem'[c] = "none"
    BY <1>0, <1>4 DEF ObjectTypes
  <2> QED
    BY <2>1, <2>2, <2>3, <2>4
<1>5. ASSUME NEW u \in Users, SendStep(u) PROVE Ownership'
  BY <1>0, <1>5
     DEF PcTypes, WorkTypes, SendStep, SendIter, SendScan, SendNext,
         SendDrop, SendGet,
                    SendKey, SendWire, SendTo, MapIter, MapScan, NextEntry,
                    Fail
<1>6. CASE AcceptStep
  <2> USE DEF AcceptStep, ServeBlock, ServeLoop, ServeAccept, ServeCheck,
             ServePub, ServeKey, ServeSet, ServeOnConnect, SendTo, Event, Fail
  <2>1. Entries'
    BY <1>0, <1>6 DEF PcTypes, ObjectTypes, WorkTypes
  <2>2. Owners'
    BY <1>0, <1>6 DEF PcTypes, ObjectTypes, WorkTypes
  <2>3. InHand'
    BY <1>0, <1>6 DEF PcTypes, ObjectTypes, WorkTypes
  <2>4. \A c \in Conns : fd'[c] = "none" => mem'[c] = "none"
    BY <1>0, <1>6 DEF ObjectTypes
  <2> QED
    BY <2>1, <2>2, <2>3, <2>4
<1>7. CASE PassStep
  <2> USE DEF PassStep, ServeIter, ServeScan, ServeNext, ServeRead, ServeBody,
             ServeContains, ServePop, ServeClear, ServeClose, ServeFree,
             ServeOnDisconnect,
             ServeGet, ServeOnRecv, ServeDangling, Event, MapIter, MapScan,
             Torn, NextEntry,
             PopFind, PopClear, Count, CloseObject, Dangling, FreeObject,
             Local, Unread, Fail
  <2>1. Entries'
    BY <1>0, <1>7 DEF PcTypes, ObjectTypes, WorkTypes
  <2>2. Owners'
    BY <1>0, <1>7 DEF PcTypes, ObjectTypes, WorkTypes
  <2>3. InHand'
    BY <1>0, <1>7 DEF PcTypes
  <2>4. \A c \in Conns : fd'[c] = "none" => mem'[c] = "none"
    BY <1>0, <1>7 DEF ObjectTypes
  <2> QED
    BY <2>1, <2>2, <2>3, <2>4
<1>8. ASSUME NEW t \in Threads, UseAfterFree(t) PROVE Ownership'
  BY <1>8 DEF UseAfterFree, Fail
<1>9. ASSUME NEW c \in Conns, Peers(c) PROVE Ownership'
  BY <1>9 DEF Peers, PeerConnect, PeerKey, PeerHeader, PeerBody, PeerLeave,
              PeerStep
<1> QED
  BY StepCases, <1>1, <1>2, <1>3, <1>4, <1>5, <1>6, <1>7, <1>8, <1>9

-----------------------------------------------------------------------------
(* A connection without events is not told of anything. *)
LEMMA NothingTold == ASSUME NEW c \in Conns, log[c] = <<>> PROVE ~Told(c)
BY DEF Told

(* While no event is started, nothing is told and the order stays. *)
LEMMA NoEvent ==
  ASSUME log' = log
  PROVE  /\ \A c \in Conns : Told(c)' <=> Told(c)
         /\ EventOrder => EventOrder'
BY DEF Told, EventOrder

(* An event is told of the connection in hand and of no other. *)
LEMMA EventTells ==
  ASSUME LogTypes, NEW here, NEW next, cur[S] \in Conns,
         NEW e \in {"connect", "recv", "disconnect"}, Event(here, e, next)
  PROVE  /\ \A c \in Conns \ {cur[S]} : log'[c] = log[c]
         /\ \A c \in Conns :
              Told(c)' <=> Told(c) \/ (c = cur[S] /\ e = "disconnect")
         /\ log'[cur[S]] # <<>>
<1> DEFINE d == cur[S]
<1>1. log' = [log EXCEPT ![d] = Append(@, e)]
  BY DEF Event
<1>2. log[d] \in Seq({"connect", "recv", "disconnect"})
  BY DEF LogTypes
<1>3. /\ Len(log'[d]) = Len(log[d]) + 1
      /\ \A i \in 1..Len(log[d]) : log'[d][i] = log[d][i]
      /\ log'[d][Len(log[d]) + 1] = e
  BY <1>1, <1>2 DEF LogTypes
<1>4. \A c \in Conns \ {d} : log'[c] = log[c]
  BY <1>1 DEF LogTypes
<1>5. \A c \in Conns \ {d} : Told(c)' <=> Told(c)
  BY <1>4 DEF Told
<1>6. ASSUME NEW c \in Conns, c = d
      PROVE  Told(c)' <=> Told(c) \/ e = "disconnect"
  <2>1. Len(log[c]) \in Nat
    BY <1>2, <1>6
  <2>2. /\ Len(log'[c]) = Len(log[c]) + 1
        /\ \A i \in 1..Len(log[c]) : log'[c][i] = log[c][i]
        /\ log'[c][Len(log[c]) + 1] = e
    BY <1>3, <1>6
  <2> QED
    BY <2>1, <2>2 DEF Told
<1>7. log'[d] # <<>>
  BY <1>2, <1>3
<1> QED
  BY <1>4, <1>5, <1>6, <1>7

(* The order of events is kept by a connect that comes first and by any    *)
(* other event that does not follow a disconnect.                          *)
LEMMA EventKeepsOrder ==
  ASSUME LogTypes, EventOrder, NEW here, NEW next, cur[S] \in Conns,
         NEW e \in {"connect", "recv", "disconnect"}, Event(here, e, next),
         e = "connect" <=> log[cur[S]] = <<>>, ~Told(cur[S])
  PROVE  EventOrder'
<1> DEFINE d == cur[S]
<1>1. log' = [log EXCEPT ![d] = Append(@, e)]
  BY DEF Event
<1>2. log[d] \in Seq({"connect", "recv", "disconnect"}) /\ Len(log[d]) \in Nat
  BY DEF LogTypes
<1>3. /\ Len(log'[d]) = Len(log[d]) + 1
      /\ \A i \in 1..Len(log[d]) : log'[d][i] = log[d][i]
      /\ log'[d][Len(log[d]) + 1] = e
  BY <1>1, <1>2 DEF LogTypes
<1>4. Len(log[d]) = 0 <=> e = "connect"
  BY <1>2
<1>5. SUFFICES ASSUME NEW c \in Conns, NEW i \in 1..Len(log'[c])
               PROVE  /\ i = 1 <=> log'[c][i] = "connect"
                      /\ log'[c][i] = "disconnect" => i = Len(log'[c])
  BY DEF EventOrder
<1>6. CASE c # d
  <2>1. log'[c] = log[c]
    BY <1>1, <1>6 DEF LogTypes
  <2> QED
    BY <2>1 DEF EventOrder
<1>7. CASE c = d /\ i \in 1..Len(log[d])
  <2>1. log[d][i] # "disconnect"
    BY <1>7 DEF Told
  <2>2. i = 1 <=> log[d][i] = "connect"
    BY <1>7 DEF EventOrder
  <2> QED
    BY <1>3, <1>7, <2>1, <2>2
<1>8. CASE c = d /\ i = Len(log[d]) + 1
  BY <1>2, <1>3, <1>4, <1>8
<1> QED
  BY <1>2, <1>3, <1>5, <1>6, <1>7, <1>8

(* The events of a connection: every step keeps Events. *)
LEMMA EventsStep ==
  ASSUME TypeOK, Lifecycle, Ownership, Events, Next PROVE Events'
<1> USE DEF Events, VisitSteps, At, Goto, server, map, objects, network,
hand, control, history
<1>0. PcTypes /\ ObjectTypes /\ WorkTypes /\ LogTypes
  BY TypeParts
<1>1. ASSUME NEW u \in Users, Call(u) PROVE Events'
  <2> USE DEF Call, StartDone, StopCheck, RemoveCheck, SendCheck, Free
  <2>1. log' = log
    BY <1>1
  <2> QED
    BY <1>0, <1>1, <2>1, NoEvent DEF Greeted, Visits, PcTypes, WorkTypes
<1>2. ASSUME NEW u \in Users, StartStep(u) PROVE Events'
  <2> USE DEF StartStep, StartServing, StartBind, StartFlag, StartSpawn,
             StartAssign
  <2>1. log' = log
    BY <1>2
  <2>2. Greeted'
    BY <1>0, <1>2, <2>1 DEF Greeted, PcTypes, Lifecycle, OneStarter
  <2>3. Visits'
    BY <1>0, <1>2, <2>1, NoEvent DEF Visits, PcTypes, WorkTypes
  <2> QED
    BY <2>1, <2>2, <2>3, NoEvent
<1>3. ASSUME NEW u \in Users, StopStep(u) PROVE Events'
  <2> USE DEF StopStep, StopFlag, StopDone, StopIter, StopScan, StopNext,
  StopClose,
             StopPop, StopClear, StopNull, StopFree, StopListen, StopJoin,
             MapIter, MapScan, Torn, NextEntry,
             PopFind, PopClear, Count, CloseObject, Dangling, FreeObject,
             Local, Fail
  <2>1. log' = log
    BY <1>3
  <2>2. Greeted'
    BY <1>0, <1>3, <2>1 DEF Greeted, PcTypes, ObjectTypes, WorkTypes,
                            Ownership, Owners, ClearSteps, OwnSteps
  <2>3. Visits'
    BY <1>0, <1>3, <2>1, NoEvent DEF Visits, PcTypes, ObjectTypes, WorkTypes
  <2> QED
    BY <2>1, <2>2, <2>3, NoEvent
<1>4. ASSUME NEW u \in Users, RemoveStep(u) PROVE Events'
  <2> USE DEF RemoveStep, RemovePop, RemoveClear, RemoveClose, RemoveFree,
  PopFind, PopClear, Count, CloseObject, Dangling, FreeObject, Local, Fail
  <2>1. log' = log
    BY <1>4
  <2>2. Greeted'
    BY <1>0, <1>4, <2>1 DEF Greeted, PcTypes, ObjectTypes, WorkTypes,
                            Ownership, Owners, ClearSteps, OwnSteps
  <2>3. Visits'
    BY <1>0, <1>4, <2>1, NoEvent DEF Visits, PcTypes, ObjectTypes, WorkTypes
  <2> QED
    BY <2>1, <2>2, <2>3, NoEvent
<1>5. ASSUME NEW u \in Users, SendStep(u) PROVE Events'
  <2> USE DEF SendStep, SendIter, SendScan, SendNext, SendDrop, SendGet,
  SendKey, SendWire, SendTo, MapIter, MapScan, NextEntry, Fail
  <2>1. log' = log
    BY <1>5
  <2> QED
    BY <1>0, <1>5, <2>1, NoEvent DEF Greeted, Visits, PcTypes, WorkTypes
<1>6. CASE AcceptStep
  <2> USE DEF ServeBlock, ServeLoop, ServeAccept, ServeCheck, ServePub,
             ServeKey, SendTo, Fail
  <2>1. CASE ServeSet
    <3> USE DEF ServeSet
    <3>1. cur[S] \in Conns /\ mem[cur[S]] = "none" /\ log[cur[S]] = <<>>
      BY <1>0, <2>1 DEF Ownership, InHand, HandSteps, Greeted, PcTypes
    <3>2. ~Told(cur[S])
      BY <3>1, NothingTold
    <3>3. Greeted'
      BY <1>0, <2>1, <3>1 DEF Greeted, PcTypes, ObjectTypes
    <3>4. Visits'
      BY <1>0, <2>1, <3>1, <3>2, NoEvent DEF Visits, PcTypes, ObjectTypes,
                                             WorkTypes
    <3> QED
      BY <2>1, <3>3, <3>4, NoEvent
  <2>2. CASE ServeOnConnect
    <3>1. Event("s_connect", "connect", "s_iter")
      BY <2>2 DEF ServeOnConnect
    <3>2. pc[S] = "s_connect" /\ cur[S] \in Conns /\ log[cur[S]] = <<>>
      BY <3>1 DEF Event, Greeted
    <3>3. EventOrder'
      BY <1>0, <3>1, <3>2, NothingTold, EventKeepsOrder
    <3>4. Greeted'
      BY <1>0, <3>1, <3>2, EventTells DEF Event, Greeted, PcTypes
    <3>5. Visits'
      BY <1>0, <3>1, <3>2, EventTells DEF Event, Visits, PcTypes
    <3> QED
      BY <3>3, <3>4, <3>5
  <2>3. CASE \/ ServeBlock \/ ServeLoop \/ ServeAccept \/ ServeCheck
             \/ ServePub \/ ServeKey
    <3>1. log' = log
      BY <2>3
    <3>2. Greeted'
      BY <1>0, <2>3, <3>1 DEF Greeted, PcTypes, WorkTypes
    <3>3. Visits'
      BY <1>0, <2>3, <3>1, NoEvent DEF Visits, PcTypes, WorkTypes
    <3> QED
      BY <3>1, <3>2, <3>3, NoEvent
  <2> QED
    BY <1>6, <2>1, <2>2, <2>3 DEF AcceptStep
<1>7. CASE PassStep
  <2> USE DEF ServeIter, ServeScan, ServeNext, ServeRead, ServeBody,
  ServeContains,
             ServePop, ServeClear, ServeClose, ServeFree, ServeGet,
             ServeDangling, MapIter, MapScan, Torn,
             NextEntry, PopFind, PopClear, Count, CloseObject, Dangling,
             FreeObject, Local, Unread, Fail
  <2>1. CASE ServeOnDisconnect
    <3>1. Event("s_disconnect", "disconnect", "s_next")
      BY <2>1 DEF ServeOnDisconnect
    <3>2. /\ cur[S] \in Conns /\ cur[S] \notin clients /\ cur[S] \notin todo[S]
          /\ log[cur[S]] # <<>> /\ ~Told(cur[S])
      BY <3>1 DEF Event, Visits, Greeted
    <3>3. EventOrder'
      BY <1>0, <3>1, <3>2, EventKeepsOrder
    <3>4. Greeted'
      BY <1>0, <3>1, <3>2, EventTells DEF Event, Greeted, PcTypes
    <3>5. Visits'
      BY <1>0, <3>1, <3>2, EventTells DEF Event, Visits, PcTypes
    <3> QED
      BY <3>3, <3>4, <3>5
  <2>2. CASE ServeOnRecv
    <3>1. Event("s_recv", "recv", "s_next")
      BY <2>2 DEF ServeOnRecv
    <3>2. cur[S] \in Conns /\ log[cur[S]] # <<>> /\ ~Told(cur[S])
      BY <3>1 DEF Event, Visits, Greeted
    <3>3. EventOrder'
      BY <1>0, <3>1, <3>2, EventKeepsOrder
    <3>4. Greeted'
      BY <1>0, <3>1, <3>2, EventTells DEF Event, Greeted, PcTypes
    <3>5. Visits'
      BY <1>0, <3>1, <3>2, EventTells DEF Event, Visits, PcTypes
    <3> QED
      BY <3>3, <3>4, <3>5
  <2>3. CASE ServeIter \/ ServeScan \/ ServeNext
    <3>1. log' = log
      BY <2>3
    <3>2. Greeted'
      BY <1>0, <2>3, <3>1 DEF Greeted, PcTypes
    <3>3. Visits'
      BY <1>0, <2>3, <3>1, NoEvent DEF Visits, PcTypes, ObjectTypes,
                                       WorkTypes, Ownership, Entries
    <3> QED
      BY <3>1, <3>2, <3>3, NoEvent
  <2>4. CASE \/ ServeRead \/ ServeBody \/ ServeContains \/ ServePop
             \/ ServeClear \/ ServeClose \/ ServeFree \/ ServeGet
             \/ ServeDangling
    <3>1. log' = log
      BY <2>4
    <3>2. Greeted'
      BY <1>0, <2>4, <3>1 DEF Greeted, PcTypes, ObjectTypes, Ownership,
                              Owners, ClearSteps, OwnSteps
    <3>3. Visits'
      BY <1>0, <2>4, <3>1, NoEvent DEF Visits, PcTypes, ObjectTypes, WorkTypes
    <3> QED
      BY <3>1, <3>2, <3>3, NoEvent
  <2> QED
    BY <1>7, <2>1, <2>2, <2>3, <2>4 DEF PassStep
<1>8. ASSUME NEW t \in Threads, UseAfterFree(t) PROVE Events'
  BY <1>8, NoEvent DEF UseAfterFree, Fail, Greeted, Visits
<1>9. ASSUME NEW c \in Conns, Peers(c) PROVE Events'
  BY <1>9, NoEvent DEF Peers, PeerConnect, PeerKey, PeerHeader, PeerBody,
                       PeerLeave, PeerStep, Greeted, Visits
<1> QED
  BY StepCases, <1>1, <1>2, <1>3, <1>4, <1>5, <1>6, <1>7, <1>8, <1>9

-----------------------------------------------------------------------------
(* What a stop has left open stays all there is while no step opens a      *)
(* descriptor and the serve thread is not about to accept.                 *)
LEMMA OneLeftStays ==
  ASSUME OneLeft, stopped' = stopped,
         \A c \in Conns : Loose(c)' => Loose(c),
         pc'[S] = "s_accept" => pc[S] = "s_accept"
  PROVE  OneLeft'
<1>1. ASSUME stopped' PROVE \A c, d \in Conns : Loose(c)' /\ Loose(d)' => c = d
  BY <1>1 DEF OneLeft
<1>2. ASSUME stopped', pc'[S] = "s_accept" PROVE \A c \in Conns : ~Loose(c)'
  BY <1>2 DEF OneLeft
<1> QED
  BY <1>1, <1>2 DEF OneLeft

(* The descriptors a stop leaves open: every step keeps Descriptors. *)
LEMMA DescriptorsStep ==
  ASSUME TypeOK, Lifecycle, Ownership, Descriptors, Next PROVE Descriptors'
<1> USE DEF Descriptors, StopSteps, SweepSteps, HandSteps, At, Goto,
           server, map, objects, network, hand, control, history
<1>0. PcTypes /\ ObjectTypes /\ WorkTypes
  BY TypeParts
<1>1. ASSUME NEW u \in Users, Call(u) PROVE Descriptors'
  <2> USE DEF Call, StartDone, StopCheck, RemoveCheck,
             SendCheck, Free
  <2>1. Accounted'
    BY <1>0, <1>1 DEF Accounted, PcTypes, WorkTypes
  <2>2. ClosedFirst'
    BY <1>0, <1>1 DEF ClosedFirst, PcTypes, WorkTypes
  <2>3. OneMissed'
    BY <1>0, <1>1 DEF OneMissed, Loose, Ahead, PcTypes, WorkTypes
  <2>4. OneLeft'
    <3>1. \A c \in Conns : Loose(c)' => Loose(c)
      BY <1>0, <1>1 DEF Loose, PcTypes, WorkTypes
    <3>2. pc'[S] = "s_accept" => pc[S] = "s_accept"
      BY <1>0, <1>1 DEF PcTypes
    <3>3. stopped' = stopped
      BY <1>1
    <3> QED
      BY <3>1, <3>2, <3>3, OneLeftStays
  <2> QED
    BY <2>1, <2>2, <2>3, <2>4
<1>2. ASSUME NEW u \in Users, StartStep(u) PROVE Descriptors'
  <2> USE DEF StartStep, StartServing, StartBind, StartFlag,
             StartSpawn, StartAssign, Lifecycle, OneStarter
  <2>1. Accounted'
    BY <1>0, <1>2 DEF Accounted, PcTypes
  <2>2. ClosedFirst'
    BY <1>0, <1>2 DEF ClosedFirst, PcTypes
  <2>3. OneMissed'
    BY <1>0, <1>2 DEF OneMissed, Loose, Ahead, PcTypes
  <2>4. OneLeft'
    <3>1. \A c \in Conns : Loose(c)' => Loose(c)
      BY <1>0, <1>2 DEF Loose, PcTypes
    <3>2. pc'[S] = "s_accept" => pc[S] = "s_accept"
      BY <1>0, <1>2 DEF PcTypes
    <3>3. stopped' = stopped
      BY <1>2
    <3> QED
      BY <3>1, <3>2, <3>3, OneLeftStays
  <2> QED
    BY <2>1, <2>2, <2>3, <2>4
<1>3. ASSUME NEW u \in Users, StopStep(u) PROVE Descriptors'
  <2> USE DEF StopStep, StopFlag, StopDone, StopIter, StopScan,
             StopNext, StopClose, StopPop, StopClear, StopNull, StopFree,
             StopListen, StopJoin, MapIter, MapScan, Torn, NextEntry,
             PopFind, PopClear, Count, CloseObject, Dangling, FreeObject,
             Local, Fail, Lifecycle, Down
  <2>1. Accounted'
    BY <1>0, <1>3 DEF Accounted, ClosedFirst, PcTypes, ObjectTypes, WorkTypes
  <2>2. ClosedFirst'
    BY <1>0, <1>3 DEF ClosedFirst, PcTypes, ObjectTypes, WorkTypes
  <2>3. OneMissed'
    BY <1>0, <1>3 DEF Accounted, OneMissed, Loose, Ahead, PcTypes,
                      ObjectTypes, WorkTypes
  <2>4. OneLeft'
    <3>1. \A c \in Conns : Loose(c)' => Loose(c)
      BY <1>0, <1>3 DEF Loose, PcTypes, ObjectTypes, WorkTypes
    <3>2. pc'[S] = pc[S]
      BY <1>0, <1>3 DEF PcTypes
    <3>3. CASE StopJoin(u)
      <4>1. \A c \in Conns : ~Ahead(u, c)
        BY <1>0, <3>3 DEF Ahead, OneMissed
      <4>2. pc[u] \in SweepSteps
        BY <3>3
      <4>3. \A c, d \in Conns : Loose(c)' /\ Loose(d)' => c = d
        BY <3>1, <4>1, <4>2 DEF OneMissed
      <4>4. pc'[S] = "s_accept" => \A c \in Conns : ~Loose(c)'
        BY <3>1, <3>2, <4>1, <4>2 DEF OneMissed
      <4> QED
        BY <4>3, <4>4 DEF OneLeft
    <3>4. CASE ~StopJoin(u)
      <4>1. stopped' = stopped
        BY <1>3, <3>4
      <4> QED
        BY <3>1, <3>2, <4>1, OneLeftStays
    <3> QED
      BY <3>3, <3>4
  <2> QED
    BY <2>1, <2>2, <2>3, <2>4
<1>4. ASSUME NEW u \in Users, RemoveStep(u) PROVE Descriptors'
  <2> USE DEF RemoveStep, RemovePop, RemoveClear, RemoveClose, RemoveFree,
             PopFind, PopClear, Count, CloseObject, Dangling, FreeObject,
             Local, Fail
  <2>1. Accounted'
    BY <1>0, <1>4 DEF Accounted, PcTypes, ObjectTypes, WorkTypes
  <2>2. ClosedFirst'
    BY <1>0, <1>4 DEF ClosedFirst, PcTypes, ObjectTypes, WorkTypes
  <2>3. OneMissed'
    BY <1>0, <1>4 DEF OneMissed, Loose, Ahead, PcTypes, ObjectTypes, WorkTypes
  <2>4. OneLeft'
    <3>1. \A c \in Conns : Loose(c)' => Loose(c)
      BY <1>0, <1>4 DEF Loose, PcTypes, ObjectTypes, WorkTypes
    <3>2. pc'[S] = "s_accept" => pc[S] = "s_accept"
      BY <1>0, <1>4 DEF PcTypes
    <3>3. stopped' = stopped
      BY <1>4
    <3> QED
      BY <3>1, <3>2, <3>3, OneLeftStays
  <2> QED
    BY <2>1, <2>2, <2>3, <2>4
<1>5. ASSUME NEW u \in Users, SendStep(u) PROVE Descriptors'
  <2> USE DEF SendStep, SendIter, SendScan, SendNext, SendDrop, SendGet,
  SendKey,
             SendWire, SendTo, MapIter, MapScan, NextEntry, Fail
  <2>1. Accounted'
    BY <1>0, <1>5 DEF Accounted, PcTypes, WorkTypes
  <2>2. ClosedFirst'
    BY <1>0, <1>5 DEF ClosedFirst, PcTypes, WorkTypes
  <2>3. OneMissed'
    BY <1>0, <1>5 DEF OneMissed, Loose, Ahead, PcTypes, WorkTypes
  <2>4. OneLeft'
    <3>1. \A c \in Conns : Loose(c)' => Loose(c)
      BY <1>0, <1>5 DEF Loose, PcTypes, WorkTypes
    <3>2. pc'[S] = "s_accept" => pc[S] = "s_accept"
      BY <1>0, <1>5 DEF PcTypes
    <3>3. stopped' = stopped
      BY <1>5
    <3> QED
      BY <3>1, <3>2, <3>3, OneLeftStays
  <2> QED
    BY <2>1, <2>2, <2>3, <2>4
<1>6. CASE AcceptStep
  <2> USE DEF AcceptStep, ServeBlock, ServeLoop, ServeAccept,
             ServeCheck, ServePub, ServeKey, ServeSet,
             ServeOnConnect, SendTo, Event, Fail, Lifecycle,
             Down
  <2>1. Accounted'
    BY <1>0, <1>6 DEF Accounted, PcTypes, ObjectTypes, WorkTypes
  <2>2. ClosedFirst'
    BY <1>0, <1>6 DEF ClosedFirst, PcTypes, ObjectTypes, WorkTypes
  <2>3. OneMissed'
    <3>1. CASE ServeAccept
      BY <1>0, <3>1 DEF OneMissed, Loose, Ahead, PcTypes, ObjectTypes,
                        WorkTypes
    <3>2. CASE ServeLoop
      BY <1>0, <3>2 DEF OneMissed, Loose, Ahead, PcTypes
    <3>3. CASE ~ServeAccept /\ ~ServeLoop
      <4>1. \A c \in Conns : Loose(c)' => Loose(c)
        BY <1>0, <1>6, <3>3 DEF Loose, PcTypes
      <4>2. pc'[S] # "s_accept"
        BY <1>0, <1>6, <3>3 DEF PcTypes
      <4>3. \A u \in Users : pc'[u] = pc[u] \/ pc'[u] = "idle"
        BY <1>0, <1>6, <3>3 DEF PcTypes
      <4>4. todo' = todo /\ \A u \in Users : cur'[u] = cur[u]
        BY <1>0, <1>6, <3>3 DEF WorkTypes
      <4>5. \A u \in Users : pc'[u] \in SweepSteps =>
              pc[u] = pc'[u] /\ \A c : Ahead(u, c)' <=> Ahead(u, c)
        BY <4>3, <4>4 DEF Ahead
      <4> QED
        BY <4>1, <4>2, <4>4, <4>5 DEF OneMissed
    <3> QED
      BY <3>1, <3>2, <3>3
  <2>4. OneLeft'
    <3>1. stopped' = stopped
      BY <1>6
    <3>2. CASE ServeAccept
      <4>1. pc[S] = "s_accept" /\ pc'[S] # "s_accept"
        BY <1>0, <3>2 DEF PcTypes
      <4>2. \A c \in Conns : Loose(c)' => Loose(c) \/ c = cur'[S]
        BY <1>0, <3>2 DEF Loose, PcTypes, ObjectTypes, WorkTypes
      <4>3. ASSUME stopped' PROVE \A c \in Conns : ~Loose(c)
        BY <3>1, <4>1, <4>3 DEF OneLeft
      <4> QED
        BY <4>1, <4>2, <4>3 DEF OneLeft
    <3>3. CASE ServeLoop
      <4>1. \A c \in Conns : Loose(c)' => Loose(c)
        BY <1>0, <3>3 DEF Loose
      <4>2. CASE stopped
        <5>1. pc'[S] # "s_accept"
          BY <1>0, <3>3, <4>2
        <5> QED
          BY <3>1, <4>1, <5>1, OneLeftStays
      <4>3. CASE ~stopped
        BY <3>1, <4>3 DEF OneLeft
      <4> QED
        BY <4>2, <4>3
    <3>4. CASE ~ServeAccept /\ ~ServeLoop
      <4>1. \A c \in Conns : Loose(c)' => Loose(c)
        BY <1>0, <1>6, <3>4 DEF Loose, PcTypes
      <4>2. pc'[S] = "s_accept" => pc[S] = "s_accept"
        BY <1>0, <1>6, <3>4 DEF PcTypes
      <4> QED
        BY <3>1, <4>1, <4>2, OneLeftStays
    <3> QED
      BY <3>2, <3>3, <3>4
  <2> QED
    BY <2>1, <2>2, <2>3, <2>4
<1>7. CASE PassStep
  <2> USE DEF PassStep, ServeIter, ServeScan, ServeNext, ServeRead,
             ServeBody, ServeContains, ServePop, ServeClear, ServeClose,
             ServeFree, ServeOnDisconnect, ServeGet,
             ServeOnRecv, ServeDangling, Event, MapIter, MapScan, Torn,
             NextEntry, PopFind, PopClear, Count, CloseObject, Dangling,
             FreeObject, Local, Unread, Fail
  <2>1. Accounted'
    <3>1. \A u \in Users : pc'[u] = pc[u] /\ cur'[u] = cur[u]
      BY <1>0, <1>7 DEF PcTypes, WorkTypes
    <3>2. CASE ServeClear
      BY <1>0, <3>1, <3>2 DEF Accounted, PcTypes, WorkTypes
    <3>3. CASE ServeClose
      BY <1>0, <3>1, <3>3 DEF Accounted, PcTypes, ObjectTypes, WorkTypes
    <3>4. CASE ~ServeClear /\ ~ServeClose
      <4>1. fd' = fd /\ clients' = clients
        BY <1>7, <3>4
      <4>2. /\ pc[S] \notin HandSteps \cup {"exit"}
            /\ pc[S] # "s_close"
        BY <1>0, <1>7, <3>4 DEF PcTypes, WorkTypes
      <4> QED
        BY <3>1, <4>1, <4>2 DEF Accounted
    <3> QED
      BY <3>2, <3>3, <3>4
  <2>2. ClosedFirst'
    BY <1>0, <1>7 DEF ClosedFirst, PcTypes, ObjectTypes, WorkTypes
  <2>3. OneMissed'
    BY <1>0, <1>7 DEF OneMissed, Loose, Ahead, PcTypes, ObjectTypes, WorkTypes
  <2>4. OneLeft'
    <3>1. \A c \in Conns : Loose(c)' => Loose(c)
      BY <1>0, <1>7 DEF Loose, PcTypes, ObjectTypes, WorkTypes
    <3>2. pc'[S] = "s_accept" => pc[S] = "s_accept"
      BY <1>0, <1>7 DEF PcTypes
    <3>3. stopped' = stopped
      BY <1>7
    <3> QED
      BY <3>1, <3>2, <3>3, OneLeftStays
  <2> QED
    BY <2>1, <2>2, <2>3, <2>4
<1>8. ASSUME NEW t \in Threads, UseAfterFree(t) PROVE Descriptors'
  BY <1>8 DEF UseAfterFree, Fail, Accounted, ClosedFirst, OneMissed, OneLeft,
              Loose, Ahead
<1>9. ASSUME NEW c \in Conns, Peers(c) PROVE Descriptors'
  BY <1>9 DEF Peers, PeerConnect, PeerKey, PeerHeader, PeerBody, PeerLeave,
              PeerStep, Accounted, ClosedFirst, OneMissed, OneLeft, Loose,
              Ahead
<1> QED
  BY StepCases, <1>1, <1>2, <1>3, <1>4, <1>5, <1>6, <1>7, <1>8, <1>9

-----------------------------------------------------------------------------
(* Whatever the threads and the peers do, the four parts hold together     *)
(* (all of server.c).                                                      *)
THEOREM Invariance == SafeSpec => []Inv
<1>1. ASSUME Inv, UNCHANGED vars PROVE Inv'
  <2> USE <1>1 DEF Inv, vars, server, map, objects, network, hand, control,
  history
  <2>1. TypeOK'
    BY DEF TypeOK
  <2>2. Lifecycle'
    BY DEF Lifecycle, FreshListener, OneStarter, FlagComing, Down
  <2>3. Ownership'
    BY DEF Ownership, Entries, Owners, InHand, Owns
  <2>4. Events'
    BY NoEvent DEF Events, Greeted, Visits
  <2>5. Descriptors'
    <3>1. Accounted' /\ ClosedFirst'
      BY DEF Descriptors, Accounted, ClosedFirst
    <3>2. \A c \in Conns : Loose(c)' <=> Loose(c)
      BY DEF Loose
    <3>3. OneMissed'
      BY DEF Descriptors, OneMissed, Loose, Ahead
    <3>4. OneLeft'
      BY <3>2, OneLeftStays DEF Descriptors
    <3> QED
      BY <3>1, <3>3, <3>4 DEF Descriptors
  <2> QED
    BY <2>1, <2>2, <2>3, <2>4, <2>5
<1>2. ASSUME Inv, Next PROVE Inv'
  <2>1. TypeOK'
    BY <1>2, NextTypes DEF Inv, Ownership
  <2>2. Lifecycle'
    BY <1>2, LifecycleStep DEF Inv
  <2>3. Ownership'
    BY <1>2, OwnershipStep DEF Inv
  <2>4. Events'
    BY <1>2, EventsStep DEF Inv
  <2>5. Descriptors'
    BY <1>2, DescriptorsStep DEF Inv
  <2> QED
    BY <2>1, <2>2, <2>3, <2>4, <2>5 DEF Inv
<1>3. Inv /\ [Next]_vars => Inv'
  BY <1>1, <1>2
<1> QED
  BY InitInv, <1>3, PTL DEF SafeSpec

(* Every variable keeps its type (all of server.c). *)
THEOREM TypeCorrect == SafeSpec => []TypeOK
<1>1. Inv => TypeOK
  BY DEF Inv
<1> QED
  BY <1>1, Invariance, PTL

(* A server that has been stopped never serves again, for any number of    *)
(* threads in start and stop (server.c:529-580, 592-593).                  *)
THEOREM StoppedStaysDown == SafeSpec => []DoneMeansDown
<1>1. Inv => DoneMeansDown
  BY DEF Inv, Lifecycle, Down, DoneMeansDown
<1> QED
  BY <1>1, Invariance, PTL

(* The events of each client are started in order (server.c:304-438).      *)
THEOREM EventsInOrder == SafeSpec => []EventOrder
<1>1. Inv => EventOrder
  BY DEF Inv, Events
<1> QED
  BY <1>1, Invariance, PTL

(* A thread that has popped an entry is alone to close and free its        *)
(* object, if no other pop of that entry overlapped its own (map.c:190-214,*)
(* server.c:22-32, 639-641, 841-862).                                      *)
THEOREM PopperAloneFrees == SafeSpec => []PopperFrees
<1>1. Inv => PopperFrees
  BY DEF Inv, Ownership, Owners, PopperFrees, Dangling
<1> QED
  BY <1>1, Invariance, PTL

(* On POSIX a stop that went through to its end leaves no serve thread     *)
(* behind (server.c:651-657).                                              *)
THEOREM StopJoins ==
  ASSUME ~Win32
  PROVE  SafeSpec => []StopEndsServing
<1>1. Inv => StopEndsServing
  BY DEF Inv, Lifecycle, Down, StopEndsServing
<1> QED
  BY <1>1, Invariance, PTL

(* Such a stop leaves one accepted descriptor open at most, on both        *)
(* platforms and however many connections there were (server.c:207-213,    *)
(* 293-305, 631-646).                                                      *)
THEOREM StopLeavesOne == SafeSpec => []StopLeavesAtMostOne
<1>1. ASSUME Inv, stopped, \A u \in Users : pc[u] = "idle"
      PROVE  Cardinality({c \in Conns : fd[c] = "open"}) <= 1
  <2> DEFINE Left == {c \in Conns : fd[c] = "open"}
  <2>1. \A c \in Left : Loose(c)
    BY <1>1 DEF Loose
  <2>2. \A c, d \in Left : c = d
    BY <1>1, <2>1 DEF Inv, Descriptors, OneLeft
  <2>3. CASE Left = {}
    BY <2>3, FS_EmptySet
  <2>4. CASE Left # {}
    <3>1. PICK c \in Left : TRUE
      BY <2>4
    <3>2. Left = {c}
      BY <2>2, <3>1
    <3>3. Cardinality(Left) = 1
      BY <3>2, FS_Singleton
    <3> QED
      BY <3>3
  <2> QED
    BY <2>3, <2>4
<1>2. Inv => StopLeavesAtMostOne
  BY <1>1 DEF StopLeavesAtMostOne
<1> QED
  BY <1>2, Invariance, PTL
=============================================================================
