------------------------------- MODULE Client -------------------------------
(***************************************************************************)
(* The life of one socket client (src/src/client.c, POSIX build): the      *)
(* threads of the application that call cdtp_client_connect, _disconnect,  *)
(* _send and _free, the handle thread that connect starts, and the peer.   *)
(* The client object has no lock: a step of this module is at most one     *)
(* access to the shared client or one system call, and steps of different  *)
(* threads interleave freely.                                              *)
(*                                                                         *)
(* A call that returns early without changing anything (an error code) is  *)
(* a stuttering step and is left out.  Behaviour the C standard or POSIX   *)
(* leaves undefined, and SIGPIPE, end the behaviour: fault says why.       *)
(***************************************************************************)
EXTENDS Integers, Sequences

CONSTANTS Users,     \* threads of the application, event callbacks included
          H,         \* the handle thread
          MaxMsgs    \* bound: messages the peer sends

ASSUME ThreadsAssumption == H \notin Users
ASSUME MaxMsgsAssumption == MaxMsgs \in Nat

VARIABLES
  connected, done,   \* client->connected, client->done
  key,               \* client->sock->key has been assigned
  handle,            \* client->handle_thread holds the handle thread
  freed,             \* the client has been freed
  fd,                \* client->sock->sock: "new", "dialing" (a connect() is
                     \* under way), "up" (TCP is up) or "closed"
  blocking,          \* the mode of the socket
  peer,              \* the peer's side of the connection
  sent,              \* messages the peer has begun to send
  wire,              \* what has arrived and has not been read
  waiting,           \* threads blocked in a read() of the socket
  pc,                \* where each thread is; "idle": outside the library
  recvs, discs,      \* on_recv and on_disconnected threads started
  reaps,             \* calls of pthread_join and pthread_detach
  joined,            \* a pthread_join of the handle thread has returned
  crossed,           \* a connect() was called while another was under way
  fault              \* why the behaviour is undefined from here on

flags == <<connected, done>>
object == <<key, handle, freed>>
mode == <<fd, blocking>>
far == <<peer, sent>>
near == <<wire, waiting>>
link == <<mode, far, near>>
events == <<recvs, discs>>
ends == <<reaps, joined, crossed>>
vars == <<flags, object, link, pc, events, ends, fault>>

Threads == Users \cup {H}

DiscSteps == {"d_flag", "d_done", "d_close", "d_reap", "d_join"}
KeyReads == {"k_head", "k_body", "k_other"}
ConnSteps == {"c_connected", "c_connect", "c_dial", "c_flag", "c_block",
              "k_send", "k_store", "c_spawn", "c_assign"} \cup KeyReads
UserSteps == {"idle", "s_key", "s_send"} \cup ConnSteps \cup DiscSteps
HandleSteps == {"none", "h_block", "h_loop", "h_read", "h_none", "h_err",
                "h_zero", "h_got", "h_body", "h_recv", "h_disc", "h_event",
                "exit"} \cup (DiscSteps \ {"d_join"})

PeerOpen == {"hello", "await", "ready", "half"}
PeerClosed == {"fin", "gone"}     \* a read returns 0 once wire is empty
Peers == PeerOpen \cup PeerClosed \cup {"reset"}
Chunks == {"khead", "kbody", "header", "body", "rest"}
Faults == {"none", "wild_thread", "wild_key", "no_key", "use_after_free",
           "SIGPIPE"}

Running == fault = "none"

(* Thread t, at step a, may use the client: the library does not know that *)
(* the object has been freed, the model stops there (UseAfterFree).        *)
At(t, a) == Running /\ ~freed /\ pc[t] = a

Goto(t, a) == pc' = [pc EXCEPT ![t] = a]

(* cdtp_client: flags cleared, a socket, key and handle_thread unassigned. *)
Init ==
  /\ connected = FALSE /\ done = FALSE
  /\ key = FALSE /\ handle = FALSE /\ freed = FALSE
  /\ fd = "new" /\ blocking = TRUE
  /\ peer = "hello" /\ sent = 0 /\ wire = <<>> /\ waiting = {}
  /\ pc = [t \in Threads |-> IF t = H THEN "none" ELSE "idle"]
  /\ recvs = 0 /\ discs = 0
  /\ reaps = 0 /\ joined = FALSE /\ crossed = FALSE
  /\ fault = "none"

-----------------------------------------------------------------------------
(* cdtp_client_connect *)

(* if (client->done) return *)
ConnectDone(u) ==
  /\ At(u, "idle") /\ ~done
  /\ Goto(u, "c_connected")
  /\ UNCHANGED <<flags, object, link, events, ends, fault>>

(* if (client->connected) return *)
ConnectConnected(u) ==
  /\ At(u, "c_connected")
  /\ Goto(u, IF connected THEN "idle" ELSE "c_connect")
  /\ UNCHANGED <<flags, object, link, events, ends, fault>>

(* Mutant of ConnectCall: a socket that is connected or closed is accepted,*)
(* as if the system call did not exclude a second connection.              *)
ConnectCallAgain(u) ==
  /\ At(u, "c_connect")
  /\ fd' = "up" /\ Goto(u, "c_flag")
  /\ UNCHANGED <<flags, object, blocking, far, near, events, ends, fault>>

(***************************************************************************)
(* connect() on a blocking socket.  A second call while the first is under *)
(* way waits with it and, on Linux, returns what the first one returns: 0  *)
(* when the connection comes up.  A socket that is connected (EISCONN) or  *)
(* closed (EBADF) is refused.                                              *)
(***************************************************************************)
ConnectCall(u) ==
  /\ At(u, "c_connect")
  /\ \/ /\ fd = "new" /\ fd' = "dialing"
        /\ Goto(u, "c_dial")
        /\ UNCHANGED crossed
     \/ /\ fd = "dialing" /\ crossed' = TRUE
        /\ Goto(u, "c_dial")
        /\ UNCHANGED fd
     \/ /\ fd # "dialing"
        /\ Goto(u, "idle")
        /\ UNCHANGED <<fd, crossed>>
  /\ UNCHANGED <<flags, object, blocking, far, near, events, reaps, joined>>
  /\ UNCHANGED fault

(* The network: the connection comes up, or is refused and every call that *)
(* waits for it returns the error.                                         *)
Dialed ==
  /\ Running /\ fd = "dialing"
  /\ \/ fd' = "up" /\ UNCHANGED pc
     \/ /\ fd' = "new"
        /\ pc' = [t \in Threads |-> IF pc[t] = "c_dial" THEN "idle" ELSE pc[t]]
  /\ UNCHANGED <<flags, object, blocking, far, near, events, ends, fault>>

(* connect() returns: 0 once the connection has come up, even if another   *)
(* thread has closed the descriptor since, or the error of a reset.  (That *)
(* error makes the kernel take the socket for a new one, on which a third  *)
(* call might dial again; this is left out.)                               *)
ConnectReturn(u) ==
  /\ At(u, "c_dial")
  /\ \/ fd \in {"up", "closed"} /\ Goto(u, "c_flag")
     \/ fd # "dialing" /\ peer = "reset" /\ Goto(u, "idle")
  /\ UNCHANGED <<flags, object, link, events, ends, fault>>

(* client->connected = true, before the key exchange. *)
ConnectFlag(u) ==
  /\ At(u, "c_flag")
  /\ connected' = TRUE
  /\ Goto(u, "c_block")
  /\ UNCHANGED <<done, object, link, events, ends, fault>>

(* fcntl(): the socket is made blocking. *)
ConnectBlock(u) ==
  /\ At(u, "c_block")
  /\ \/ fd = "closed" /\ Goto(u, "idle") /\ UNCHANGED blocking
     \/ fd # "closed" /\ Goto(u, "k_head") /\ blocking' = TRUE
  /\ UNCHANGED <<flags, object, fd, far, near, events, ends, fault>>

-----------------------------------------------------------------------------
(***************************************************************************)
(* read() by thread t.  A thread that is blocked in one (waiting) keeps    *)
(* its hold of the socket when another thread closes the descriptor.       *)
(***************************************************************************)
Open(t) == fd # "closed" \/ t \in waiting
Quiet == wire = <<>> /\ peer \in PeerOpen

Got(t) == Open(t) /\ wire # <<>>
AtEnd(t) == Open(t) /\ wire = <<>> /\ peer \in PeerClosed
Failed(t) == ~Open(t) \/ (wire = <<>> /\ peer = "reset")
NotYet(t) == fd # "closed" /\ Quiet /\ ~blocking /\ t \notin waiting

Wait(t) ==
  /\ fd # "closed" /\ Quiet /\ blocking /\ t \notin waiting
  /\ waiting' = waiting \cup {t}
  /\ UNCHANGED <<wire, pc>>

Return(t, left) == waiting' = waiting \ {t} /\ wire' = left

(* What a read of a header leaves: no body is as short as a header. *)
Past(w) == IF Head(w) \in {"khead", "header"} THEN Tail(w)
           ELSE <<"rest">> \o Tail(w)

(***************************************************************************)
(* _cdtp_client_exchange_keys: the header of the public key, of which five *)
(* bytes or fewer are read, and taken for a size.  Two threads whose       *)
(* connect() calls crossed may both be here, and one may find a message,   *)
(* or what the other has left.  A failure returns from connect and leaves  *)
(* connected TRUE.                                                         *)
(***************************************************************************)
KeyHeader(u) ==
  /\ At(u, "k_head")
  /\ \/ Wait(u)
     \/ /\ Got(u) /\ Return(u, Past(wire))
        /\ \/ Head(wire) = "khead" /\ Goto(u, "k_body")
           \/ Goto(u, "k_other")
     \/ /\ AtEnd(u) \/ Failed(u) \/ NotYet(u)
        /\ Return(u, wire) /\ Goto(u, "idle")
  /\ UNCHANGED <<flags, object, mode, far, events, ends, fault>>

(* The public key, or a failure: the end, an error, a short read. *)
KeyBody(u) ==
  /\ At(u, "k_body")
  /\ \/ Wait(u)
     \/ /\ Got(u) /\ Return(u, Tail(wire))
        /\ \/ Head(wire) = "kbody" /\ Goto(u, "k_send")
           \/ Goto(u, "idle")
     \/ /\ AtEnd(u) \/ Failed(u) \/ NotYet(u)
        /\ Return(u, wire) /\ Goto(u, "idle")
  /\ UNCHANGED <<flags, object, mode, far, events, ends, fault>>

(* Bytes of another size than the key's: the read fails, or gets what is   *)
(* no key, and the parser's NULL is used.                                  *)
KeyOther(u) ==
  /\ At(u, "k_other")
  /\ \/ Wait(u) /\ UNCHANGED fault
     \/ /\ Got(u) /\ Return(u, Tail(wire))
        /\ \/ fault' = "no_key" /\ UNCHANGED pc
           \/ Goto(u, "idle") /\ UNCHANGED fault
     \/ /\ u \notin waiting \/ AtEnd(u) \/ Failed(u)
        /\ Return(u, wire) /\ Goto(u, "idle") /\ UNCHANGED fault
  /\ UNCHANGED <<flags, object, mode, far, events, ends>>

(***************************************************************************)
(* send() on the connection: to go on at ok or to return at failed.  A     *)
(* peer that has closed answers with a reset, and the next send raises     *)
(* SIGPIPE (MSG_NOSIGNAL is not used).                                     *)
(***************************************************************************)
SendOn(u, ok, failed) ==
  \/ /\ fd = "closed"
     /\ Goto(u, failed)
     /\ UNCHANGED <<peer, fault>>
  \/ /\ fd # "closed" /\ peer \in PeerOpen \cup {"fin"}
     /\ peer' = CASE peer = "await" -> "ready"
                  [] peer = "fin" -> "gone"
                  [] OTHER -> peer
     /\ Goto(u, ok)
     /\ UNCHANGED fault
  \/ /\ fd # "closed" /\ peer \in {"gone", "reset"}
     /\ fault' = "SIGPIPE"
     /\ UNCHANGED <<pc, peer>>
  \/ /\ fd # "closed" /\ peer = "reset"      \* ECONNRESET, reported once
     /\ Goto(u, failed)
     /\ UNCHANGED <<peer, fault>>

(* The exchange's send(), of the AES key. *)
KeySend(u) ==
  /\ At(u, "k_send")
  /\ SendOn(u, "k_store", "idle")
  /\ UNCHANGED <<flags, object, mode, sent, near, events, ends>>

(* client->sock->key = key *)
KeyStore(u) ==
  /\ At(u, "k_store")
  /\ key' = TRUE
  /\ Goto(u, "c_spawn")
  /\ UNCHANGED <<flags, handle, freed, link, events, ends, fault>>

(* _cdtp_start_handle_thread: pthread_create, which may fail; 0 is then    *)
(* assigned to handle_thread, which is no thread either.                   *)
Spawn(u) ==
  /\ At(u, "c_spawn")
  /\ \/ pc' = [pc EXCEPT ![u] = "c_assign", ![H] = "h_block"]
     \/ Goto(u, "idle")
  /\ UNCHANGED <<flags, object, link, events, ends, fault>>

(* _cdtp_client_call_handle: the new thread may already be running when    *)
(* client->handle_thread is assigned.                                      *)
Assign(u) ==
  /\ At(u, "c_assign")
  /\ handle' = TRUE
  /\ Goto(u, "idle")
  /\ UNCHANGED <<flags, key, freed, link, events, ends, fault>>

-----------------------------------------------------------------------------
(* cdtp_client_disconnect, called by an application thread or by the       *)
(* handle thread on itself.                                                *)

(* Where the thread goes when the call returns. *)
Back(t) == IF t = H THEN "h_event" ELSE "idle"

(* if (!client->connected) return: an application thread stutters, the     *)
(* handle thread goes on to start on_disconnected.                         *)
DiscCheck(t) ==
  /\ At(t, IF t = H THEN "h_disc" ELSE "idle")
  /\ \/ connected /\ Goto(t, "d_flag")
     \/ ~connected /\ t = H /\ Goto(t, Back(t))
  /\ UNCHANGED <<flags, object, link, events, ends, fault>>

(* Mutant of DiscFlag: the flag is left set. *)
DiscFlagKept(t) ==
  /\ At(t, "d_flag")
  /\ Goto(t, "d_done")
  /\ UNCHANGED <<flags, object, link, events, ends, fault>>

(* client->connected = false *)
DiscFlag(t) ==
  /\ At(t, "d_flag")
  /\ connected' = FALSE
  /\ Goto(t, "d_done")
  /\ UNCHANGED <<done, object, link, events, ends, fault>>

(* client->done = true *)
DiscDone(t) ==
  /\ At(t, "d_done")
  /\ done' = TRUE
  /\ Goto(t, "d_close")
  /\ UNCHANGED <<connected, object, link, events, ends, fault>>

(* Mutant of DiscClose: the result of close() is ignored. *)
DiscCloseUnchecked(t) ==
  /\ At(t, "d_close")
  /\ fd' = "closed"
  /\ Goto(t, "d_reap")
  /\ UNCHANGED <<flags, object, blocking, far, near, events, ends, fault>>

(* close(): fails if another thread closed the socket first, and the call  *)
(* then returns without waiting for the handle thread.                     *)
DiscClose(t) ==
  /\ At(t, "d_close")
  /\ fd' = "closed"
  /\ Goto(t, IF fd = "up" THEN "d_reap" ELSE Back(t))
  /\ UNCHANGED <<flags, object, blocking, far, near, events, ends, fault>>

(* Mutant of DiscReap: the handle thread joins itself like any other.      *)
DiscReapJoin(t) ==
  /\ At(t, "d_reap") /\ handle
  /\ Goto(t, "d_join")
  /\ reaps' = reaps + 1
  /\ UNCHANGED <<flags, object, link, events, joined, crossed, fault>>

(* pthread_equal(handle_thread, self): the handle thread detaches itself,  *)
(* another thread joins it; an unassigned handle_thread is joined too.     *)
DiscReap(t) ==
  /\ At(t, "d_reap")
  /\ \/ /\ handle
        /\ Goto(t, IF t = H THEN Back(t) ELSE "d_join")
        /\ UNCHANGED fault
     \/ /\ ~handle
        /\ fault' = "wild_thread"
        /\ UNCHANGED pc
  /\ reaps' = reaps + 1
  /\ UNCHANGED <<flags, object, link, events, joined, crossed>>

(* Mutant of DiscJoin: does not wait. *)
DiscJoinAtOnce(u) ==
  /\ Running /\ pc[u] = "d_join"
  /\ joined' = TRUE
  /\ Goto(u, "idle")
  /\ UNCHANGED <<flags, object, link, events, reaps, crossed, fault>>

(* pthread_join returns; the client is not used after it. *)
DiscJoin(u) ==
  /\ Running /\ pc[u] = "d_join" /\ pc[H] = "exit"
  /\ joined' = TRUE
  /\ Goto(u, "idle")
  /\ UNCHANGED <<flags, object, link, events, reaps, crossed, fault>>

-----------------------------------------------------------------------------
(* cdtp_client_send *)

(* if (!client->connected) return *)
SendCheck(u) ==
  /\ At(u, "idle") /\ connected
  /\ Goto(u, "s_key")
  /\ UNCHANGED <<flags, object, link, events, ends, fault>>

(* _cdtp_crypto_aes_encrypt(client->sock->key, ...) *)
SendKey(u) ==
  /\ At(u, "s_key")
  /\ \/ key /\ Goto(u, "s_send") /\ UNCHANGED fault
     \/ ~key /\ fault' = "wild_key" /\ UNCHANGED pc
  /\ UNCHANGED <<flags, object, link, events, ends>>

(* send() *)
SendWire(u) ==
  /\ At(u, "s_send")
  /\ SendOn(u, "idle", "idle")
  /\ UNCHANGED <<flags, object, mode, sent, near, events, ends>>

(* cdtp_client_free: only client->done is checked, and the key is freed    *)
(* whether or not it was ever assigned.                                    *)
Free(u) ==
  /\ At(u, "idle") /\ done
  /\ freed' = TRUE
  /\ fault' = IF key THEN fault ELSE "wild_key"
  /\ UNCHANGED <<flags, key, handle, link, pc, events, ends>>

-----------------------------------------------------------------------------
(* _cdtp_client_handle, on the handle thread *)

(* fcntl(): the socket is made non-blocking. *)
HandleBlock ==
  /\ At(H, "h_block")
  /\ \/ fd = "closed" /\ Goto(H, "exit") /\ UNCHANGED blocking
     \/ fd # "closed" /\ Goto(H, "h_loop") /\ blocking' = FALSE
  /\ UNCHANGED <<flags, object, fd, far, near, events, ends, fault>>

(* while (client->connected) *)
HandleLoop ==
  /\ At(H, "h_loop")
  /\ Goto(H, IF connected THEN "h_read" ELSE "exit")
  /\ UNCHANGED <<flags, object, link, events, ends, fault>>

(* Mutant of HandleRead: the end of the stream looks like no data. *)
HandleReadNoEnd ==
  /\ At(H, "h_read")
  /\ \/ Wait(H)
     \/ Got(H) /\ Return(H, Past(wire)) /\ Goto(H, "h_got")
     \/ (NotYet(H) \/ AtEnd(H)) /\ Return(H, wire) /\ Goto(H, "h_none")
     \/ Failed(H) /\ Return(H, wire) /\ Goto(H, "h_err")
  /\ UNCHANGED <<flags, object, mode, far, events, ends, fault>>

(* read() of a header: a size, nothing, the end of the stream or an error. *)
(* A connect call that crossed another one's may have made the socket      *)
(* blocking again, and the read then waits.                                *)
HandleRead ==
  /\ At(H, "h_read")
  /\ \/ Wait(H)
     \/ Got(H) /\ Return(H, Past(wire)) /\ Goto(H, "h_got")
     \/ NotYet(H) /\ Return(H, wire) /\ Goto(H, "h_none")
     \/ AtEnd(H) /\ Return(H, wire) /\ Goto(H, "h_zero")
     \/ Failed(H) /\ Return(H, wire) /\ Goto(H, "h_err")
  /\ UNCHANGED <<flags, object, mode, far, events, ends, fault>>

(* The flag is read again, then the result decides: EAGAIN goes round, any *)
(* other error returns without disconnecting.                              *)
HandleCheck ==
  /\ \E res \in {"h_none", "h_err", "h_zero", "h_got"} :
       /\ At(H, res)
       /\ Goto(H, CASE ~connected \/ res = "h_err" -> "exit"
                    [] connected /\ res = "h_none" -> "h_loop"
                    [] connected /\ res = "h_zero" -> "h_disc"
                    [] connected /\ res = "h_got" -> "h_body")
  /\ UNCHANGED <<flags, object, link, events, ends, fault>>


(***************************************************************************)
(* read() of the body, one sleep after the header, and no flag check: all  *)
(* of it, the end of the stream, or an error return: EAGAIN or a reset, a  *)
(* socket that is closed by now, or only a part of the body.               *)
(***************************************************************************)
HandleBody ==
  /\ At(H, "h_body")
  /\ \/ Wait(H)
     \/ /\ Got(H) /\ Return(H, Tail(wire))
        /\ Goto(H, "h_recv") \/ Goto(H, "exit")
     \/ AtEnd(H) /\ Return(H, wire) /\ Goto(H, "h_disc")
     \/ (Failed(H) \/ NotYet(H)) /\ Return(H, wire) /\ Goto(H, "exit")
  /\ UNCHANGED <<flags, object, mode, far, events, ends, fault>>

(* _cdtp_client_call_on_recv: decrypts with client->sock->key and starts   *)
(* an event thread; pthread_create may fail, and the event is then lost.   *)
HandleRecv ==
  /\ At(H, "h_recv")
  /\ recvs' \in {recvs, recvs + 1}
  /\ Goto(H, "h_loop")
  /\ UNCHANGED <<flags, object, link, discs, ends, fault>>

(* Mutant of HandleEvent: the loop goes on after the event. *)
HandleEventStay ==
  /\ At(H, "h_event")
  /\ discs' \in {discs, discs + 1}
  /\ Goto(H, "h_disc")
  /\ UNCHANGED <<flags, object, link, recvs, ends, fault>>

(* _cdtp_client_call_on_disconnected, then return *)
HandleEvent ==
  /\ At(H, "h_event")
  /\ discs' \in {discs, discs + 1}
  /\ Goto(H, "exit")
  /\ UNCHANGED <<flags, object, link, recvs, ends, fault>>

(* Any of the above by a thread whose client has been freed; one that is   *)
(* blocked in a read does not use the client until it returns.             *)
UseAfterFree(t) ==
  /\ Running /\ freed
  /\ pc[t] \notin {"idle", "none", "exit", "d_join"}
  /\ t \in waiting => ~Quiet
  /\ fault' = "use_after_free"
  /\ UNCHANGED <<flags, object, link, pc, events, ends>>

-----------------------------------------------------------------------------
(* The peer, a CDTP server: its public key, then, once it has the client's *)
(* key, messages, of which header and body may arrive apart.               *)

(* The connection is up while the descriptor, or a read(), holds it. *)
Linked == fd = "up" \/ waiting # {}

PeerSends(from, to, chunks) ==
  /\ Running /\ Linked /\ peer = from
  /\ peer' = to
  /\ wire' = wire \o chunks

PeerHello ==
  /\ PeerSends("hello", "await", <<"khead", "kbody">>)
  /\ UNCHANGED <<flags, object, mode, waiting, sent, pc, events, ends, fault>>

PeerHeader ==
  /\ sent < MaxMsgs
  /\ PeerSends("ready", "half", <<"header">>)
  /\ sent' = sent + 1
  /\ UNCHANGED <<flags, object, mode, waiting, pc, events, ends, fault>>

PeerBody ==
  /\ PeerSends("half", "ready", <<"body">>)
  /\ UNCHANGED <<flags, object, mode, waiting, sent, pc, events, ends, fault>>

(* The peer closes the connection, or resets it. *)
PeerLeave ==
  /\ Running /\ Linked /\ peer \in PeerOpen
  /\ peer' \in {"fin", "reset"}
  /\ UNCHANGED <<flags, object, mode, near, sent, pc, events, ends, fault>>

-----------------------------------------------------------------------------
Call(u) ==
  ConnectDone(u) \/ DiscCheck(u) \/ SendCheck(u) \/ Free(u)

UserStep(u) ==
  \/ ConnectConnected(u) \/ ConnectCall(u) \/ ConnectReturn(u)
  \/ ConnectFlag(u) \/ ConnectBlock(u)
  \/ KeyHeader(u) \/ KeyBody(u) \/ KeyOther(u) \/ KeySend(u) \/ KeyStore(u)
  \/ Spawn(u) \/ Assign(u)
  \/ SendKey(u) \/ SendWire(u)
  \/ DiscJoin(u)

DiscStep(t) ==
  DiscFlag(t) \/ DiscDone(t) \/ DiscClose(t) \/ DiscReap(t) \/ UseAfterFree(t)

HandleStep ==
  \/ HandleBlock \/ HandleLoop \/ HandleRead \/ HandleCheck \/ HandleBody
  \/ HandleRecv \/ HandleEvent \/ DiscCheck(H)

PeerStep == PeerHello \/ PeerHeader \/ PeerBody \/ PeerLeave

Next ==
  \/ \E u \in Users : Call(u) \/ UserStep(u) \/ DiscStep(u)
  \/ HandleStep \/ DiscStep(H)
  \/ Dialed
  \/ PeerStep

(* A thread that is in the library goes on, and TCP does not dial for      *)
(* ever; nobody has to call the library, and nothing is assumed of the     *)
(* peer.                                                                   *)
Fairness ==
  /\ WF_vars(Dialed)
  /\ \A u \in Users : WF_vars(UserStep(u) \/ DiscStep(u))
  /\ WF_vars(HandleStep \/ DiscStep(H))

SafeSpec == Init /\ [][Next]_vars

Spec == SafeSpec /\ Fairness

-----------------------------------------------------------------------------
TypeOK ==
  /\ connected \in BOOLEAN /\ done \in BOOLEAN
  /\ key \in BOOLEAN /\ handle \in BOOLEAN /\ freed \in BOOLEAN
  /\ fd \in {"new", "dialing", "up", "closed"} /\ blocking \in BOOLEAN
  /\ peer \in Peers
  /\ wire \in Seq(Chunks) /\ waiting \subseteq Threads
  /\ sent \in 0..MaxMsgs
  /\ pc \in [Threads -> UserSteps \cup HandleSteps]
  /\ pc[H] \in HandleSteps /\ \A u \in Users : pc[u] \in UserSteps
  /\ recvs \in Nat /\ discs \in Nat
  /\ reaps \in Nat /\ joined \in BOOLEAN /\ crossed \in BOOLEAN
  /\ fault \in Faults

(* A client comes up once: although connect reads done and connected long  *)
(* before it sets connected, with no lock, and several threads may be in   *)
(* connect and disconnect at a time, no client that disconnect has marked  *)
(* done is ever connected again (client.c:325-369, 402-403).  What it      *)
(* rests on is connect(), which lets one call through, unless two have     *)
(* been in it at a time: then both come to line 369, and one of them after *)
(* a disconnect.                                                           *)
DoneMeansDown == done /\ connected => crossed

(* The handle thread is joined or detached at most once, by whichever      *)
(* thread's close() succeeded, whatever the race between threads of the    *)
(* application and the handle thread's own disconnect (client.c:426-446).  *)
OneReaper == reaps <= 1

(* on_disconnected is started at most once, even when the handle thread's  *)
(* disconnect loses the race against an application thread's, and when two *)
(* connects have crossed.  The client is down by then (test.c:432 asserts  *)
(* as much in the callback), unless two connects have crossed.             *)
ToldWhenDown == discs <= 1 /\ (discs > 0 /\ connected => crossed)

(* Once a disconnect has joined the handle thread, or on_disconnected has  *)
(* been started, no event is started any more (client.c:209-258, 431-438). *)
SilentAfterEnd == [][joined \/ discs > 0 => UNCHANGED events]_vars

(* Thread t is blocked in a read until the peer does something. *)
Blocked(t) == t \in waiting /\ Quiet


(* A handle thread whose peer has gone does not poll for ever: it leaves,  *)
(* one way or another (client.c:208-258).                                  *)
HandlerLeaves ==
  pc[H] # "none" /\ peer \notin PeerOpen ~> pc[H] = "exit" \/ ~Running

-----------------------------------------------------------------------------
(* What the repository says and the code does not do.                      *)

(* client.h:64, of cdtp_client_is_connected: "@return If the client is     *)
(* connected to a server."  Between calls, a client that says so has a     *)
(* handle thread that serves it: connect did not fail, nor has the handle  *)
(* thread returned without disconnecting.                                  *)
ConnectedIsServed ==
  connected /\ (\A u \in Users : pc[u] = "idle") =>
    pc[H] \notin {"none", "exit"}

(* client.c:619, in cdtp_client_free: "Make sure the client is done".  A   *)
(* client that is done, and that its only user is done with, is freed      *)
(* while nothing in the library uses it.                                   *)
FreeIsSafe == fault # "use_after_free"
=============================================================================
