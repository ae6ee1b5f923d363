------------------------------- MODULE Server -------------------------------
(***************************************************************************)
(* One socket server (src/src/server.c): the serve thread, application     *)
(* threads that start and stop the server, send, remove clients and free   *)
(* it, and the peers that connect.  Nothing in the server is locked.  A    *)
(* step is one system call, one access to the client map or one use of a   *)
(* client object; steps of different threads interleave freely.            *)
(*                                                                         *)
(* A connection stands for its client id and for its CDTPSocket object:    *)
(* next_client_id is only ever incremented, by the serve thread, so ids    *)
(* and accepted connections are one to one.  The map is then a set and a   *)
(* count, and a list made from it is the set of those not yet visited.     *)
(* Looking up an entry and clearing it are two steps of a pop, reading the *)
(* count and collecting the entries two of an iteration; get, contains and *)
(* set are one.  The slots and the rehash are those of module ClientMap,   *)
(* for calls that do not overlap.                                          *)
(*                                                                         *)
(* As in Client, calls that return early with no effect are stuttering     *)
(* steps, and fault ends a behaviour the C standard leaves undefined.      *)
(***************************************************************************)
EXTENDS Integers, Sequences, FiniteSets

CONSTANTS Users,     \* threads of the application, event callbacks included
          S,         \* the serve thread
          Conns,     \* connections peers may make
          NoConn,    \* no connection
          Win32,     \* built for Windows: TRUE, for POSIX: FALSE
          Calls,     \* the calls the application makes once it has started
          MaxMsgs    \* bound: messages all peers send

ASSUME ThreadsAssumption == S \notin Users
ASSUME ConnsAssumption == NoConn \notin Conns
ASSUME PlatformAssumption == Win32 \in BOOLEAN
ASSUME CallsAssumption == Calls \subseteq {"stop", "remove", "send", "free"}
ASSUME MaxMsgsAssumption == MaxMsgs \in Nat

VARIABLES
  serving, done,     \* server->serving, server->done
  thread,            \* server->serve_thread holds the serve thread
  freed,             \* the server has been freed
  listener,          \* the listening socket: "new", "listening", "closed"
  clients,           \* the client map: connections with an entry
  size,              \* map->size, which may differ from their number
  fd,                \* the server's descriptor of a connection
  mem,               \* the CDTPSocket of a connection
  peer,              \* the peer's side of a connection
  inbox,             \* what has arrived on a connection and is unread
  sent,              \* messages the peers have begun to send
  pc,                \* where each thread is
  cur,               \* the connection each thread is working on
  todo,              \* those left of the list it is going through
  seen,              \* the map's size as the thread has read it for a list
  log,               \* events started for a connection, in order
  stopped,           \* a stop has returned after its last step
  raced,             \* connections whose entry two overlapping pops cleared
  fault              \* why the behaviour is undefined from here on

server == <<serving, done, thread, freed, listener>>
map == <<clients, size>>
objects == <<map, fd, mem>>
network == <<peer, inbox, sent>>
hand == <<cur, todo, seen>>
control == <<pc, hand>>
history == <<log, stopped, raced>>
vars == <<server, objects, network, control, history, fault>>

Threads == Users \cup {S}

StopSteps == {"sp_flag", "sp_done", "sp_iter", "sp_scan", "sp_next",
              "sp_close", "sp_pop", "sp_clear", "sp_null", "sp_free",
              "sp_listen", "sp_join"}
UserSteps == StopSteps \cup
             {"idle", "st_serving", "st_bind", "st_flag", "st_spawn",
              "st_assign", "rm_pop", "rm_clear", "rm_close", "rm_free",
              "sn_iter", "sn_scan", "sn_next", "sn_get", "sn_key", "sn_send"}
ServeSteps == {"none", "s_block", "s_loop", "s_accept", "s_err", "s_none",
               "s_new", "s_pub", "s_key", "s_set", "s_connect", "s_iter",
               "s_scan", "s_next", "s_read", "s_body", "s_contains", "s_pop",
               "s_clear", "s_close", "s_free", "s_disconnect", "s_get",
               "s_recv", "exit"}

(* Where a thread has found the entry it pops, and where it holds the      *)
(* object it has popped.                                                   *)
ClearSteps == {"sp_clear", "rm_clear", "s_clear"}
OwnSteps == {"sp_free", "rm_close", "rm_free", "s_close", "s_free"}

PeerOpen == {"queued", "greeted", "ready", "half"}
PeerClosed == {"fin", "gone"}
Faults == {"none", "wild_thread", "use_after_free", "null_deref",
           "double_free", "bad_list", "SIGPIPE"}

Running == fault = "none"

At(t, a) == Running /\ ~freed /\ pc[t] = a

Goto(t, a) == pc' = [pc EXCEPT ![t] = a]

(* A thread's cur is a local variable, gone when its call returns. *)
Local(t) ==
  cur' = IF pc'[t] = "idle" THEN [cur EXCEPT ![t] = NoConn] ELSE cur

Fail(f) == fault' = f /\ UNCHANGED pc

(* cdtp_server: an empty map, a socket; serve_thread is left unassigned. *)
Init ==
  /\ serving = FALSE /\ done = FALSE /\ thread = FALSE /\ freed = FALSE
  /\ listener = "new"
  /\ clients = {} /\ size = 0
  /\ fd = [c \in Conns |-> "none"]
  /\ mem = [c \in Conns |-> "none"]
  /\ peer = [c \in Conns |-> "off"]
  /\ inbox = [c \in Conns |-> <<>>]
  /\ sent = 0
  /\ pc = [t \in Threads |-> IF t = S THEN "none" ELSE "idle"]
  /\ cur = [t \in Threads |-> NoConn]
  /\ todo = [t \in Threads |-> {}]
  /\ seen = [t \in Threads |-> 0]
  /\ log = [c \in Conns |-> <<>>]
  /\ stopped = FALSE
  /\ raced = {}
  /\ fault = "none"

-----------------------------------------------------------------------------
(* Steps several operations share.                                         *)

(* Another thread is about to change the map, or in the middle of it. *)
Changing(t) == \E v \in Threads \ {t} : pc[v] \in ClearSteps \cup {"s_set"}

(* map->size++ or --: of two that overlap one may be lost. *)
Count(t, d) ==
  \/ size' = size + d
  \/ Changing(t) /\ size' = size

(* An entry is half written or half cleared while it is read. *)
Torn ==
  \/ pc[S] = "s_set"
  \/ \E v \in Threads : pc[v] \in ClearSteps /\ cur[v] \in clients

(* _cdtp_client_map_iter: memory for as many entries as the map counts.    *)
MapIter(t, here, next) ==
  /\ At(t, here)
  /\ seen' = [seen EXCEPT ![t] = size]
  /\ Goto(t, next)
  /\ UNCHANGED <<server, objects, network, cur, todo, history, fault>>

(* Then the entries are collected.  Fewer leave the end of the list        *)
(* uninitialised, more overrun it, and a torn one has no socket, which is  *)
(* harmless in a list whose sockets are not used.                          *)
MapScan(t, here, next, torn) ==
  /\ At(t, here)
  /\ \/ /\ seen[t] = Cardinality(clients)
        /\ todo' = [todo EXCEPT ![t] = clients]
        /\ Goto(t, next)
        /\ UNCHANGED fault
     \/ /\ seen[t] # Cardinality(clients) \/ torn
        /\ Fail("bad_list")
        /\ UNCHANGED todo
  /\ seen' = [seen EXCEPT ![t] = 0]
  /\ UNCHANGED <<server, objects, network, cur, history>>

(* The next entry of a thread's list, or the end of the list. *)
NextEntry(t, here, there, end) ==
  /\ At(t, here)
  /\ \/ /\ todo[t] = {}
        /\ cur' = [cur EXCEPT ![t] = NoConn]
        /\ Goto(t, end)
        /\ UNCHANGED todo
     \/ \E c \in todo[t] :
          /\ cur' = [cur EXCEPT ![t] = c]
          /\ todo' = [todo EXCEPT ![t] = @ \ {c}]
          /\ Goto(t, there)
  /\ UNCHANGED <<server, objects, network, seen, history, fault>>

(* _cdtp_client_map_pop: the entry of the thread's connection is found, or *)
(* NULL is returned.                                                       *)
PopFind(t, here, found, null) ==
  /\ At(t, here)
  /\ Goto(t, IF cur[t] \in clients THEN found ELSE null)
  /\ Local(t)
  /\ UNCHANGED <<server, objects, network, todo, seen, history, fault>>

(***************************************************************************)
(* The entry that was found is cleared, and its socket returned.  If       *)
(* another pop has cleared it since, the socket may have been read before  *)
(* that, and both return it, or after it, and this one returns NULL.       *)
(***************************************************************************)
PopClear(t, here, sock, null) ==
  /\ At(t, here)
  /\ \/ Goto(t, sock)
     \/ cur[t] \notin clients /\ Goto(t, null)
  /\ Local(t)
  /\ clients' = clients \ {cur[t]}
  /\ Count(t, -1)
  /\ raced' = IF cur[t] \in clients THEN raced ELSE raced \cup {cur[t]}
  /\ UNCHANGED <<server, fd, mem, network, todo, seen, log, stopped, fault>>

(* free() of the thread's connection object. *)
FreeObject(t, here, next) ==
  /\ At(t, here)
  /\ \/ mem[cur[t]] = "live" /\ Goto(t, next) /\ UNCHANGED fault
     \/ mem[cur[t]] = "freed" /\ Fail("double_free")
  /\ mem' = [mem EXCEPT ![cur[t]] = "freed"]
  /\ Local(t)
  /\ UNCHANGED <<server, map, fd, network, todo, seen, history>>

(* A step of the thread that reads its connection object. *)
Dangling(t) == mem[cur[t]] = "freed"

(* close() of a client's descriptor, read from its object. *)
CloseObject(t, here, next) ==
  /\ At(t, here)
  /\ \/ /\ Dangling(t)
        /\ Fail("use_after_free")
        /\ UNCHANGED fd
     \/ /\ ~Dangling(t)
        /\ Goto(t, next)
        /\ fd' = [fd EXCEPT ![cur[t]] = "closed"]
        /\ UNCHANGED fault
  /\ Local(t)
  /\ UNCHANGED <<server, map, mem, network, todo, seen, history>>

(* send() to a peer; a peer that has closed answers with a reset, and the  *)
(* next send raises SIGPIPE on POSIX.                                      *)
SendTo(t, c, ok, failed) ==
  \/ /\ fd[c] = "open" /\ peer[c] \in PeerOpen \cup {"fin"}
     /\ peer' = [peer EXCEPT ![c] = CASE @ = "queued" -> "greeted"
                                      [] @ = "fin" -> "gone"
                                      [] OTHER -> @]
     /\ Goto(t, ok)
     /\ UNCHANGED fault
  \/ /\ fd[c] = "open" /\ peer[c] \in {"gone", "reset"} /\ ~Win32
     /\ Fail("SIGPIPE")
     /\ UNCHANGED peer
  \/ /\ fd[c] = "closed" \/ peer[c] = "reset" \/ (peer[c] = "gone" /\ Win32)
     /\ Goto(t, failed)
     /\ UNCHANGED <<peer, fault>>

-----------------------------------------------------------------------------
(* cdtp_server_start *)

(* if (server->done) return *)
StartDone(u) ==
  /\ At(u, "idle") /\ ~done
  /\ Goto(u, "st_serving")
  /\ UNCHANGED <<server, objects, network, hand, history, fault>>

(* if (server->serving) return *)
StartServing(u) ==
  /\ At(u, "st_serving")
  /\ Goto(u, IF serving THEN "idle" ELSE "st_bind")
  /\ UNCHANGED <<server, objects, network, hand, history, fault>>

(* Mutant of StartBind: a bound or closed socket is accepted. *)
StartBindAgain(u) ==
  /\ At(u, "st_bind")
  /\ listener' = "listening" /\ Goto(u, "st_flag")
  /\ UNCHANGED <<serving, done, thread, freed, objects, network, hand,
                 history, fault>>

(* bind() and listen(): refused for an address in use, and by the kernel   *)
(* for a socket that is bound (EINVAL) or closed (EBADF).                  *)
StartBind(u) ==
  /\ At(u, "st_bind")
  /\ \/ listener = "new" /\ listener' = "listening" /\ Goto(u, "st_flag")
     \/ Goto(u, "idle") /\ UNCHANGED listener
  /\ UNCHANGED <<serving, done, thread, freed, objects, network, hand,
                 history, fault>>

(* server->serving = true *)
StartFlag(u) ==
  /\ At(u, "st_flag")
  /\ serving' = TRUE
  /\ Goto(u, "st_spawn")
  /\ UNCHANGED <<done, thread, freed, listener, objects, network, hand,
                 history, fault>>

(* _cdtp_start_serve_thread: pthread_create may fail; serve_thread is then *)
(* 0, no thread either.                                                    *)
StartSpawn(u) ==
  /\ At(u, "st_spawn")
  /\ \/ pc' = [pc EXCEPT ![u] = "st_assign", ![S] = "s_block"]
     \/ Goto(u, "idle")
  /\ UNCHANGED <<server, objects, network, hand, history, fault>>

(* _cdtp_server_call_serve: server->serve_thread is assigned when the      *)
(* thread is already running.                                              *)
StartAssign(u) ==
  /\ At(u, "st_assign")
  /\ thread' = TRUE
  /\ Goto(u, "idle")
  /\ UNCHANGED <<serving, done, freed, listener, objects, network, hand,
                 history, fault>>

-----------------------------------------------------------------------------
(* cdtp_server_stop *)

(* if (!server->serving) return *)
StopCheck(u) ==
  /\ At(u, "idle") /\ "stop" \in Calls /\ serving
  /\ Goto(u, "sp_flag")
  /\ UNCHANGED <<server, objects, network, hand, history, fault>>

(* server->serving = false *)
StopFlag(u) ==
  /\ At(u, "sp_flag")
  /\ serving' = FALSE
  /\ Goto(u, "sp_done")
  /\ UNCHANGED <<done, thread, freed, listener, objects, network, hand,
                 history, fault>>

(* server->done = true *)
StopDone(u) ==
  /\ At(u, "sp_done")
  /\ done' = TRUE
  /\ Goto(u, "sp_iter")
  /\ UNCHANGED <<serving, thread, freed, listener, objects, network, hand,
                 history, fault>>

StopIter(u) == MapIter(u, "sp_iter", "sp_scan")

StopScan(u) == MapScan(u, "sp_scan", "sp_next", Torn)

StopNext(u) == NextEntry(u, "sp_next", "sp_close", "sp_listen")

(* close(iter->clients[i]->sock->sock), before the entry is popped; when   *)
(* it fails the call returns and leaves the rest open.                     *)
StopClose(u) ==
  CloseObject(u, "sp_close", IF fd[cur[u]] = "open" THEN "sp_pop" ELSE "idle")

(* Mutant of StopPop: the object on the list is freed, popped or not. *)
StopPopUnchecked(u) == PopFind(u, "sp_pop", "sp_clear", "sp_free")

StopPop(u) == PopFind(u, "sp_pop", "sp_clear", "sp_null")

StopClear(u) == PopClear(u, "sp_clear", "sp_free", "sp_null")

(* client->key of what the pop returned, unchecked. *)
StopNull(u) ==
  /\ At(u, "sp_null")
  /\ Fail("null_deref")
  /\ UNCHANGED <<server, objects, network, hand, history>>

StopFree(u) == FreeObject(u, "sp_free", "sp_next")

(* close() of the listening socket. *)
StopListen(u) ==
  /\ At(u, "sp_listen")
  /\ Goto(u, IF listener = "listening" THEN "sp_join" ELSE "idle")
  /\ listener' = "closed"
  /\ UNCHANGED <<serving, done, thread, freed, objects, network, hand,
                 history, fault>>

(* Mutant of StopJoin: POSIX does not wait either. *)
StopJoinAtOnce(u) ==
  /\ Running /\ pc[u] = "sp_join" /\ thread
  /\ stopped' = TRUE
  /\ Goto(u, "idle")
  /\ UNCHANGED <<server, objects, network, hand, log, raced, fault>>

(***************************************************************************)
(* The caller is never the serve thread.  POSIX joins it.  The Windows     *)
(* build has the test the other way round: it waits only if it is the      *)
(* serve thread itself, and here just closes the handle.                   *)
(***************************************************************************)
StopJoin(u) ==
  /\ Running /\ pc[u] = "sp_join"
  /\ \/ /\ thread /\ (Win32 \/ pc[S] = "exit")
        /\ stopped' = TRUE
        /\ Goto(u, "idle")
        /\ UNCHANGED fault
     \/ /\ ~thread
        /\ Fail("wild_thread")
        /\ UNCHANGED stopped
  /\ UNCHANGED <<server, objects, network, hand, log, raced>>

-----------------------------------------------------------------------------
(* cdtp_server_remove_client *)

(* if (!server->serving) return *)
RemoveCheck(u) ==
  /\ At(u, "idle") /\ "remove" \in Calls /\ serving
  /\ \E c \in Conns : cur' = [cur EXCEPT ![u] = c]
  /\ Goto(u, "rm_pop")
  /\ UNCHANGED <<server, objects, network, todo, seen, history, fault>>

RemovePop(u) == PopFind(u, "rm_pop", "rm_clear", "idle")

RemoveClear(u) == PopClear(u, "rm_clear", "rm_close", "idle")

(* close(client->sock): an error keeps the object. *)
RemoveClose(u) ==
  CloseObject(u, "rm_close", IF fd[cur[u]] = "open" THEN "rm_free" ELSE "idle")

RemoveFree(u) == FreeObject(u, "rm_free", "idle")

-----------------------------------------------------------------------------
(* cdtp_server_send, and cdtp_server_send_all, which calls it for every    *)
(* entry of a list.                                                        *)

SendCheck(u) ==
  /\ At(u, "idle") /\ "send" \in Calls /\ serving
  /\ \/ /\ \E c \in Conns : todo' = [todo EXCEPT ![u] = {c}]
        /\ Goto(u, "sn_next")
     \/ Goto(u, "sn_iter") /\ UNCHANGED todo
  /\ UNCHANGED <<server, objects, network, cur, seen, history, fault>>

SendIter(u) == MapIter(u, "sn_iter", "sn_scan")

SendScan(u) == MapScan(u, "sn_scan", "sn_next", FALSE)

(* if (!server->serving) return, in each call of cdtp_server_send *)
SendNext(u) ==
  (serving \/ todo[u] = {}) /\ NextEntry(u, "sn_next", "sn_get", "idle")

SendDrop(u) ==
  /\ At(u, "sn_next") /\ ~serving /\ todo[u] # {}
  /\ todo' = [todo EXCEPT ![u] = {}]
  /\ UNCHANGED <<server, objects, network, pc, cur, seen, history, fault>>

(* _cdtp_client_map_get: the client may not exist. *)
SendGet(u) ==
  /\ At(u, "sn_get")
  /\ Goto(u, IF cur[u] \in clients THEN "sn_key" ELSE "sn_next")
  /\ UNCHANGED <<server, objects, network, hand, history, fault>>

(* _cdtp_crypto_aes_encrypt(client->key, ...) *)
SendKey(u) ==
  /\ At(u, "sn_key")
  /\ \/ ~Dangling(u) /\ Goto(u, "sn_send") /\ UNCHANGED fault
     \/ Dangling(u) /\ Fail("use_after_free")
  /\ UNCHANGED <<server, objects, network, hand, history>>

(* send(client->sock, ...) *)
SendWire(u) ==
  /\ At(u, "sn_send")
  /\ \/ ~Dangling(u) /\ SendTo(u, cur[u], "sn_next", "sn_next")
     \/ Dangling(u) /\ Fail("use_after_free") /\ UNCHANGED peer
  /\ UNCHANGED <<server, objects, inbox, sent, hand, history>>

(* cdtp_server_free: only server->done is checked. *)
Free(u) ==
  /\ At(u, "idle") /\ "free" \in Calls /\ done
  /\ freed' = TRUE
  /\ UNCHANGED <<serving, done, thread, listener, objects, network, control,
                 history, fault>>

-----------------------------------------------------------------------------
(* _cdtp_server_serve, on the serve thread: accepting a connection.        *)

(* fcntl(): the listening socket is made non-blocking. *)
ServeBlock ==
  /\ At(S, "s_block")
  /\ Goto(S, IF listener = "closed" THEN "exit" ELSE "s_loop")
  /\ UNCHANGED <<server, objects, network, hand, history, fault>>

(* while (server->serving) *)
ServeLoop ==
  /\ At(S, "s_loop")
  /\ Goto(S, IF serving THEN "s_accept" ELSE "exit")
  /\ UNCHANGED <<server, objects, network, hand, history, fault>>

(* accept(): an error, nothing, or a new descriptor. *)
ServeAccept ==
  /\ At(S, "s_accept")
  /\ LET waiting == {c \in Conns : peer[c] # "off" /\ fd[c] = "none"}
     IN  \/ /\ listener = "closed"
            /\ Goto(S, "s_err")
            /\ UNCHANGED <<fd, cur>>
         \/ /\ listener # "closed" /\ waiting = {}
            /\ Goto(S, "s_none")
            /\ UNCHANGED <<fd, cur>>
         \/ /\ listener # "closed"
            /\ \E c \in waiting : /\ cur' = [cur EXCEPT ![S] = c]
                                  /\ fd' = [fd EXCEPT ![c] = "open"]
            /\ Goto(S, "s_new")
  /\ UNCHANGED <<server, map, mem, network, todo, seen, history, fault>>

(* if (!server->serving) return, with the new descriptor left open; any    *)
(* error but EAGAIN ends the loop too.                                     *)
ServeCheck ==
  /\ \E res \in {"s_err", "s_none", "s_new"} :
       /\ At(S, res)
       /\ Goto(S, CASE ~serving \/ res = "s_err" -> "exit"
                    [] serving /\ res = "s_none" -> "s_iter"
                    [] serving /\ res = "s_new" -> "s_pub")
  /\ UNCHANGED <<server, objects, network, hand, history, fault>>

(* _cdtp_server_exchange_keys: the public key is sent. *)
ServePub ==
  /\ At(S, "s_pub")
  /\ SendTo(S, cur[S], "s_key", "exit")
  /\ UNCHANGED <<server, objects, inbox, sent, hand, history>>

(* Mutant of ServeKey: a failed exchange drops the connection and serves   *)
(* on, but the descriptor is not closed.                                   *)
ServeKeySkip ==
  /\ At(S, "s_key")
  /\ \/ /\ inbox[cur[S]] # <<>>
        /\ inbox' = [inbox EXCEPT ![cur[S]] = Tail(@)]
        /\ Goto(S, "s_set") \/ Goto(S, "s_iter")
     \/ /\ inbox[cur[S]] = <<>> /\ peer[cur[S]] \notin PeerOpen
        /\ Goto(S, "s_iter")
        /\ UNCHANGED inbox
  /\ UNCHANGED <<server, objects, peer, sent, hand, history, fault>>

(* The client's key is read, blocking; a failure (end of file, error, a    *)
(* short read) returns from the serve loop and leaves serving TRUE.        *)
ServeKey ==
  /\ At(S, "s_key")
  /\ \/ /\ inbox[cur[S]] # <<>>
        /\ inbox' = [inbox EXCEPT ![cur[S]] = Tail(@)]
        /\ Goto(S, "s_set") \/ Goto(S, "exit")
     \/ /\ inbox[cur[S]] = <<>> /\ peer[cur[S]] \notin PeerOpen
        /\ Goto(S, "exit")
        /\ UNCHANGED inbox
  /\ UNCHANGED <<server, objects, peer, sent, hand, history, fault>>

(* _cdtp_client_map_set *)
ServeSet ==
  /\ At(S, "s_set")
  /\ clients' = clients \cup {cur[S]}
  /\ Count(S, 1)
  /\ mem' = [mem EXCEPT ![cur[S]] = "live"]
  /\ Goto(S, "s_connect")
  /\ UNCHANGED <<server, fd, network, hand, history, fault>>

(* Starting the thread of an event; whether pthread_create succeeds makes  *)
(* no difference to the server.                                            *)
Event(here, e, next) ==
  /\ At(S, here)
  /\ log' = [log EXCEPT ![cur[S]] = Append(@, e)]
  /\ Goto(S, next)
  /\ UNCHANGED <<server, objects, network, hand, stopped, raced,
                 fault>>

ServeOnConnect == Event("s_connect", "connect", "s_iter")

-----------------------------------------------------------------------------
(* _cdtp_server_serve: one pass over the clients.                          *)

ServeIter == MapIter(S, "s_iter", "s_scan")

ServeScan == MapScan(S, "s_scan", "s_next", Torn)

ServeNext == NextEntry(S, "s_next", "s_read", "s_loop")

(* Where a read of the serve thread leads if nothing could be read. *)
Unread(c, none) ==
  CASE fd[c] = "closed" -> "s_contains"
    [] fd[c] = "open" /\ peer[c] \in PeerClosed -> "s_contains"
    [] fd[c] = "open" /\ peer[c] = "reset" ->
         IF Win32 THEN "s_contains" ELSE "exit"
    [] OTHER -> none

(* Mutant of ServeRead: the end of a stream is taken for no data. *)
ServeReadNoEnd ==
  LET c == cur[S] IN
  /\ At(S, "s_read") /\ ~Dangling(S)
  /\ \/ /\ fd[c] = "open" /\ inbox[c] # <<>>
        /\ inbox' = [inbox EXCEPT ![c] = Tail(@)]
        /\ Goto(S, "s_body")
     \/ /\ fd[c] = "closed" \/ inbox[c] = <<>>
        /\ Goto(S, IF peer[c] \in PeerClosed THEN "s_next"
                   ELSE Unread(c, "s_next"))
        /\ UNCHANGED inbox
  /\ UNCHANGED <<server, objects, peer, sent, hand, history, fault>>

(* read(client_sock->sock) of a header: the list's pointer is used, which  *)
(* another thread may have freed since.                                    *)
ServeRead ==
  LET c == cur[S] IN
  /\ At(S, "s_read")
  /\ \/ /\ Dangling(S)
        /\ Fail("use_after_free")
        /\ UNCHANGED inbox
     \/ /\ ~Dangling(S) /\ fd[c] = "open" /\ inbox[c] # <<>>
        /\ inbox' = [inbox EXCEPT ![c] = Tail(@)]
        /\ Goto(S, "s_body")
        /\ UNCHANGED fault
     \/ /\ ~Dangling(S) /\ (fd[c] = "closed" \/ inbox[c] = <<>>)
        /\ Goto(S, Unread(c, "s_next"))
        /\ UNCHANGED <<inbox, fault>>
  /\ UNCHANGED <<server, objects, peer, sent, hand, history>>

(* Mutant of ServeBody: a body that is late is waited for. *)
ServeBodyWait ==
  LET c == cur[S] IN
  /\ At(S, "s_body") /\ ~Dangling(S)
  /\ \/ /\ fd[c] = "open" /\ inbox[c] # <<>>
        /\ inbox' = [inbox EXCEPT ![c] = Tail(@)]
        /\ Goto(S, "s_get") \/ Goto(S, "exit")
     \/ /\ fd[c] = "open" /\ inbox[c] = <<>> /\ peer[c] \notin PeerOpen
        /\ Goto(S, Unread(c, "exit"))
        /\ UNCHANGED inbox
  /\ UNCHANGED <<server, objects, peer, sent, hand, history, fault>>

(* read() of the body, one sleep later: a part of it, or nothing yet, ends *)
(* the loop.                                                               *)
ServeBody ==
  LET c == cur[S] IN
  /\ At(S, "s_body")
  /\ \/ /\ Dangling(S)
        /\ Fail("use_after_free")
        /\ UNCHANGED inbox
     \/ /\ ~Dangling(S) /\ fd[c] = "open" /\ inbox[c] # <<>>
        /\ inbox' = [inbox EXCEPT ![c] = Tail(@)]
        /\ Goto(S, "s_get") \/ Goto(S, "exit")
        /\ UNCHANGED fault
     \/ /\ ~Dangling(S) /\ (fd[c] = "closed" \/ inbox[c] = <<>>)
        /\ Goto(S, Unread(c, "exit"))
        /\ UNCHANGED <<inbox, fault>>
  /\ UNCHANGED <<server, objects, peer, sent, hand, history>>

(* Mutant of ServeContains: the event is started, and the client is not    *)
(* disconnected.                                                           *)
ServeContainsKeep ==
  /\ At(S, "s_contains")
  /\ Goto(S, IF cur[S] \in clients THEN "s_disconnect" ELSE "s_next")
  /\ UNCHANGED <<server, objects, network, hand, history, fault>>

(* if (_cdtp_client_map_contains(...)) *)
ServeContains ==
  /\ At(S, "s_contains")
  /\ Goto(S, IF cur[S] \in clients THEN "s_pop" ELSE "s_next")
  /\ UNCHANGED <<server, objects, network, hand, history, fault>>

(* Mutant of ServePop: the client is removed on the path of                *)
(* cdtp_server_remove_client, which the application's threads take.        *)
ServePopRemove == PopFind(S, "s_pop", "rm_clear", "idle")

(* _cdtp_server_disconnect_sock: pop, then close and free unless NULL was  *)
(* returned; on_disconnect either way.                                     *)
ServePop == PopFind(S, "s_pop", "s_clear", "s_disconnect")

ServeClear == PopClear(S, "s_clear", "s_close", "s_disconnect")

ServeClose == CloseObject(S, "s_close", "s_free")

ServeFree == FreeObject(S, "s_free", "s_disconnect")

ServeOnDisconnect == Event("s_disconnect", "disconnect", "s_next")

(* _cdtp_server_call_on_recv: the map is asked again, and its answer is    *)
(* used unchecked.                                                         *)
ServeGet ==
  /\ At(S, "s_get")
  /\ \/ cur[S] \in clients /\ Goto(S, "s_recv") /\ UNCHANGED fault
     \/ cur[S] \notin clients /\ Fail("null_deref")
  /\ UNCHANGED <<server, objects, network, hand, history>>

(* _cdtp_crypto_aes_decrypt(client->key, ...), then on_recv. *)
ServeOnRecv == Event("s_recv", "recv", "s_next") /\ ~Dangling(S)

ServeDangling ==
  /\ At(S, "s_recv") /\ Dangling(S)
  /\ Fail("use_after_free")
  /\ UNCHANGED <<server, objects, network, hand, history>>

(* Any step of a thread in a server that has been freed. *)
UseAfterFree(t) ==
  /\ Running /\ freed
  /\ pc[t] \notin {"idle", "none", "exit", "sp_join"}
  /\ Fail("use_after_free")
  /\ UNCHANGED <<server, objects, network, hand, history>>

-----------------------------------------------------------------------------
(* The peers: CDTP clients.  Each connects once, sends its key when it has *)
(* the server's, then messages, header and body apart, and may leave at    *)
(* any point.                                                              *)

PeerStep(c, from, to) ==
  /\ Running /\ peer[c] = from /\ fd[c] # "closed"
  /\ peer' = [peer EXCEPT ![c] = to]
  /\ UNCHANGED <<server, objects, control, history, fault>>

Arrives(c, chunk) == inbox' = [inbox EXCEPT ![c] = Append(@, chunk)]

PeerConnect(c) ==
  /\ listener = "listening"
  /\ PeerStep(c, "off", "queued")
  /\ UNCHANGED <<inbox, sent>>

PeerKey(c) ==
  /\ PeerStep(c, "greeted", "ready")
  /\ Arrives(c, "key")
  /\ UNCHANGED sent

PeerHeader(c) ==
  /\ sent < MaxMsgs
  /\ PeerStep(c, "ready", "half")
  /\ Arrives(c, "header")
  /\ sent' = sent + 1

PeerBody(c) ==
  /\ PeerStep(c, "half", "ready")
  /\ Arrives(c, "body")
  /\ UNCHANGED sent

PeerLeave(c) ==
  /\ \E from \in PeerOpen, to \in {"fin", "reset"} : PeerStep(c, from, to)
  /\ UNCHANGED <<inbox, sent>>

-----------------------------------------------------------------------------
Call(u) ==
  StartDone(u) \/ StopCheck(u) \/ RemoveCheck(u) \/ SendCheck(u) \/ Free(u)

UserStep(u) ==
  \/ StartServing(u) \/ StartBind(u) \/ StartFlag(u) \/ StartSpawn(u)
  \/ StartAssign(u)
  \/ StopFlag(u) \/ StopDone(u) \/ StopIter(u) \/ StopScan(u) \/ StopNext(u)
  \/ StopClose(u) \/ StopPop(u) \/ StopClear(u) \/ StopNull(u)
  \/ StopFree(u) \/ StopListen(u) \/ StopJoin(u)
  \/ RemovePop(u) \/ RemoveClear(u) \/ RemoveClose(u) \/ RemoveFree(u)
  \/ SendIter(u) \/ SendScan(u) \/ SendNext(u) \/ SendDrop(u)
  \/ SendGet(u) \/ SendKey(u) \/ SendWire(u)
  \/ UseAfterFree(u)

ServeStep ==
  \/ ServeBlock \/ ServeLoop \/ ServeAccept \/ ServeCheck \/ ServePub
  \/ ServeKey \/ ServeSet \/ ServeOnConnect
  \/ ServeIter \/ ServeScan \/ ServeNext \/ ServeRead \/ ServeBody
  \/ ServeContains
  \/ ServePop \/ ServeClear \/ ServeClose \/ ServeFree \/ ServeOnDisconnect
  \/ ServeGet \/ ServeOnRecv \/ ServeDangling
  \/ UseAfterFree(S)

Peers(c) ==
  PeerConnect(c) \/ PeerKey(c) \/ PeerHeader(c) \/ PeerBody(c) \/ PeerLeave(c)

Next ==
  \/ \E u \in Users : Call(u) \/ UserStep(u)
  \/ ServeStep
  \/ \E c \in Conns : Peers(c)

(* A thread in the library goes on; nothing is assumed of callers, peers.  *)
Fairness == WF_vars(ServeStep) /\ \A u \in Users : WF_vars(UserStep(u))

SafeSpec == Init /\ [][Next]_vars

Spec == SafeSpec /\ Fairness

-----------------------------------------------------------------------------
TypeOK ==
  /\ serving \in BOOLEAN /\ done \in BOOLEAN /\ thread \in BOOLEAN
  /\ freed \in BOOLEAN /\ stopped \in BOOLEAN
  /\ listener \in {"new", "listening", "closed"}
  /\ clients \subseteq Conns /\ size \in Int
  /\ fd \in [Conns -> {"none", "open", "closed"}]
  /\ mem \in [Conns -> {"none", "live", "freed"}]
  /\ peer \in [Conns -> {"off", "reset"} \cup PeerOpen \cup PeerClosed]
  /\ inbox \in [Conns -> Seq({"key", "header", "body"})]
  /\ sent \in 0..MaxMsgs
  /\ pc \in [Threads -> UserSteps \cup ServeSteps]
  /\ pc[S] \in ServeSteps /\ \A u \in Users : pc[u] \in UserSteps
  /\ cur \in [Threads -> Conns \cup {NoConn}]
  /\ todo \in [Threads -> SUBSET Conns]
  /\ seen \in [Threads -> Int]
  /\ log \in [Conns -> Seq({"connect", "recv", "disconnect"})]
  /\ raced \subseteq Conns \cup {NoConn}
  /\ fault \in Faults

(* A server that has been stopped never serves again, although start reads *)
(* done and serving, unlocked, long before it sets serving, and several    *)
(* threads may be in start and stop (server.c:529-580, 592-593).           *)
DoneMeansDown == done => ~serving

(* The events of a client are started in order: connect, messages, at most *)
(* one disconnect, and nothing after that, whatever other threads remove   *)
(* or stop meanwhile (server.c:304-438).                                   *)
EventOrder ==
  \A c \in Conns : \A i \in 1..Len(log[c]) :
    /\ i = 1 <=> log[c][i] = "connect"
    /\ log[c][i] = "disconnect" => i = Len(log[c])

(* Whichever of stop, remove_client and the serve thread has popped a      *)
(* client's entry closes and frees its object, and nobody else has freed   *)
(* it: a thread that still works on it finds it freed only if two pops of  *)
(* that entry overlapped (server.c:22-32, 639-641, 841-862).               *)
PopperFrees ==
  \A t \in Threads : pc[t] \in OwnSteps /\ Dangling(t) => cur[t] \in raced

(* A stop that went through to its end leaves no serve thread behind on    *)
(* POSIX, whatever the thread was doing (server.c:651-657).                *)
StopEndsServing == stopped => pc[S] = "exit"

(* When such a stop is over and no call is in progress, at most one        *)
(* accepted descriptor is still open: the serve thread had at most one     *)
(* connection in hand (server.c:207-213, 293-305, 631-646).                *)
StopLeavesAtMostOne ==
  stopped /\ Running /\ (\A u \in Users : pc[u] = "idle") =>
    Cardinality({c \in Conns : fd[c] = "open"}) <= 1

(* The serve thread waits for a peer's key, and none has come. *)
Held ==
  /\ pc[S] = "s_key" /\ cur[S] # NoConn
  /\ inbox[cur[S]] = <<>> /\ peer[cur[S]] \in PeerOpen

(* A stop returns from wherever it is, unless a peer that has connected    *)
(* and sends no key holds the serve thread in its blocking read            *)
(* (server.c:138, 653).                                                    *)
StopReturns ==
  \A u \in Users :
    pc[u] \in StopSteps ~> pc[u] = "idle" \/ ~Running \/ Held

(* A client that closes is taken out of the map, unless the serve loop has *)
(* ended or is held (server.c:382-386).                                    *)
CloseIsNoticed ==
  \A c \in Conns :
    c \in clients /\ peer[c] = "fin" ~>
      c \notin clients \/ pc[S] = "exit" \/ ~Running \/ Held

-----------------------------------------------------------------------------
(* What the repository says and the code does not do.                      *)

(* server.h:70, of cdtp_server_is_serving: "@return If the server is       *)
(* serving."  A server that says so has a serve thread that still serves.  *)
ServingIsServed == serving => pc[S] # "exit"

(* server.c:875, in cdtp_server_send: "Make sure the client exists".  The  *)
(* client it found is still there when it is used: no call, nor the serve  *)
(* thread meanwhile, uses a client object that is gone.                    *)
ClientsAreValid == fault \notin {"use_after_free", "null_deref"}
=============================================================================
