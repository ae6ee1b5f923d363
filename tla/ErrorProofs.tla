---------------------------- MODULE ErrorProofs ----------------------------
(***************************************************************************)
(* Proofs about ErrorState, for any number of threads that report, of      *)
(* threads that poll and of reports.                                       *)
(***************************************************************************)
EXTENDS ErrorState, TLAPS

(* A report that a thread has neither stored nor told. *)
Pending(r) == pc[r] \in {"code", "call"}

(* A code in a getter's hand, read and not cleared yet. *)
InHand(p, n) == pc[p] = "clear" /\ mine[p] = n

(***************************************************************************)
(* Where the untold reports are: with the thread that makes them, which    *)
(* alone has their number, then in CDTP_ERROR, then in a getter's hand.    *)
(* Hands that hold the same number have read it before either cleared it.  *)
(***************************************************************************)
PendingIsUntold ==
  \A r \in Reporters : Pending(r) =>
    /\ mine[r] \in 1..issued
    /\ told[mine[r]] = 0
    /\ code # mine[r] /\ \A p \in Pollers : ~InHand(p, mine[r])

PendingIsUnique ==
  \A r, s \in Reporters :
    Pending(r) /\ Pending(s) /\ mine[r] = mine[s] => r = s

StoredIsUntold ==
  \A n \in Reports : code = n => n <= issued /\ told[n] = 0

HeldIsUntold ==
  \A p \in Pollers, n \in Reports :
    InHand(p, n) => n <= issued /\ (told[n] = 0 \/ n \in shared)

TwoHandsShare ==
  \A p, q \in Pollers, n \in Reports :
    InHand(p, n) /\ InHand(q, n) => p = q \/ n \in shared

UnissuedIsUntold == \A n \in Reports : n > issued => told[n] = 0

Whereabouts ==
  /\ PendingIsUntold /\ PendingIsUnique
  /\ StoredIsUntold /\ HeldIsUntold /\ TwoHandsShare /\ UnissuedIsUntold
  /\ ToldOnce

(* The pointers are never taken back. *)
Assigned ==
  /\ ready => func /\ arg
  /\ pc[Owner] = "arg" => func
  /\ CallsAreSafe

(* While no calls have overlapped, one thread at most is in a call, and    *)
(* the two codes are as that thread has left them.                         *)
Alone ==
  ~mixed =>
    /\ \A s, t \in Threads : pc[s] # "idle" /\ pc[t] # "idle" => s = t
    /\ (\A t \in Threads :
          pc[t] \in {"idle", "code", "call", "clear", "func", "arg"})
         => code = under
    /\ \A r \in Reporters : pc[r] = "under" => code = mine[r]
    /\ \A p \in Pollers : pc[p] \in {"get_under", "clear_under"} => code = 0

(* The roles keep to their own steps. *)
Roles ==
  /\ \A r \in Reporters : pc[r] \in {"idle", "code", "under", "call"}
  /\ \A p \in Pollers :
       pc[p] \in {"idle", "clear", "get_under", "clear_under"}
  /\ pc[Owner] \in {"idle", "func", "arg"}

Inv == TypeOK /\ Roles /\ Whereabouts /\ Assigned /\ Alone

(* mixed remains a Boolean. *)
LEMMA EnterTyping ==
  ASSUME NEW t, Enter(t)
  PROVE  mixed' \in BOOLEAN
BY Zenon DEF Enter

(* Telling a code counts for that report and no other; 0 is not counted. *)
LEMMA Telling ==
  ASSUME told \in [Reports -> Nat], NEW n \in 0..MaxReports, Tell(n)
  PROVE  /\ told' \in [Reports -> Nat]
         /\ \A m \in Reports :
              told'[m] = IF m = n THEN told[m] + 1 ELSE told[m]
<1>1. CASE n = 0
  BY <1>1, MaxReportsAssumption DEF Tell, Reports
<1>2. CASE n # 0
  <2>1. told' = [told EXCEPT ![n] = @ + 1]
    BY <1>2 DEF Tell
  <2>2. n \in Reports
    BY <1>2, MaxReportsAssumption DEF Reports
  <2> QED
    BY <2>1, <2>2
<1> QED
  BY <1>1, <1>2

(* Every step keeps the types. *)
LEMMA Typing ==
  ASSUME TypeOK, [Next]_vars
  PROVE  TypeOK'
<1> USE MaxReportsAssumption
<1>1. CASE UNCHANGED vars
  BY <1>1 DEF TypeOK, vars, stored, callback, heard
<1>2. ASSUME NEW r \in Reporters, Report(r)
      PROVE  TypeOK'
  <2>0. r \in Threads
    BY DEF Threads
  <2>1. CASE SetCheck(r)
    BY <2>0, <2>1, EnterTyping
       DEF TypeOK, SetCheck, At, Goto, Places, stored, callback, heard
  <2>2. CASE SetCode(r)
    BY <2>0, <2>2 DEF TypeOK, SetCode, At, Goto, Places, callback, heard
  <2>3. CASE SetUnder(r)
    BY <2>0, <2>3 DEF TypeOK, SetUnder, At, Goto, Places, callback, heard
  <2>4. CASE SetCall(r)
    <3>1. told' \in [Reports -> Nat]
      BY <2>0, <2>4, Telling DEF TypeOK, SetCall
    <3> QED
      BY <2>0, <2>4, <3>1
         DEF TypeOK, SetCall, At, Goto, Places, stored, callback, heard
  <2> QED
    BY <1>2, <2>1, <2>2, <2>3, <2>4 DEF Report
<1>3. ASSUME NEW p \in Pollers, Poll(p)
      PROVE  TypeOK'
  <2>0. p \in Threads
    BY DEF Threads
  <2>1. CASE GetError(p)
    <3>1. code # 0 => code \in Reports
      BY DEF TypeOK, Reports
    <3>2. shared' \subseteq Reports
      BY <2>1, <3>1 DEF TypeOK, GetError, InAnothersHand
    <3> QED
      BY <2>0, <2>1, <3>2, EnterTyping
         DEF TypeOK, GetError, At, Goto, Places, stored, callback, heard
  <2>2. CASE ClearError(p)
    <3>1. told' \in [Reports -> Nat]
      BY <2>0, <2>2, Telling DEF TypeOK, ClearError
    <3> QED
      BY <2>0, <2>2, <3>1
         DEF TypeOK, ClearError, At, Goto, Places, callback, heard
  <2>3. CASE GetUnder(p)
    BY <2>0, <2>3
       DEF TypeOK, GetUnder, At, Goto, Places, stored, callback, heard
  <2>4. CASE ClearUnder(p)
    BY <2>0, <2>4 DEF TypeOK, ClearUnder, At, Goto, Places, callback, heard
  <2> QED
    BY <1>3, <2>1, <2>2, <2>3, <2>4 DEF Poll
<1>4. ASSUME Register(Owner)
      PROVE  TypeOK'
  <2>0. Owner \in Threads
    BY DEF Threads
  <2>1. CASE RegisterFlag(Owner)
    BY <2>0, <2>1, EnterTyping
       DEF TypeOK, RegisterFlag, At, Goto, Places, stored, heard
  <2>2. CASE RegisterFunc(Owner)
    BY <2>0, <2>2 DEF TypeOK, RegisterFunc, At, Goto, Places, stored, heard
  <2>3. CASE RegisterArg(Owner)
    BY <2>0, <2>3 DEF TypeOK, RegisterArg, At, Goto, Places, stored, heard
  <2>4. CASE Unregister(Owner)
    BY <2>0, <2>4, EnterTyping DEF TypeOK, Unregister, At, stored, heard
  <2> QED
    BY <1>4, <2>1, <2>2, <2>3, <2>4 DEF Register
<1> QED
  BY <1>1, <1>2, <1>3, <1>4 DEF Next

(* A thread's steps stay within the calls of its role. *)
LEMMA RolesKept ==
  ASSUME TypeOK, Roles, [Next]_vars
  PROVE  Roles'
<1> USE RolesAssumption DEF Roles, Threads
<1>0. pc \in [Threads -> Places]
  BY DEF TypeOK
<1>1. CASE UNCHANGED vars
  BY <1>1 DEF vars
<1>2. ASSUME NEW r \in Reporters, Report(r)
      PROVE  Roles'
  BY <1>0, <1>2 DEF Report, SetCheck, SetCode, SetUnder, SetCall, Goto
<1>3. ASSUME NEW p \in Pollers, Poll(p)
      PROVE  Roles'
  BY <1>0, <1>3 DEF Poll, GetError, ClearError, GetUnder, ClearUnder, Goto
<1>4. CASE Register(Owner)
  BY <1>0, <1>4
     DEF Register, RegisterFlag, RegisterFunc, RegisterArg, Unregister, Goto
<1> QED
  BY <1>1, <1>2, <1>3, <1>4 DEF Next

(* The pointers: only the steps of Owner write them. *)
LEMMA AssignedKept ==
  ASSUME TypeOK, Roles, Assigned, [Next]_vars
  PROVE  Assigned'
<1> USE RolesAssumption DEF Assigned, CallsAreSafe
<1>0. pc \in [Threads -> Places] /\ Owner \in Threads
  BY DEF TypeOK, Threads
<1>1. CASE UNCHANGED vars
  BY <1>1 DEF vars, callback
<1>2. ASSUME NEW r \in Reporters, Report(r)
      PROVE  Assigned'
  <2>1. pc'[Owner] = pc[Owner]
    BY <1>0, <1>2 DEF Report, SetCheck, SetCode, SetUnder, SetCall, Goto
  <2>2. UNCHANGED <<ready, func, arg>>
    BY <1>2 DEF Report, SetCheck, SetCode, SetUnder, SetCall, callback
  <2>3. CallsAreSafe'
    BY <1>2, <2>2 DEF Report, SetCheck, SetCode, SetUnder, SetCall
  <2> QED
    BY <2>1, <2>2, <2>3
<1>3. ASSUME NEW p \in Pollers, Poll(p)
      PROVE  Assigned'
  <2>1. pc'[Owner] = pc[Owner]
    BY <1>0, <1>3 DEF Poll, GetError, ClearError, GetUnder, ClearUnder, Goto
  <2> QED
    BY <1>3, <2>1
       DEF Poll, GetError, ClearError, GetUnder, ClearUnder, callback
<1>4. CASE Register(Owner)
  <2>1. CASE RegisterFlag(Owner)
    BY <1>0, <2>1 DEF RegisterFlag, Goto
  <2>2. CASE RegisterFunc(Owner)
    BY <1>0, <2>2 DEF RegisterFunc, Goto
  <2>3. CASE RegisterArg(Owner)
    BY <1>0, <2>3 DEF RegisterArg, At, Running, Goto
  <2>4. CASE Unregister(Owner)
    BY <2>4 DEF Unregister
  <2> QED
    BY <1>4, <2>1, <2>2, <2>3, <2>4 DEF Register
<1> QED
  BY <1>1, <1>2, <1>3, <1>4 DEF Next

(* Each number is in one place at a time, and leaves it told or overwritten. *)
LEMMA WhereaboutsKept ==
  ASSUME TypeOK, Roles, Whereabouts, [Next]_vars
  PROVE  Whereabouts'
<1> USE RolesAssumption, MaxReportsAssumption
        DEF Whereabouts, PendingIsUntold, PendingIsUnique, StoredIsUntold,
            HeldIsUntold, TwoHandsShare, UnissuedIsUntold, ToldOnce, Pending,
            InHand, Reports, heard
<1>0. /\ pc \in [Threads -> Places] /\ mine \in [Threads -> 0..MaxReports]
      /\ code \in 0..MaxReports /\ issued \in 0..MaxReports
      /\ told \in [Reports -> Nat]
      /\ Owner \in Threads
      /\ Pollers \subseteq Threads /\ Reporters \subseteq Threads
  BY DEF TypeOK, Threads
<1>1. CASE UNCHANGED vars
  BY <1>1 DEF vars, stored
<1>2. ASSUME NEW r \in Reporters, Report(r)
      PROVE  Whereabouts'
  <2>0. r \in Threads /\ r \notin Pollers
    BY <1>0
  <2>1. CASE SetCheck(r)
    <3>1. /\ issued' = issued + 1 /\ issued' \in Reports
          /\ mine' = [mine EXCEPT ![r] = issued']
          /\ pc' = [pc EXCEPT ![r] = IF registered THEN "call" ELSE "code"]
          /\ UNCHANGED <<code, told, shared>>
      BY <1>0, <2>1 DEF SetCheck, Goto, stored
    <3>2. /\ told[issued'] = 0 /\ code # issued'
          /\ \A p \in Pollers : ~InHand(p, issued')
      BY <1>0, <3>1
    <3>3. \A p \in Pollers : pc'[p] = pc[p] /\ mine'[p] = mine[p]
      BY <1>0, <2>0, <3>1
    <3>4. PendingIsUntold'
      BY <1>0, <2>0, <3>1, <3>2, <3>3
    <3>5. PendingIsUnique'
      BY <1>0, <2>0, <3>1
    <3> QED
      BY <1>0, <3>1, <3>3, <3>4, <3>5
  <2>2. CASE SetCode(r)
    <3>1. /\ pc' = [pc EXCEPT ![r] = "under"] /\ pc[r] = "code"
          /\ code' = mine[r] /\ UNCHANGED <<mine, issued, told, shared>>
      BY <2>2 DEF SetCode, At, Goto
    <3>2. \A p \in Pollers : pc'[p] = pc[p] /\ mine'[p] = mine[p]
      BY <1>0, <2>0, <3>1
    <3> QED
      BY <1>0, <2>0, <3>1, <3>2
  <2>3. CASE SetUnder(r)
    BY <1>0, <2>0, <2>3 DEF SetUnder, At, Goto
  <2>4. CASE SetCall(r)
    <3>1. /\ pc' = [pc EXCEPT ![r] = "idle"] /\ pc[r] = "call"
          /\ UNCHANGED <<code, mine, issued, shared>>
      BY <2>4 DEF SetCall, At, Goto, stored
    <3>2. \A m \in Reports :
            told'[m] = IF m = mine[r] THEN told[m] + 1 ELSE told[m]
      BY <1>0, <2>0, <2>4, Telling DEF SetCall
    <3>3. mine[r] \in 1..issued /\ told[mine[r]] = 0
      BY <3>1
    <3>4. PendingIsUntold'
      BY <1>0, <2>0, <3>1, <3>2
    <3>5. StoredIsUntold' /\ HeldIsUntold' /\ TwoHandsShare'
      BY <1>0, <2>0, <3>1, <3>2
    <3> QED
      BY <1>0, <2>0, <3>1, <3>2, <3>3, <3>4, <3>5
  <2> QED
    BY <1>2, <2>1, <2>2, <2>3, <2>4 DEF Report
<1>3. ASSUME NEW p \in Pollers, Poll(p)
      PROVE  Whereabouts'
  <2>0. p \in Threads /\ \A r \in Reporters : r # p
    BY <1>0
  <2>1. CASE GetError(p)
    <3>1. /\ pc' = [pc EXCEPT ![p] = "clear"]
          /\ mine' = [mine EXCEPT ![p] = code]
          /\ UNCHANGED <<code, issued, told>>
      BY <2>1 DEF GetError, Goto, stored
    <3>2. shared \subseteq shared'
      BY <2>1 DEF GetError
    <3>3. \A q \in Pollers : q # p /\ InHand(q, code) /\ code \in Reports
                              => code \in shared'
      BY <1>0, <2>1 DEF GetError, InAnothersHand
    <3>4. PendingIsUntold' /\ PendingIsUnique'
      BY <1>0, <2>0, <3>1
    <3>5. StoredIsUntold' /\ UnissuedIsUntold' /\ ToldOnce'
      BY <3>1, <3>2
    <3>6. HeldIsUntold'
      BY <1>0, <2>0, <3>1, <3>2
    <3>7. TwoHandsShare'
      BY <1>0, <2>0, <3>1, <3>2, <3>3
    <3> QED
      BY <3>4, <3>5, <3>6, <3>7
  <2>2. CASE ClearError(p)
    <3>1. /\ pc' = [pc EXCEPT ![p] = "get_under"] /\ pc[p] = "clear"
          /\ code' = 0 /\ UNCHANGED <<mine, issued, shared>>
      BY <2>2 DEF ClearError, At, Goto
    <3>2. \A m \in Reports :
            told'[m] = IF m = mine[p] THEN told[m] + 1 ELSE told[m]
      BY <1>0, <2>0, <2>2, Telling DEF ClearError
    <3>3. PendingIsUntold' /\ PendingIsUnique'
      BY <1>0, <2>0, <3>1, <3>2
    <3>4. StoredIsUntold'
      BY <1>0, <3>1
    <3>5. UnissuedIsUntold' /\ ToldOnce'
      BY <1>0, <2>0, <3>1, <3>2
    <3>6. HeldIsUntold' /\ TwoHandsShare'
      BY <1>0, <2>0, <3>1, <3>2
    <3> QED
      BY <3>3, <3>4, <3>5, <3>6
  <2>3. CASE GetUnder(p)
    BY <1>0, <2>0, <2>3 DEF GetUnder, At, Goto, stored
  <2>4. CASE ClearUnder(p)
    BY <1>0, <2>0, <2>4 DEF ClearUnder, At, Goto
  <2> QED
    BY <1>3, <2>1, <2>2, <2>3, <2>4 DEF Poll
<1>4. CASE Register(Owner)
  <2>0. /\ UNCHANGED <<code, mine, issued, told, shared>>
        /\ \A t \in Threads : t # Owner => pc'[t] = pc[t]
    BY <1>0, <1>4 DEF Register, RegisterFlag, RegisterFunc, RegisterArg,
                      Unregister, Goto, stored
  <2> QED
    BY <1>0, <2>0
<1> QED
  BY <1>1, <1>2, <1>3, <1>4 DEF Next

(* Codes and the one thread in a call. *)
LEMMA AloneKept ==
  ASSUME TypeOK, Roles, Alone, [Next]_vars
  PROVE  Alone'
<1> USE RolesAssumption DEF Alone
<1>0. /\ pc \in [Threads -> Places] /\ mine \in [Threads -> 0..MaxReports]
      /\ Owner \in Threads
      /\ Pollers \subseteq Threads /\ Reporters \subseteq Threads
  BY DEF TypeOK, Threads
<1>1. CASE UNCHANGED vars
  BY <1>1 DEF vars, stored
<1>2. ASSUME NEW r \in Reporters, Report(r)
      PROVE  Alone'
  <2>1. CASE SetCheck(r)
    BY <1>0, <2>1 DEF SetCheck, At, Goto, Enter, stored, Roles
  <2>2. CASE SetCode(r)
    BY <1>0, <2>2 DEF SetCode, At, Goto, Roles
  <2>3. CASE SetUnder(r)
    BY <1>0, <2>3 DEF SetUnder, At, Goto, Roles
  <2>4. CASE SetCall(r)
    BY <1>0, <2>4 DEF SetCall, At, Goto, stored, Roles
  <2> QED
    BY <1>2, <2>1, <2>2, <2>3, <2>4 DEF Report
<1>3. ASSUME NEW p \in Pollers, Poll(p)
      PROVE  Alone'
  <2>1. CASE GetError(p)
    BY <1>0, <2>1 DEF GetError, At, Goto, Enter, stored, Roles
  <2>2. CASE ClearError(p)
    BY <1>0, <2>2 DEF ClearError, At, Goto, Roles
  <2>3. CASE GetUnder(p)
    BY <1>0, <2>3 DEF GetUnder, At, Goto, stored, Roles
  <2>4. CASE ClearUnder(p)
    BY <1>0, <2>4 DEF ClearUnder, At, Goto, Roles
  <2> QED
    BY <1>3, <2>1, <2>2, <2>3, <2>4 DEF Poll
<1>4. CASE Register(Owner)
  <2>1. CASE RegisterFlag(Owner)
    BY <1>0, <2>1 DEF RegisterFlag, At, Goto, Enter, stored, Roles
  <2>2. CASE RegisterFunc(Owner)
    BY <1>0, <2>2 DEF RegisterFunc, At, Goto, stored, Roles
  <2>3. CASE RegisterArg(Owner)
    BY <1>0, <2>3 DEF RegisterArg, At, Goto, stored, Roles
  <2>4. CASE Unregister(Owner)
    BY <1>0, <2>4 DEF Unregister, At, Enter, stored, Roles
  <2> QED
    BY <1>4, <2>1, <2>2, <2>3, <2>4 DEF Register
<1> QED
  BY <1>1, <1>2, <1>3, <1>4 DEF Next

(* The inductive invariant: codes are told once unless two getters share   *)
(* one, pointers are never taken back, and codes that are mixed come from  *)
(* calls that have overlapped (util.c 43-95).                              *)
THEOREM ErrorInvariance == Spec => []Inv
<1>1. Init => Inv
  <2> SUFFICES ASSUME Init
               PROVE  Inv
    OBVIOUS
  <2> USE MaxReportsAssumption DEF Init
  <2>1. TypeOK
    <3>1. 0 \in 0..MaxReports
      OBVIOUS
    <3>2. pc \in [Threads -> Places]
      BY DEF Places
    <3>3. mine \in [Threads -> 0..MaxReports] /\ told \in [Reports -> Nat]
      BY <3>1
    <3> QED
      BY <3>1, <3>2, <3>3 DEF TypeOK
  <2>2. Roles
    BY DEF Roles, Threads
  <2>3. Whereabouts
    BY DEF Whereabouts, PendingIsUntold, PendingIsUnique, StoredIsUntold,
           HeldIsUntold, TwoHandsShare, UnissuedIsUntold, ToldOnce, Pending,
           InHand, Threads, Reports
  <2>4. Assigned
    BY DEF Assigned, CallsAreSafe, Threads
  <2>5. Alone
    BY DEF Alone, Threads
  <2> QED
    BY <2>1, <2>2, <2>3, <2>4, <2>5 DEF Inv
<1>2. Inv /\ [Next]_vars => Inv'
  BY Typing, RolesKept, WhereaboutsKept, AssignedKept, AloneKept DEF Inv
<1> QED
  BY <1>1, <1>2, PTL DEF Spec

(* The globals of util.c 6-11 keep their types in every call. *)
THEOREM ErrorTypes == Spec => []TypeOK
<1>1. Inv => TypeOK
  BY DEF Inv
<1> QED
  BY <1>1, ErrorInvariance, PTL

(* No error comes to the application twice, by the getters (util.c 48-60)  *)
(* and the callback (util.c 70) together, for any number of threads that   *)
(* report and that poll, save one that two getters have read before either *)
(* cleared it (util.c 50-51).                                              *)
THEOREM ErrorsToldOnce == Spec => []ToldOnce
<1>1. Inv => ToldOnce
  BY DEF Inv, Whereabouts
<1> QED
  BY <1>1, ErrorInvariance, PTL

(* After a first cdtp_on_error (util.c 82-90), the call at util.c 70 is of *)
(* an assigned function, whatever is cleared or registered meanwhile.      *)
THEOREM CallbacksAreSafe == Spec => []CallsAreSafe
<1>1. Inv => CallsAreSafe
  BY DEF Inv, Assigned
<1> QED
  BY <1>1, ErrorInvariance, PTL

(* Two codes of different reports (util.c 66-67) are found together only   *)
(* if calls have overlapped.                                               *)
THEOREM PairsOfOneReport == Spec => []MixedByOverlap
<1>1. ASSUME Inv, ~mixed, \A t \in Threads : pc[t] = "idle"
      PROVE  code = under
  BY <1>1 DEF Inv, Alone
<1>2. Inv => MixedByOverlap
  BY <1>1 DEF MixedByOverlap
<1> QED
  BY <1>2, ErrorInvariance, PTL
=============================================================================
