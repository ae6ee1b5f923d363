----------------------------- MODULE ErrorState -----------------------------
(***************************************************************************)
(* The error globals of the library (src/src/util.c 6-95): CDTP_ERROR and  *)
(* CDTP_ERROR_UNDER, which _cdtp_set_error stores when no on_error         *)
(* function is registered, and the function and argument it calls when one *)
(* is.  Any thread of the library or of the application may report, read   *)
(* and register, without a lock: a step is one access to a global.         *)
(*                                                                         *)
(* Reports are numbered as they begin; a report's number stands for both   *)
(* of its codes, so that a code says where it comes from.  0 is            *)
(* CDTP_SUCCESS, and no underlying error.                                  *)
(***************************************************************************)
EXTENDS Integers

CONSTANTS Reporters,   \* threads that report errors
          Pollers,     \* threads that ask for them
          Owner,       \* the thread that registers the on_error function
          MaxReports   \* bound: reports that are made

ASSUME RolesAssumption ==
  /\ Pollers \cap Reporters = {} /\ Owner \notin Reporters \cup Pollers
ASSUME MaxReportsAssumption == MaxReports \in Nat

VARIABLES
  code, under,      \* CDTP_ERROR, CDTP_ERROR_UNDER
  registered,       \* CDTP_ON_ERROR_REGISTERED
  func, arg,        \* CDTP_ON_ERROR and CDTP_ON_ERROR_ARG have been assigned
  pc,               \* where each thread is; "idle": outside these calls
  mine,             \* the report or the code a thread has in hand
  issued,           \* reports begun
  told,             \* how often a report's code has come to the application
  shared,           \* reports that a getter read between another one's read
                    \* and its clear
  ready,            \* a call of cdtp_on_error has returned
  mixed,            \* two threads have been in these calls at a time
  fault             \* a function that was never assigned has been called

stored == <<code, under>>
callback == <<registered, func, arg>>
heard == <<told, shared>>
vars == <<stored, callback, pc, mine, issued, heard, ready, mixed, fault>>

Threads == Reporters \cup Pollers \cup {Owner}
Reports == 1..MaxReports

Running == ~fault
At(t, a) == Running /\ pc[t] = a
Goto(t, a) == pc' = [pc EXCEPT ![t] = a]

(* Thread t enters a call: another one may be in a call already. *)
Enter(t) == mixed' = (mixed \/ \E s \in Threads \ {t} : pc[s] # "idle")

Tell(n) == told' = IF n = 0 THEN told ELSE [told EXCEPT ![n] = @ + 1]

Init ==
  /\ code = 0 /\ under = 0
  /\ registered = FALSE /\ func = FALSE /\ arg = FALSE
  /\ pc = [t \in Threads |-> "idle"]
  /\ mine = [t \in Threads |-> 0]
  /\ issued = 0 /\ told = [n \in Reports |-> 0] /\ shared = {}
  /\ ready = FALSE /\ mixed = FALSE /\ fault = FALSE

-----------------------------------------------------------------------------
(* _cdtp_set_error *)

SetCheck(r) ==
  /\ At(r, "idle") /\ issued < MaxReports
  /\ issued' = issued + 1
  /\ mine' = [mine EXCEPT ![r] = issued']
  /\ Goto(r, IF registered THEN "call" ELSE "code")
  /\ Enter(r)
  /\ UNCHANGED <<stored, callback, heard, ready, fault>>

(* Mutant of SetCode: the code is added to the one that is there. *)
SetCodeAdded(r) ==
  /\ At(r, "code")
  /\ code' = code + mine[r]
  /\ Goto(r, "under")
  /\ UNCHANGED <<under, callback, mine, issued, heard, ready, mixed, fault>>

SetCode(r) ==
  /\ At(r, "code")
  /\ code' = mine[r]
  /\ Goto(r, "under")
  /\ UNCHANGED <<under, callback, mine, issued, heard, ready, mixed, fault>>

SetUnder(r) ==
  /\ At(r, "under")
  /\ under' = mine[r]
  /\ Goto(r, "idle")
  /\ UNCHANGED <<code, callback, mine, issued, heard, ready, mixed, fault>>

(* Mutant of SetCall: the codes are stored as well. *)
SetCallAndStore(r) ==
  /\ At(r, "call")
  /\ fault' = ~func
  /\ Tell(mine[r])
  /\ Goto(r, "code")
  /\ UNCHANGED <<stored, callback, mine, issued, shared, ready, mixed>>

(* The function is called by its pointer. *)
SetCall(r) ==
  /\ At(r, "call")
  /\ fault' = ~(func /\ arg)
  /\ Tell(mine[r])
  /\ Goto(r, "idle")
  /\ UNCHANGED <<stored, callback, mine, issued, shared, ready, mixed>>

-----------------------------------------------------------------------------
(* cdtp_get_error, then cdtp_get_underlying_error, the two of which make   *)
(* up one error (test.c 448-453); an application that asks for one of them *)
(* only, or in the other order, is left out.                               *)

(* Another getter has read this code and not cleared it. *)
InAnothersHand(p, n) ==
  n # 0 /\ \E q \in Pollers \ {p} : pc[q] = "clear" /\ mine[q] = n

GetError(p) ==
  /\ At(p, "idle")
  /\ mine' = [mine EXCEPT ![p] = code]
  /\ shared' = IF InAnothersHand(p, code) THEN shared \cup {code} ELSE shared
  /\ Goto(p, "clear")
  /\ Enter(p)
  /\ UNCHANGED <<stored, callback, issued, told, ready, fault>>

(* Mutant of ClearError: the code stays. *)
ClearErrorNot(p) ==
  /\ At(p, "clear")
  /\ Tell(mine[p])
  /\ Goto(p, "get_under")
  /\ UNCHANGED <<stored, callback, mine, issued, shared, ready, mixed, fault>>

ClearError(p) ==
  /\ At(p, "clear")
  /\ code' = 0
  /\ Tell(mine[p])
  /\ Goto(p, "get_under")
  /\ UNCHANGED <<under, callback, mine, issued, shared, ready, mixed, fault>>

GetUnder(p) ==
  /\ At(p, "get_under")
  /\ mine' = [mine EXCEPT ![p] = under]
  /\ Goto(p, "clear_under")
  /\ UNCHANGED <<stored, callback, issued, heard, ready, mixed, fault>>

(* Mutant of ClearUnder: the underlying code stays. *)
ClearUnderNot(p) ==
  /\ At(p, "clear_under")
  /\ Goto(p, "idle")
  /\ UNCHANGED <<stored, callback, mine, issued, heard, ready, mixed, fault>>

ClearUnder(p) ==
  /\ At(p, "clear_under")
  /\ under' = 0
  /\ Goto(p, "idle")
  /\ UNCHANGED <<code, callback, mine, issued, heard, ready, mixed, fault>>

-----------------------------------------------------------------------------
(* cdtp_on_error: the flag first, then what it stands for. *)

RegisterFlag(o) ==
  /\ At(o, "idle")
  /\ registered' = TRUE
  /\ Goto(o, "func")
  /\ Enter(o)
  /\ UNCHANGED <<stored, func, arg, mine, issued, heard, ready, fault>>

RegisterFunc(o) ==
  /\ At(o, "func")
  /\ func' = TRUE
  /\ Goto(o, "arg")
  /\ UNCHANGED <<stored, registered, arg>>
  /\ UNCHANGED <<mine, issued, heard, ready, mixed, fault>>

RegisterArg(o) ==
  /\ At(o, "arg")
  /\ arg' = TRUE /\ ready' = TRUE
  /\ Goto(o, "idle")
  /\ UNCHANGED <<stored, registered, func, mine, issued, heard, mixed, fault>>

(* Mutant of Unregister: the pointers are cleared with the flag. *)
UnregisterAll(o) ==
  /\ At(o, "idle")
  /\ registered' = FALSE /\ func' = FALSE /\ arg' = FALSE
  /\ Enter(o)
  /\ UNCHANGED <<stored, pc, mine, issued, heard, ready, fault>>

(* cdtp_on_error_clear: the flag only. *)
Unregister(o) ==
  /\ At(o, "idle")
  /\ registered' = FALSE
  /\ Enter(o)
  /\ UNCHANGED <<stored, func, arg, pc, mine, issued, heard, ready, fault>>

-----------------------------------------------------------------------------
Report(r) == SetCheck(r) \/ SetCode(r) \/ SetUnder(r) \/ SetCall(r)
Poll(p) == GetError(p) \/ ClearError(p) \/ GetUnder(p) \/ ClearUnder(p)
Register(o) ==
  RegisterFlag(o) \/ RegisterFunc(o) \/ RegisterArg(o) \/ Unregister(o)

Next == \/ \E r \in Reporters : Report(r)
        \/ \E p \in Pollers : Poll(p)
        \/ Register(Owner)

Spec == Init /\ [][Next]_vars

-----------------------------------------------------------------------------
Places == {"idle", "code", "under", "call", "clear", "get_under",
           "clear_under", "func", "arg"}

(* Types of the variables. *)
TypeOK ==
  /\ code \in 0..MaxReports /\ under \in 0..MaxReports
  /\ registered \in BOOLEAN /\ func \in BOOLEAN /\ arg \in BOOLEAN
  /\ ready \in BOOLEAN /\ mixed \in BOOLEAN /\ fault \in BOOLEAN
  /\ pc \in [Threads -> Places]
  /\ mine \in [Threads -> 0..MaxReports]
  /\ issued \in 0..MaxReports
  /\ told \in [Reports -> Nat]
  /\ shared \subseteq Reports

(* An error comes to the application once at most, by the callback or by   *)
(* the getters but never by both, however the report races with a getter   *)
(* that reads and then clears (util.c 48-53), or with a registration       *)
(* (util.c 65-71).  The one exception: a second thread entered             *)
(* cdtp_get_error and read the code between the read (util.c 50) and the   *)
(* clear (util.c 51) of a first, and then each may tell it.                *)
ToldOnce == \A n \in Reports : told[n] > 1 => n \in shared

(* Once a cdtp_on_error has returned, no report calls a function that was  *)
(* not assigned or without its argument, even one that saw the flag and    *)
(* was then overtaken by a cdtp_on_error_clear (util.c 82-95): only the    *)
(* very first registration, whose flag comes first, can be caught halfway. *)
CallsAreSafe == fault => ~ready

(* The two codes come from one report unless calls have overlapped: then   *)
(* the stores of two reports, or of a report and a getter, may leave the   *)
(* code of one beside the underlying code of another (util.c 66-67).       *)
MixedByOverlap ==
  (~mixed /\ \A t \in Threads : pc[t] = "idle") => code = under
=============================================================================
