---------------------------- MODULE ThreadStart ----------------------------
(***************************************************************************)
(* createAndStartThread (header/Thread.h): the caller makes a thread and   *)
(* waits until the new thread has set running or failed.                   *)
(*                                                                         *)
(* The new thread refers to the caller's callable: a temporary of the      *)
(* statement in main.cpp that calls createAndStartThread, so that it is    *)
(* gone once the call has returned.  The new thread calls it after it has  *)
(* set running, that is, before or after that moment.                      *)
(***************************************************************************)
CONSTANT Threads

VARIABLES
  caller,  \* thread -> whether its creation has not begun, waits, or returned
  body     \* thread -> where the new thread is

vars == <<caller, body>>

Init ==
  /\ caller = [t \in Threads |-> "before"]
  /\ body = [t \in Threads |-> "none"]

(* There is one caller: it creates a thread at a time. *)
Create(t) ==
  /\ caller[t] = "before"
  /\ \A u \in Threads : caller[u] # "waiting"
  /\ caller' = [caller EXCEPT ![t] = "waiting"]
  /\ body' = [body EXCEPT ![t] = "new"]

(* setThreadCore succeeds or fails. *)
SetThreadCore(t) ==
  /\ body[t] = "new"
  /\ \E outcome \in {"running", "failed"} : body' = [body EXCEPT ![t] = outcome]
  /\ UNCHANGED caller

(* The call of a callable that is gone may still find what it needs. *)
CallFunction(t) ==
  /\ body[t] = "running"
  /\ \/ body' = [body EXCEPT ![t] = "called"]
     \/ caller[t] = "returned" /\ body' = [body EXCEPT ![t] = "undefined"]
  /\ UNCHANGED caller

(* After failed the caller joins the thread, deletes it and returns null;  *)
(* after running it returns the thread.                                    *)
Return(t) ==
  /\ caller[t] = "waiting"
  /\ body[t] # "new"
  /\ caller' = [caller EXCEPT ![t] = "returned"]
  /\ UNCHANGED body

IsNull(t) == caller[t] = "returned" /\ body[t] = "failed"

Next == \E t \in Threads : Create(t) \/ SetThreadCore(t) \/ CallFunction(t) \/ Return(t)

Spec == Init /\ [][Next]_vars

(* A thread exists once its creation has begun, and its creation goes on   *)
(* until it has a core or failed to get one.                               *)
StartTypeOK ==
  /\ caller \in [Threads -> {"before", "waiting", "returned"}]
  /\ body \in [Threads -> {"none", "new", "running", "failed", "called", "undefined"}]
  /\ \A t \in Threads :
       /\ (caller[t] = "before") = (body[t] = "none")
       /\ body[t] = "new" => caller[t] = "waiting"

(* Thread.h line 25: func is the callable executed in the new thread.      *)
EachThreadRunsItsFunction == \A t \in Threads : body[t] # "undefined"

=============================================================================
