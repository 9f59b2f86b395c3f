--------------------------- MODULE IoServicePool ---------------------------
(***************************************************************************)
(* io_service_pool.cpp: which io_service, hence which thread, a connection *)
(* is given.  get_io_service() takes no lock.  It is called by connect() on*)
(* the main thread and by waitConnect() on the acceptor's io thread, so    *)
(* each load and each store of next_io_service_ is a step of its own here. *)
(***************************************************************************)
EXTENDS Naturals

CONSTANTS Sizes,       \* the sizes a pool may be constructed with
          Callers,     \* threads calling get_io_service()
          MaxServed    \* bound: how often an io_service is returned

(* The constructor throws when the size is 0. *)
ASSUME PoolAssumption == Sizes \subseteq Nat \ {0} /\ MaxServed \in Nat

VARIABLES size,      \* io_services_.size(), fixed by the constructor
          next_io_service_,
          at,        \* what each caller does next
          chosen,    \* the index each caller has read
          loaded,    \* the value each caller is incrementing
          served,    \* how often each io_service of the vector was returned
          overlapped \* a call has begun while another was under way

poolVars == <<size, next_io_service_, at, chosen, loaded, served, overlapped>>

Services == 0..(size - 1)

(* One io_service per element of the vector; run() starts one thread each. *)
PoolInit ==
  /\ size \in Sizes
  /\ served = [i \in Services |-> 0]
  /\ next_io_service_ = 0
  /\ at = [t \in Callers |-> "idle"]
  /\ chosen = [t \in Callers |-> 0]
  /\ loaded = [t \in Callers |-> 0]
  /\ overlapped = FALSE
-----------------------------------------------------------------------------
Goto(t, from, to) == at[t] = from /\ at' = [at EXCEPT ![t] = to]

(* *io_services_[next_io_service_].  What a program does that has read past *)
(* the end of the vector is undefined: no call begins after that.          *)
Choose(t) ==
  /\ Goto(t, "idle", "load")
  /\ \A i \in Services : served[i] < MaxServed
  /\ \A u \in Callers : chosen[u] \in Services
  /\ overlapped' = (overlapped \/ \E u \in Callers : at[u] # "idle")
  /\ chosen' = [chosen EXCEPT ![t] = next_io_service_]
  /\ UNCHANGED <<size, next_io_service_, loaded, served>>

(* ++next_io_service_ *)
Load(t) ==
  /\ Goto(t, "load", "store")
  /\ loaded' = [loaded EXCEPT ![t] = next_io_service_]
  /\ UNCHANGED <<size, next_io_service_, chosen, served, overlapped>>

Store(t) ==
  /\ Goto(t, "store", "compare")
  /\ next_io_service_' = loaded[t] + 1
  /\ UNCHANGED <<size, chosen, loaded, served, overlapped>>

(* Mutant: the comparison is made against the last index. *)
Compare_LastIndex(t) ==
  /\ Goto(t, "compare", IF next_io_service_ = size - 1 THEN "reset" ELSE "return")
  /\ UNCHANGED <<size, next_io_service_, chosen, loaded, served, overlapped>>

Compare(t) ==
  /\ Goto(t, "compare", IF next_io_service_ = size THEN "reset" ELSE "return")
  /\ UNCHANGED <<size, next_io_service_, chosen, loaded, served, overlapped>>

Reset(t) ==
  /\ Goto(t, "reset", "return")
  /\ next_io_service_' = 0
  /\ UNCHANGED <<size, chosen, loaded, served, overlapped>>

Return(t) ==
  /\ Goto(t, "return", "idle")
  /\ served' = [i \in Services |->
                  IF i = chosen[t] THEN served[i] + 1 ELSE served[i]]
  /\ UNCHANGED <<size, next_io_service_, chosen, loaded, overlapped>>

get_io_service(t) ==
  Choose(t) \/ Load(t) \/ Store(t) \/ Compare(t) \/ Reset(t) \/ Return(t)

PoolNext == \E t \in Callers : get_io_service(t)
PoolSpec == PoolInit /\ [][PoolNext]_poolVars
-----------------------------------------------------------------------------
Steps == {"idle", "load", "store", "compare", "reset", "return"}

PoolTypeOK ==
  /\ size \in Sizes
  /\ next_io_service_ \in Nat
  /\ at \in [Callers -> Steps]
  /\ chosen \in [Callers -> Nat]
  /\ loaded \in [Callers -> Nat]
  /\ served \in [Services -> Nat]
  /\ overlapped \in BOOLEAN

(* The index a call has read is in the vector: a comparison for equality is *)
(* all that turns it back.                                                  *)
IndexInRange == \A t \in Callers : at[t] # "idle" => chosen[t] \in Services

(* Between calls no io_service was returned two times more than another.    *)
RoundRobin ==
  (\A t \in Callers : at[t] = "idle") =>
    \A i, j \in Services : served[i] <= served[j] + 1

(* "Use a round-robin scheme" (io_service_pool.cpp:72): as long as no two  *)
(* calls overlap, whichever threads make them, get_io_service() never      *)
(* indexes the vector past its end and the io_services take turns.         *)
TakesTurns == ~overlapped => IndexInRange /\ RoundRobin
=============================================================================
