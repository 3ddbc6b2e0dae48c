----------------------------- MODULE TokenBucket ----------------------------
(***************************************************************************)
(* What the rate limiter of the API promises (flags limiter-rps and        *)
(* limiter-burst of cmd/api/main.go): every client address has a bucket    *)
(* that is full at first, gains Rate tokens in each unit of time up to     *)
(* Capacity, and is never forgotten; a request is let through when it      *)
(* finds its Cost in the bucket of its address, which it takes out.        *)
(* Rate / Cost is the flag limiter-rps in the model's unit of time, and    *)
(* Capacity / Cost is limiter-burst.                                       *)
(***************************************************************************)
EXTENDS Integers

CONSTANTS Addresses,  \* client addresses
          Rate,       \* tokens gained in a unit of time
          Cost,       \* tokens a request takes
          Capacity,   \* tokens a bucket holds
          MaxTime     \* bound: the clock stops here

VARIABLES now,     \* the clock
          level,   \* tokens in each bucket
          passed,  \* requests let through so far, by address
          before   \* history: how many of them before each time

Capped(n) == IF n > Capacity THEN Capacity ELSE n

Init ==
  /\ now = 0
  /\ level = [a \in Addresses |-> Capacity]
  /\ passed = [a \in Addresses |-> 0]
  /\ before = [a \in Addresses |-> [t \in 0 .. MaxTime |-> 0]]

Tick ==
  /\ now < MaxTime
  /\ now' = now + 1
  /\ level' = [a \in Addresses |-> Capped(level[a] + Rate)]
  /\ before' = [a \in Addresses |-> [before[a] EXCEPT ![now + 1] = passed[a]]]
  /\ UNCHANGED passed

Take(a) ==
  /\ level[a] >= Cost
  /\ level' = [level EXCEPT ![a] = @ - Cost]
  /\ passed' = [passed EXCEPT ![a] = @ + 1]
  /\ UNCHANGED <<now, before>>

Next == Tick \/ \E a \in Addresses : Take(a)

Spec == Init /\ [][Next]_<<now, level, passed, before>>
=============================================================================
