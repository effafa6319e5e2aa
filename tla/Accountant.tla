------------------------------ MODULE Accountant ------------------------------
(***************************************************************************)
(* The resident-memory accountant (executor/driver/accounting.rs): bytes   *)
(* of the batches the driver holds, bytes each executor reports, and the   *)
(* budget both are checked against.  An account is a record; each method   *)
(* is the operator of its name.                                            *)
(*                                                                         *)
(* Reporting that decides nothing (call and underestimate lists) is left   *)
(* out.  A release the account cannot cover is the error `underflow'.      *)
(***************************************************************************)
EXTENDS Integers

CONSTANT Budget     \* bytes, or NoBudget

NoBudget == -1

ASSUME BudgetAssumption == Budget \in Nat \cup {NoBudget}

NewAccount(slots) ==
    [in_flight |-> 0, executor |-> 0, cached |-> [s \in slots |-> 0],
     peak |-> 0, holds |-> 0, releases |-> 0, underflow |-> FALSE]

Resident(a) == a.in_flight + a.executor

Observe(a) == [a EXCEPT !.peak = IF @ < Resident(a) THEN Resident(a) ELSE @]

Exceeds(value) == Budget # NoBudget /\ value > Budget

\* `count' batches of `bytes' in all enter driver-held queues.
HoldMany(a, bytes, count) ==
    Observe([a EXCEPT !.in_flight = @ + bytes, !.holds = @ + count])

\* `count' batches leave; a release of more than is in flight is refused, and
\* counted all the same.
ReleaseMany(a, bytes, count) ==
    [a EXCEPT !.releases = @ + count,
              !.in_flight = IF bytes <= @ THEN @ - bytes ELSE @,
              !.underflow = @ \/ bytes > a.in_flight]

Release(a, bytes) == ReleaseMany(a, bytes, 1)

\* The check before a call, on what is resident plus what the call needs.
PreCallTrips(a, scratch) == Exceeds(Resident(a) + scratch)

\* A plausible slip: a finished executor's figure is left behind.
ForgetNothing(a, slot) == a

Forget(a, slot) ==
    [a EXCEPT !.executor = @ - a.cached[slot], !.cached[slot] = 0]

\* A plausible slip: the executor's new figure added to its old one.
EndCallAdding(a, slot, bytes) ==
    Observe([a EXCEPT !.executor = @ + bytes, !.cached[slot] = bytes])

\* The end of a call whose executor survives it and reports `bytes'.
EndCall(a, slot, bytes) ==
    Observe([a EXCEPT !.executor = @ + bytes - a.cached[slot], !.cached[slot] = bytes])

\* The end of a call that consumed its executor.
EndConsumingCall(a, slot) == Observe(Forget(a, slot))

\* A plausible slip: the budget is checked before a call and not after.
VerdictUnbudgeted(a) == IF a.underflow THEN "Protocol" ELSE "Running"

\* How a call stands once the account is settled.
Verdict(a) ==
    IF a.underflow THEN "Protocol"
    ELSE IF Exceeds(Resident(a)) THEN "PostCall"
    ELSE "Running"
=============================================================================
