----------------------------- MODULE DurableWork -----------------------------
(***************************************************************************)
(* What deferred work promises, with nothing of how: no clock, no lease,   *)
(* no drain, no crash.  Work once asked for stays open until it is done or *)
(* has failed MaxAttempts times; what is done may be asked for again, what *)
(* was given up stays given up until it is settled.                        *)
(***************************************************************************)
EXTENDS Integers

CONSTANTS Items, MaxAttempts

VARIABLE ledger  \* [Items -> [status, tries]]

Entry(status, tries) == [status |-> status, tries |-> tries]

In(statuses) == {i \in Items : ledger[i].status \in statuses}

Init == ledger = [i \in Items |-> Entry("none", 0)]

Ask ==
  \E S \in SUBSET In({"none", "done"}) :
    ledger' = [i \in Items |-> IF i \in S THEN Entry("open", 0) ELSE ledger[i]]

Finish ==
  \E i \in In({"open"}) : ledger' = [ledger EXCEPT ![i].status = "done"]

Attempt ==
  \E i \in In({"open"}) :
    LET tries == ledger[i].tries + 1
    IN  ledger' = [ledger EXCEPT
          ![i] = Entry(IF tries = MaxAttempts THEN "failed" ELSE "open", tries)]

Settle ==
  \E S \in SUBSET In({"failed"}) :
    ledger' = [i \in Items |->
                 IF i \in S THEN [ledger[i] EXCEPT !.status = "done"]
                 ELSE ledger[i]]

Next == Ask \/ Finish \/ Attempt \/ Settle

Spec == Init /\ [][Next]_ledger

=============================================================================
