---------------------------- MODULE MCMailboxes ----------------------------
(* Attempts of which two ask for the same local part, m3 in another domain. *)
EXTENDS Mailboxes

CONSTANTS m1, m2, m3, d1, d2

Place == [m \in Mailboxes |-> IF m = m3 THEN d2 ELSE d1]
Name == [m \in Mailboxes |-> IF m = m2 THEN "sales" ELSE "info"]

\* The tenant has some of the mailboxes already, all on billing hold before the
\* trial and none after it, so that the requests meet on them.
MCInit ==
    /\ tenant = "active" /\ trial \in BOOLEAN
    /\ domain = [d \in Domains |-> "active"]
    /\ \E has \in {{}, {m1}, {m2, m3}} :
          /\ trial \/ Cardinality(has) <= HeldLimit
          /\ seats = Cardinality(has)
          /\ doc = [m \in Mailboxes |->
                       [state |-> IF m \in has THEN "live" ELSE "none",
                        status |-> IF m \in has /\ ~trial THEN "suspended" ELSE "active",
                        hold |-> m \in has /\ ~trial, admin |-> FALSE]]
          /\ account = [m \in Mailboxes |-> IF m \notin has THEN "none"
                                            ELSE IF trial THEN "on" ELSE "off"]
    /\ old = {} /\ op = [p \in Procs |-> Idle]
    /\ leaked = {} /\ short = 0 /\ disturbed = {} /\ faults = 0 /\ requests = 0

MCSpec == MCInit /\ [][Next]_vars /\ Fairness
=============================================================================
