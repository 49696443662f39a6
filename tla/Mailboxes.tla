------------------------------ MODULE Mailboxes ------------------------------
(***************************************************************************)
(* The mailboxes of one tenant: creating, deleting, suspending and          *)
(* reactivating them, billing holds and their sweep, and the cascades that  *)
(* suspend or restore many at once (mailbox.service.ts, held-mailbox-sweep, *)
(* tenant-lifecycle.service.ts, billing.service.ts).                        *)
(*                                                                          *)
(* A mailbox lives in two stores, a document and an account on the mail     *)
(* server, and takes a seat from a counter on the tenant.  No transaction   *)
(* spans them: every await below is a step of its own.                      *)
(***************************************************************************)
EXTENDS Integers, FiniteSets

CONSTANTS Mailboxes,     \* attempts to create one; each has its own ids
          Domains,       \* the tenant's domains
          DomainOf,      \* the domain an attempt asks for
          LocalPart,     \* the local part it asks for
          MailboxLimit,  \* Tenant.mailboxLimit
          DomainLimit,   \* Domain.mailboxLimit
          HeldLimit,     \* HELD_MAILBOX_LIMIT
          Workers,       \* requests, webhooks and routes under way at once
          Sweeper,       \* the held-mailbox sweep (isSweeping: one at a time)
          MaxFaults,     \* bound on refused calls and restarts
          MaxRequests,   \* bound on requests, webhooks and routes begun
          None

ASSUME BoxesAssumption == /\ IsFiniteSet(Mailboxes)
                          /\ DomainOf \in [Mailboxes -> Domains]
ASSUME LimitsAssumption == /\ MailboxLimit \in Nat /\ DomainLimit \in Nat
                           /\ HeldLimit \in Nat
                           /\ MaxFaults \in Nat /\ MaxRequests \in Nat
ASSUME NamesAssumption == /\ Sweeper \notin Workers
                          /\ None \notin Mailboxes /\ None \notin Domains

Procs == Workers \cup {Sweeper}

VARIABLES tenant,     \* Tenant.status
          trial,      \* whether Tenant.trialStartedAt is set
          seats,      \* Tenant.mailboxCount
          domain,     \* Domain.status
          doc,        \* the documents: state, status, hold, admin
          account,    \* the accounts on the mail server
          old,        \* documents created two weeks ago
          op,         \* what each process is doing
          leaked,     \* attempts whose seat nothing will give back (history)
          short,      \* seats given back twice (history)
          disturbed,  \* mailboxes two operations met on, or a fault hit (history)
          faults,
          requests    \* how many requests have begun

historyVars == <<leaked, short, disturbed, faults, requests>>
vars == <<tenant, trial, seats, domain, doc, account, old, op, historyVars>>

Statuses == {"active", "suspended"}
Doc == [state : {"none", "live", "gone"}, status : Statuses,
        hold : BOOLEAN, admin : BOOLEAN]
Kinds == {"create", "delete", "suspend", "reactivate", "sweep", "release",
          "pay", "stop", "freeze", "restore"}
ASSUME KindsAssumption == None \notin Kinds

Stages == {"idle", "domain", "hold", "limit", "address", "account", "row", "off",
           "giveback", "pick", "seat", "domains", "list", "rows", "accounts"}
Op == [kind : Kinds \cup {None}, at : Stages, box : Mailboxes \cup {None},
       dom : Domains \cup {None}, todo : SUBSET Mailboxes,
       seen : SUBSET Mailboxes, hold : BOOLEAN, removed : BOOLEAN]
Idle == [kind |-> None, at |-> "idle", box |-> None, dom |-> None, todo |-> {},
         seen |-> {}, hold |-> FALSE, removed |-> FALSE]

TypeOK ==
    /\ tenant \in Statuses
    /\ trial \in BOOLEAN
    /\ seats \in Nat
    /\ domain \in [Domains -> Statuses]
    /\ doc \in [Mailboxes -> Doc]
    /\ account \in [Mailboxes -> {"none", "on", "off"}]
    /\ old \in SUBSET Mailboxes
    /\ op \in [Procs -> Op]
    /\ leaked \in SUBSET Mailboxes
    /\ short \in Int
    /\ disturbed \in SUBSET Mailboxes
    /\ faults \in Nat
    /\ requests \in Nat

Init ==
    /\ tenant = "active" /\ trial = FALSE /\ seats = 0
    /\ domain = [d \in Domains |-> "active"]
    /\ doc = [m \in Mailboxes |-> [state |-> "none", status |-> "active",
                                   hold |-> FALSE, admin |-> FALSE]]
    /\ account = [m \in Mailboxes |-> "none"]
    /\ old = {}
    /\ op = [p \in Procs |-> Idle]
    /\ leaked = {} /\ short = 0 /\ disturbed = {} /\ faults = 0
    /\ requests = 0

-----------------------------------------------------------------------------
(* Helpers. *)

Live == {m \in Mailboxes : doc[m].state = "live"}
Held == {m \in Live : doc[m].hold}
InDomain(d) == {m \in Live : DomainOf[m] = d}
SameAddress(m, n) == DomainOf[m] = DomainOf[n] /\ LocalPart[m] = LocalPart[n]

\* An attempt that holds a seat and has no document yet.
Reserving == {"domain", "hold", "limit", "address", "account", "row", "giveback"}
Reserved == {op[p].box : p \in {q \in Procs : /\ op[q].kind = "create"
                                              /\ op[q].at \in Reserving}}
Fresh(m) == doc[m].state = "none" /\ m \notin leaked
            /\ \A p \in Procs : op[p].box # m

\* A mailbox whose document this process removed and whose seat it owes.
Owed == {op[p].box : p \in {q \in Procs : op[q].at = "seat" /\ op[q].removed}}

\* What an operation under way may write.
Touched(k) ==
    CASE k.kind \in {"pay", "stop"}       -> {m \in Mailboxes : DomainOf[m] = k.dom}
      [] k.kind \in {"freeze", "restore"} -> Mailboxes
      [] OTHER                            -> k.todo \cup ({k.box} \ {None})
TouchedByOthers(p) == UNION {Touched(op[q]) : q \in Procs \ {p}}

\* p takes up operation k; where it meets another, the outcome is open.
Begin(p, k) ==
    /\ op[p] = Idle
    /\ p # Sweeper => requests < MaxRequests
    /\ requests' = requests + (IF p = Sweeper THEN 0 ELSE 1)
    /\ op' = [op EXCEPT ![p] = k]
    /\ disturbed' = disturbed \cup (Touched(k) \cap TouchedByOthers(p))

Goto(p, stage) == op' = [op EXCEPT ![p].at = stage]
Finish(p) == op' = [op EXCEPT ![p] = Idle]

\* A call of the mail server that changes account m, or is refused: the error
\* is logged and swallowed.
SetAccount(m, value) ==
    \/ /\ account' = [account EXCEPT ![m] = IF @ = "none" THEN @ ELSE value]
       /\ UNCHANGED <<disturbed, faults>>
    \/ /\ faults < MaxFaults
       /\ faults' = faults + 1
       /\ disturbed' = disturbed \cup {m}
       /\ UNCHANGED account

tenantVars == <<tenant, trial, domain, old>>

-----------------------------------------------------------------------------
(* createMailbox *)

Mut_SeatFreeLte == seats <= MailboxLimit
SeatFree == seats < MailboxLimit

\* The quota is reserved by one conditional increment; the tenant it returns
\* tells, for the whole call, whether the trial has begun.
Reserve(p, m) ==
    /\ Fresh(m)
    /\ tenant = "active" /\ SeatFree
    /\ Begin(p, [Idle EXCEPT !.kind = "create", !.at = "domain", !.box = m,
                             !.hold = ~trial])
    /\ seats' = seats + 1
    /\ UNCHANGED <<tenantVars, doc, account, leaked, short, faults>>

Creating(p, stage) == op[p].kind = "create" /\ op[p].at = stage
ReadOnly == UNCHANGED <<tenantVars, seats, doc, account, historyVars>>

\* Each check passes or leads to the roll-back.
Check(p, stage, passes, next) ==
    /\ Creating(p, stage)
    /\ Goto(p, IF passes THEN next ELSE "giveback")
    /\ ReadOnly

CheckDomain(p) ==
    Check(p, "domain", domain[DomainOf[op[p].box]] # "suspended", "hold")

UnderHeldLimit == Cardinality(Held) < HeldLimit
CheckHeld(p) == Check(p, "hold", ~op[p].hold \/ UnderHeldLimit, "limit")

\* ensureDomainSubscription throws, outside every try: nothing is rolled back.
EnsureThrows(p) ==
    /\ Creating(p, "hold") /\ ~op[p].hold
    /\ faults < MaxFaults
    /\ faults' = faults + 1
    /\ leaked' = leaked \cup {op[p].box}
    /\ Finish(p)
    /\ UNCHANGED <<tenantVars, seats, doc, account, short, disturbed, requests>>

\* A domain without a limit has 0.
UnderDomainLimit(d) == DomainLimit = 0 \/ Cardinality(InDomain(d)) < DomainLimit
CheckLimit(p) ==
    Check(p, "limit", UnderDomainLimit(DomainOf[op[p].box]), "address")

CheckAddress(p) ==
    Check(p, "address", \A n \in Live : ~SameAddress(op[p].box, n), "account")

\* The mail server refuses an address it has, or is not to be reached.
CreateAccount(p) ==
    LET m == op[p].box
        taken == \E n \in Mailboxes : account[n] # "none" /\ SameAddress(m, n)
    IN  /\ Creating(p, "account")
        /\ \/ /\ ~taken
              /\ account' = [account EXCEPT ![m] = "on"]
              /\ Goto(p, "row")
              /\ UNCHANGED faults
           \/ /\ taken \/ faults < MaxFaults
              /\ faults' = IF taken THEN faults ELSE faults + 1
              /\ Goto(p, "giveback")
              /\ UNCHANGED account
        /\ UNCHANGED <<tenantVars, seats, doc, leaked, short, disturbed, requests>>

\* The unique indexes: one address, and one local part in a tenant.
Clashes(m) == \E n \in Live : LocalPart[n] = LocalPart[m]

InsertRow(p) ==
    LET m == op[p].box
    IN  /\ Creating(p, "row") /\ ~Clashes(m)
        /\ doc' = [doc EXCEPT ![m] = [state |-> "live",
                      status |-> IF op[p].hold THEN "suspended" ELSE "active",
                      hold |-> op[p].hold, admin |-> FALSE]]
        /\ IF op[p].hold THEN Goto(p, "off") ELSE Finish(p)
        /\ UNCHANGED <<tenantVars, seats, account, historyVars>>

\* The insertion fails: seat and account stay behind.
InsertFails(p) ==
    /\ Creating(p, "row") /\ Clashes(op[p].box)
    /\ leaked' = leaked \cup {op[p].box}
    /\ Finish(p)
    /\ UNCHANGED <<tenantVars, seats, doc, account, short, disturbed, faults, requests>>

HoldAccount(p) ==
    /\ Creating(p, "off")
    /\ SetAccount(op[p].box, "off")
    /\ Finish(p)
    /\ UNCHANGED <<tenantVars, seats, doc, leaked, short, requests>>

\* The decrement without its { $gt: 0 }.
Mut_GiveBackUnguarded(rightful) ==
    /\ seats' = seats - 1
    /\ short' = IF rightful THEN short ELSE short + 1

\* { mailboxCount: { $gt: 0 } }, { $inc: -1 }
GiveBackSeat(rightful) ==
    /\ seats' = IF seats > 0 THEN seats - 1 ELSE 0
    /\ short' = CASE seats > 0 /\ ~rightful -> short + 1
                  [] seats = 0 /\ rightful  -> short - 1
                  [] OTHER                  -> short

Mut_RollBackForgets(p) ==
    /\ Creating(p, "giveback")
    /\ Finish(p)
    /\ UNCHANGED <<tenantVars, seats, doc, account, historyVars>>

RollBack(p) ==
    /\ Creating(p, "giveback")
    /\ GiveBackSeat(TRUE)
    /\ Finish(p)
    /\ UNCHANGED <<tenantVars, doc, account, leaked, disturbed, faults, requests>>

-----------------------------------------------------------------------------
(* deleteMailbox and the sweep of held mailboxes *)

Delete(p, m) ==
    /\ m \in Live /\ tenant = "active"
    /\ Begin(p, [Idle EXCEPT !.kind = "delete", !.at = "account", !.box = m])
    /\ UNCHANGED <<tenantVars, seats, doc, account, leaked, short, faults>>

Mut_ExpiredSuspended == {m \in Held \cap old : doc[m].status = "suspended"}
Expired == {m \in Held : m \in old}
SweepStart ==
    /\ Expired # {}
    /\ Begin(Sweeper, [Idle EXCEPT !.kind = "sweep", !.at = "pick", !.todo = Expired])
    /\ UNCHANGED <<tenantVars, seats, doc, account, leaked, short, faults>>

\* The next one of a list: the sweep's, or that of the holds to be released.
Pick(p, m) ==
    /\ op[p].at = "pick" /\ m \in op[p].todo
    /\ op' = [op EXCEPT ![p].at = "account", ![p].box = m, ![p].todo = @ \ {m}]
    /\ ReadOnly

Proceed(p) == op' = [op EXCEPT ![p] = IF @.todo = {} THEN Idle
                                    ELSE [@ EXCEPT !.at = "pick", !.box = None,
                                                   !.removed = FALSE]]

Removing(p) == op[p].kind \in {"delete", "sweep"}

DeleteAccount(p) ==
    /\ Removing(p) /\ op[p].at = "account"
    /\ SetAccount(op[p].box, "none")
    /\ Goto(p, "row")
    /\ UNCHANGED <<tenantVars, seats, doc, leaked, short, requests>>

\* deleteOne: no error when another has removed it.
DeleteRow(p) ==
    /\ Removing(p) /\ op[p].at = "row"
    /\ doc' = [doc EXCEPT ![op[p].box].state = "gone"]
    /\ op' = [op EXCEPT ![p].at = "seat", ![p].removed = op[p].box \in Live]
    /\ UNCHANGED <<tenantVars, seats, account, historyVars>>

GiveBack(p) ==
    /\ op[p].at = "seat"
    /\ GiveBackSeat(op[p].removed)
    /\ Proceed(p)
    /\ UNCHANGED <<tenantVars, doc, account, leaked, disturbed, faults, requests>>

-----------------------------------------------------------------------------
(* suspendMailbox and reactivateMailbox *)

Suspend(p, m) ==
    /\ m \in Live /\ tenant = "active"
    /\ Begin(p, [Idle EXCEPT !.kind = "suspend", !.at = "account", !.box = m])
    /\ UNCHANGED <<tenantVars, seats, doc, account, leaked, short, faults>>

\* Neither a held mailbox nor one that billing suspended.
Reactivable(m) == ~doc[m].hold /\ (doc[m].status = "active" \/ doc[m].admin)

Reactivate(p, m) ==
    /\ m \in Live /\ tenant = "active" /\ Reactivable(m)
    /\ Begin(p, [Idle EXCEPT !.kind = "reactivate", !.at = "account", !.box = m])
    /\ UNCHANGED <<tenantVars, seats, doc, account, leaked, short, faults>>

SwitchAccount(p) ==
    /\ op[p].kind \in {"suspend", "reactivate"} /\ op[p].at = "account"
    /\ SetAccount(op[p].box, IF op[p].kind = "suspend" THEN "off" ELSE "on")
    /\ Goto(p, "row")
    /\ UNCHANGED <<tenantVars, seats, doc, leaked, short, requests>>

\* findByIdAndUpdate: whatever the document says by now.
SwitchRow(p) ==
    /\ op[p].kind \in {"suspend", "reactivate"} /\ op[p].at = "row"
    /\ LET suspending == op[p].kind = "suspend"
       IN  doc' = [doc EXCEPT ![op[p].box] =
                     IF @.state # "live" THEN @
                     ELSE [@ EXCEPT !.status = IF suspending THEN "suspended" ELSE "active",
                                    !.admin = suspending]]
    /\ Finish(p)
    /\ UNCHANGED <<tenantVars, seats, account, historyVars>>

-----------------------------------------------------------------------------
(* Activation: the trial begins, then the holds are released *)

StartTrial ==
    /\ ~trial
    /\ trial' = TRUE
    /\ UNCHANGED <<tenant, seats, domain, doc, account, old, op, historyVars>>

Release(p) ==
    /\ trial /\ Held # {}
    /\ Begin(p, [Idle EXCEPT !.kind = "release", !.at = "pick", !.todo = Held,
                             !.seen = {m \in Held : doc[m].status = "active"}])
    /\ UNCHANGED <<tenantVars, seats, doc, account, leaked, short, faults>>

ReleaseAccount(p) ==
    /\ op[p].kind = "release" /\ op[p].at = "account"
    /\ SetAccount(op[p].box, "on")
    /\ Goto(p, "row")
    /\ UNCHANGED <<tenantVars, seats, doc, leaked, short, requests>>

\* save() writes only what differs from the document as it was loaded.  Of a
\* removed document it throws: the rest stays held.
ReleaseRow(p) ==
    LET m == op[p].box
    IN  /\ op[p].kind = "release" /\ op[p].at = "row"
        /\ IF m \in Live
           THEN /\ doc' = [doc EXCEPT ![m].hold = FALSE,
                                   ![m].status = IF m \in op[p].seen THEN @ ELSE "active"]
                /\ Proceed(p)
           ELSE /\ Finish(p)
                /\ UNCHANGED doc
        /\ UNCHANGED <<tenantVars, seats, account, historyVars>>

-----------------------------------------------------------------------------
(* The cascades: payment and non-payment of a domain, suspension and        *)
(* restoration of the tenant                                                *)

\* suspendDomainForNonPayment, reactivateDomainForPayment: BillingGrace has
\* the conditions under which they are called.
Stop(p, d) ==
    /\ domain' = [domain EXCEPT ![d] = "suspended"]
    /\ Begin(p, [Idle EXCEPT !.kind = "stop", !.at = "list", !.dom = d])
    /\ UNCHANGED <<tenant, trial, old, seats, doc, account, leaked, short, faults>>

Pay(p, d) ==
    /\ domain' = [domain EXCEPT ![d] = "active"]
    /\ Begin(p, [Idle EXCEPT !.kind = "pay", !.at = "list", !.dom = d])
    /\ UNCHANGED <<tenant, trial, old, seats, doc, account, leaked, short, faults>>

\* The routes write the tenant's status, then call the cascade.
Freeze(p) ==
    /\ tenant' = "suspended"
    /\ Begin(p, [Idle EXCEPT !.kind = "freeze", !.at = "domains"])
    /\ UNCHANGED <<trial, domain, old, seats, doc, account, leaked, short, faults>>

Restore(p) ==
    /\ tenant' = "active"
    /\ Begin(p, [Idle EXCEPT !.kind = "restore", !.at = "domains"])
    /\ UNCHANGED <<trial, domain, old, seats, doc, account, leaked, short, faults>>

SwitchDomains(p) ==
    /\ op[p].at = "domains"
    /\ domain' = [d \in Domains |-> IF op[p].kind = "freeze" THEN "suspended" ELSE "active"]
    /\ Goto(p, "list")
    /\ UNCHANGED <<tenant, trial, old, seats, doc, account, historyVars>>

Restoring(k) == k.kind \in {"pay", "restore"}

\* The filter of each cascade's find and updateMany.
Affected(k) ==
    {m \in Live : /\ k.kind \in {"pay", "stop"} => DomainOf[m] = k.dom
                  /\ Restoring(k) => ~doc[m].admin
                  /\ k.kind = "pay" => ~doc[m].hold}

\* find without the filter of the updateMany.
Mut_ListAll(p) ==
    /\ op[p].at = "list"
    /\ op' = [op EXCEPT ![p].at = "rows", ![p].todo = Touched(op[p]) \cap Live]
    /\ ReadOnly

\* find: whose accounts will be switched.
List(p) ==
    /\ op[p].at = "list"
    /\ op' = [op EXCEPT ![p].at = "rows", ![p].todo = Affected(op[p])]
    /\ ReadOnly

\* updateMany: the same filter, evaluated again.
SwitchRows(p) ==
    /\ op[p].at = "rows"
    /\ doc' = [m \in Mailboxes |->
                  IF m \notin Affected(op[p]) THEN doc[m]
                  ELSE [doc[m] EXCEPT !.status = IF Restoring(op[p]) THEN "active"
                                                 ELSE "suspended"]]
    /\ IF op[p].todo = {} THEN Finish(p) ELSE Goto(p, "accounts")
    /\ UNCHANGED <<tenantVars, seats, account, historyVars>>

SwitchAccounts(p, m) ==
    /\ op[p].at = "accounts" /\ m \in op[p].todo
    /\ SetAccount(m, IF Restoring(op[p]) THEN "on" ELSE "off")
    /\ IF op[p].todo = {m} THEN Finish(p) ELSE op' = [op EXCEPT ![p].todo = @ \ {m}]
    /\ UNCHANGED <<tenantVars, seats, doc, leaked, short, requests>>

-----------------------------------------------------------------------------

\* The process restarts: every operation under way is forgotten.
Crash ==
    /\ faults < MaxFaults /\ \E p \in Procs : op[p] # Idle
    /\ faults' = faults + 1
    /\ op' = [p \in Procs |-> Idle]
    /\ leaked' = leaked \cup Reserved \cup Owed
    /\ disturbed' = disturbed \cup UNION {Touched(op[p]) : p \in Procs}
    /\ UNCHANGED <<tenantVars, seats, doc, account, short, requests>>

TwoWeeksPass(m) ==
    /\ m \in Live \ old
    /\ old' = old \cup {m}
    /\ UNCHANGED <<tenant, trial, seats, domain, doc, account, op, historyVars>>

CreateSteps(p) ==
    \/ CheckDomain(p) \/ CheckHeld(p) \/ EnsureThrows(p) \/ CheckLimit(p)
    \/ CheckAddress(p) \/ CreateAccount(p) \/ InsertRow(p) \/ InsertFails(p)
    \/ HoldAccount(p) \/ RollBack(p)

OtherSteps(p) ==
    \/ DeleteAccount(p) \/ DeleteRow(p) \/ GiveBack(p)
    \/ SwitchAccount(p) \/ SwitchRow(p)
    \/ ReleaseAccount(p) \/ ReleaseRow(p)
    \/ SwitchDomains(p) \/ List(p) \/ SwitchRows(p)
    \/ \E m \in Mailboxes : Pick(p, m) \/ SwitchAccounts(p, m)

Steps(p) == CreateSteps(p) \/ OtherSteps(p)

Requests(p) ==
    \/ \E m \in Mailboxes : Reserve(p, m) \/ Delete(p, m) \/ Suspend(p, m) \/ Reactivate(p, m)
    \/ \E d \in Domains : Stop(p, d) \/ Pay(p, d)
    \/ Release(p) \/ Freeze(p) \/ Restore(p)

Next ==
    \/ \E p \in Workers : Requests(p)
    \/ \E p \in Procs : Steps(p)
    \/ SweepStart \/ StartTrial \/ Crash
    \/ \E m \in Mailboxes : TwoWeeksPass(m)

Spec == Init /\ [][Next]_vars

\* Time passes, and the sweep starts every hour and goes on; of the requests
\* nothing is assumed.
Fairness ==
    /\ WF_vars(Steps(Sweeper)) /\ WF_vars(SweepStart)
    /\ \A m \in Mailboxes : WF_vars(TwoWeeksPass(m))

FairSpec == Spec /\ Fairness

-----------------------------------------------------------------------------
(* What the mailboxes promise. *)

Seated == Live \cup Reserved \cup Owed \cup leaked

\* Every seat the tenant's counter shows is a document, a creation or deletion
\* under way, or one that a failure left behind, minus the seats two deletions
\* of one mailbox both gave back (createMailbox, deleteMailbox, the sweep).
SeatsAccounted == seats + short = Cardinality(Seated)

\* However creations race, documents and reservations exceed the limit only by
\* seats given back twice (the atomic quota reservation of createMailbox).
WithinLimit == Cardinality(Live \cup Reserved) <= MailboxLimit + short

\* Between operations the mail server lets a mailbox send exactly when its
\* document says active, unless operations met on it or a call of them failed
\* (every operation that writes both stores).
ServerAgrees ==
    \A m \in Mailboxes \ (disturbed \cup leaked) :
       (\A p \in Procs : m \notin Touched(op[p])) =>
          account[m] = IF m \notin Live THEN "none"
                       ELSE IF doc[m].status = "active" THEN "on" ELSE "off"

\* No mailbox stays on billing hold for ever: it is released or removed
\* (the sweep of held mailboxes).
HeldEnds == \A m \in Mailboxes : (m \in Held) ~> (m \notin Held)

=============================================================================
