---------------------------- MODULE BillingGrace ----------------------------
(***************************************************************************)
(* Failed payments, the grace period and suspension                        *)
(* (handleWebhookEvent and the invoice and subscription handlers of        *)
(* backend/src/services/billing.service.ts, backend/src/jobs/              *)
(* billing-grace-sweep.job.ts).                                            *)
(*                                                                         *)
(* One tenant: its domains share one Stripe subscription.  A failed        *)
(* renewal puts every row in grace until created + GraceDays; the sweep    *)
(* suspends rows whose grace has run out and retries the invoice once a    *)
(* day; a payment clears the grace and restores the domains.               *)
(*                                                                         *)
(* Every await ends a step.  Webhook handlers, the sweep and a domain      *)
(* cancellation run in one Node process and interleave there; each works   *)
(* on rows it loaded earlier, and save() writes only the fields that       *)
(* changed since the load.  Stripe delivers an event until it gets a 2xx,  *)
(* possibly twice at once, possibly out of order.                          *)
(***************************************************************************)
EXTENDS Integers, FiniteSets, Sequences

CONSTANTS Domains,       \* the tenant's billed domains
          Invoices,      \* renewal invoices
          GraceDays,     \* 7 in the code
          LastDay,       \* bound on the clock
          MaxEvents,     \* bound on the webhook events Stripe emits
          MaxFailures,   \* bound on handler runs that throw
          MaxCrashes,    \* bound on process restarts
          Overlap,       \* handlers, sweep and cancellations interleave
          Reorder,       \* Stripe delivers events in any order
          None           \* null

ASSUME GraceAssumption == GraceDays \in Nat /\ LastDay \in Nat
ASSUME BoundsAssumption ==
    MaxEvents \in Nat /\ MaxFailures \in Nat /\ MaxCrashes \in Nat
ASSUME OptionsAssumption == Overlap \in BOOLEAN /\ Reorder \in BOOLEAN
ASSUME NoneAssumption == None \notin Invoices /\ None \notin Int

VARIABLES row,         \* DomainSubscription: status, graceEnds, failedInvoice, lastRetry
          domain,      \* Domain.status
          mail,        \* whether the domain's billed mailboxes are active
          invoice,     \* Stripe: "none", "open" or "paid"
          created,     \* Stripe: day the invoice was created
          failed,      \* invoices with a failed payment attempt (history)
          stripe,      \* status of the Stripe subscription
          emitted,     \* Stripe: the events, in the order they happened
          owed,        \* events Stripe has not seen a 2xx for
          recorded,    \* StripeEvent rows
          handler,     \* one handler per event: at, todo, cur, seen
          sweep,       \* the grace sweep: at, now, todo, cur, inv
          leaving,     \* how far the tenant's cancellation of a domain is
          ended,       \* domains whose billing has ended (history)
          day, failures, crashes

rowVars    == <<row, ended>>
domainVars == <<domain, mail>>
stripeVars == <<invoice, created, failed, stripe, emitted>>
hookVars   == <<owed, recorded, handler, failures, crashes>>
vars == <<rowVars, domainVars, stripeVars, hookVars, sweep, leaving, day>>

RowStatuses == {"trialing", "active", "past_due", "grace", "suspended", "canceled"}
SubStatuses == {"trialing", "active", "past_due", "canceled"}
Row == [status : RowStatuses, graceEnds : Int \cup {None},
        failedInvoice : Invoices \cup {None}, lastRetry : Int \cup {None}]
EventIds == 1..MaxEvents
Event == [kind : {"failed", "succeeded", "zero", "updated", "deleted"},
          inv : Invoices \cup {None}, status : SubStatuses]
HandlerStages == {"idle", "load", "write", "save", "check", "activate", "mailOn",
                  "suspend", "mailOff"}
SweepStages == {"idle", "suspend", "mailOff", "save", "retry", "pay", "settle"}
HandlerState == [at : HandlerStages, todo : SUBSET Domains, cur : Domains \cup {None},
                 seen : [Domains -> Row \cup {None}]]
SweepState == [at : SweepStages, now : Nat, todo : SUBSET Domains,
               cur : Domains \cup {None}, inv : Invoices \cup {None}]

Idle == [at |-> "idle", todo |-> {}, cur |-> None, seen |-> [d \in Domains |-> None]]
SweepIdle == [at |-> "idle", now |-> 0, todo |-> {}, cur |-> None, inv |-> None]

TypeOK ==
    /\ row \in [Domains -> Row]
    /\ domain \in [Domains -> {"active", "suspended"}]
    /\ mail \in [Domains -> BOOLEAN]
    /\ invoice \in [Invoices -> {"none", "open", "paid"}]
    /\ created \in [Invoices -> Int]
    /\ failed \in SUBSET Invoices
    /\ stripe \in SubStatuses
    /\ emitted \in Seq(Event)
    /\ owed \in SUBSET Nat
    /\ recorded \in SUBSET Nat
    /\ handler \in [EventIds -> HandlerState]
    /\ sweep \in SweepState
    /\ leaving \in [Domains -> {"no", "save", "suspend", "mailOff"}]
    /\ ended \in SUBSET Domains
    /\ day \in Nat
    /\ failures \in Nat
    /\ crashes \in Nat

\* An adopted checkout: every row on trial, every domain served.
Init ==
    /\ row = [d \in Domains |-> [status |-> "trialing", graceEnds |-> None,
                                 failedInvoice |-> None, lastRetry |-> None]]
    /\ domain = [d \in Domains |-> "active"]
    /\ mail = [d \in Domains |-> TRUE]
    /\ invoice = [i \in Invoices |-> "none"]
    /\ created = [i \in Invoices |-> 0]
    /\ failed = {}
    /\ stripe = "trialing"
    /\ emitted = <<>>
    /\ owed = {}
    /\ recorded = {}
    /\ handler = [e \in EventIds |-> Idle]
    /\ sweep = SweepIdle
    /\ leaving = [d \in Domains |-> "no"]
    /\ ended = {}
    /\ day = 1
    /\ failures = 0
    /\ crashes = 0

-----------------------------------------------------------------------------
(* Stripe. *)

Failed(i)    == [kind |-> "failed", inv |-> i, status |-> "past_due"]
Succeeded(i) == [kind |-> "succeeded", inv |-> i, status |-> "active"]
Zero         == [kind |-> "zero", inv |-> None, status |-> "trialing"]
Updated(s)   == [kind |-> "updated", inv |-> None, status |-> s]
Deleted      == [kind |-> "deleted", inv |-> None, status |-> "canceled"]

Emit(events) ==
    /\ Len(emitted) + Len(events) <= MaxEvents
    /\ emitted' = emitted \o events
    /\ owed' = owed \cup (Len(emitted) + 1)..(Len(emitted) + Len(events))
    /\ UNCHANGED <<recorded, handler, failures, crashes>>

\* The invoice is collected: status and both events follow.
Collected(i) ==
    /\ invoice' = [invoice EXCEPT ![i] = "paid"]
    /\ stripe' = "active"
    /\ Emit(<<Succeeded(i), Updated("active")>>)
    /\ UNCHANGED failed

Declined(i) ==
    /\ invoice' = [invoice EXCEPT ![i] = "open"]
    /\ failed' = failed \cup {i}
    /\ stripe' = "past_due"
    /\ IF stripe = "past_due" THEN Emit(<<Failed(i)>>)
       ELSE Emit(<<Failed(i), Updated("past_due")>>)

Others == <<rowVars, domainVars, sweep, leaving, day>>

\* A coupon moved the trial's end: Stripe pays an invoice over nothing.
ZeroInvoice ==
    /\ stripe = "trialing"
    /\ Emit(<<Zero, Updated("trialing")>>)
    /\ UNCHANGED <<Others, invoice, created, failed, stripe>>

\* The trial or a period is over; a renewal starts only while nothing is unpaid,
\* and early enough for its grace to end before LastDay.
Renew(i) ==
    /\ stripe \in {"trialing", "active"}
    /\ day + GraceDays < LastDay
    /\ invoice[i] = "none"
    /\ created' = [created EXCEPT ![i] = day]
    /\ Collected(i) \/ Declined(i)
    /\ UNCHANGED Others

\* Stripe's own retry, or the Tenant Admin's payment on its hosted page.
Retry(i) ==
    /\ stripe # "canceled"
    /\ invoice[i] = "open"
    /\ Collected(i) \/ Declined(i)
    /\ UNCHANGED <<Others, created>>

\* The subscription ends at the end of its period.
EndSubscription ==
    /\ stripe # "canceled"
    /\ stripe' = "canceled"
    /\ Emit(<<Deleted>>)
    /\ UNCHANGED <<Others, invoice, created, failed>>

\* completeCardUpdate charges the invoice a live row says is unpaid.
CardUpdated(d) ==
    LET i == row[d].failedInvoice IN
    /\ row[d].status # "canceled"
    /\ i # None
    /\ stripe # "canceled"
    /\ invoice[i] = "open"
    /\ Collected(i)
    /\ UNCHANGED <<Others, created>>

-----------------------------------------------------------------------------
(* handleWebhookEvent. *)

Quiet ==
    /\ \A e \in EventIds : handler[e].at = "idle"
    /\ sweep.at = "idle"
    /\ \A d \in Domains : leaving[d] = "no"

MayStart == Overlap \/ Quiet
InTurn(e) == Reorder \/ \A f \in owed : e <= f

Deliver(e) ==
    /\ e \in owed \ recorded
    /\ MayStart /\ InTurn(e)
    /\ recorded' = recorded \cup {e}
    /\ handler' = [handler EXCEPT ![e] = [Idle EXCEPT !.at = "load"]]
    /\ UNCHANGED <<rowVars, domainVars, stripeVars, owed, failures, crashes,
                   sweep, leaving, day>>

\* A duplicate, or Stripe's next attempt after it lost patience: a recorded id
\* gets a 2xx.
Redelivered(e) ==
    /\ e \in owed \cap recorded
    /\ MayStart
    /\ owed' = owed \ {e}
    /\ UNCHANGED <<rowVars, domainVars, stripeVars, recorded, handler, failures,
                   crashes, sweep, leaving, day>>

\* The id is released; what the handler had written stays.
HandlerFails(e) ==
    /\ handler[e].at # "idle"
    /\ failures < MaxFailures
    /\ failures' = failures + 1
    /\ recorded' = recorded \ {e}
    /\ handler' = [handler EXCEPT ![e] = Idle]
    /\ UNCHANGED <<rowVars, domainVars, stripeVars, owed, crashes, sweep, leaving, day>>

\* The process dies: nothing in memory is left, no id is released.
Crash ==
    /\ crashes < MaxCrashes
    /\ crashes' = crashes + 1
    /\ handler' = [e \in EventIds |-> Idle]
    /\ sweep' = SweepIdle
    /\ leaving' = [d \in Domains |-> "no"]
    /\ UNCHANGED <<rowVars, domainVars, stripeVars, owed, recorded, failures, day>>

-----------------------------------------------------------------------------
(* The event handlers. *)

At(e, stage) == handler[e].at = stage
Kind(e) == emitted[e].kind
Live == {d \in Domains : row[d].status # "canceled"}

Finish(e) ==
    /\ handler' = [handler EXCEPT ![e] = Idle]
    /\ owed' = owed \ {e}
Step(e, h) == handler' = [handler EXCEPT ![e] = h] /\ UNCHANGED owed

\* Go on with the domains left over, or answer 2xx.
NextDomain(e, stage) ==
    LET h == handler[e]
        rest == h.todo \ {h.cur} IN
    IF rest = {} THEN Finish(e)
    ELSE Step(e, [h EXCEPT !.at = stage, !.todo = rest, !.cur = None])

HandlerFrame == UNCHANGED <<stripeVars, recorded, failures, crashes, sweep, leaving, day>>

\* The rows a failed payment opens a grace for.
Opening == {d \in Live : row[d].status \notin {"grace", "suspended"}}

Load(e) ==
    LET todo == IF Kind(e) = "failed" THEN Opening ELSE Live IN
    /\ At(e, "load")
    /\ IF Live = {} THEN Finish(e)
       ELSE Step(e, [at |-> IF Kind(e) \in {"succeeded", "zero"} THEN "save" ELSE "write",
                     todo |-> todo, cur |-> None,
                     seen |-> [d \in Domains |-> IF d \in Live THEN row[d] ELSE None]])
    /\ HandlerFrame /\ UNCHANGED <<rowVars, domainVars>>

\* Mutants of Deadline: from the time of the attempt, and without the grace.
Mut_DeadlineFromNow(i) == day + GraceDays
Mut_NoGrace(i) == created[i]

Deadline(i) == created[i] + GraceDays

\* invoice.payment_failed, after the notices: written by _id, whatever the
\* rows have become since they were loaded.
OpenGrace(e) ==
    LET i == emitted[e].inv IN
    /\ At(e, "write") /\ Kind(e) = "failed"
    /\ row' = [d \in Domains |->
                 IF d \in handler[e].todo
                 THEN [row[d] EXCEPT !.status = "grace", !.graceEnds = Deadline(i),
                                     !.failedInvoice = i]
                 ELSE row[d]]
    /\ Finish(e)
    /\ HandlerFrame /\ UNCHANGED <<domainVars, ended>>

\* Mutant of Protected: the filter before the grace states were added to it.
Mut_ProtectsCanceledOnly(s) == {"canceled"}

\* Mutant of Protected: the filter without "canceled".
Mut_RevivesCanceled(s) == {"grace", "suspended"}

\* Rows customer.subscription.updated must leave alone.
Protected(s) == IF s \in {"past_due", "active"}
                THEN {"canceled", "grace", "suspended"} ELSE {"canceled"}

WriteStatus(e) ==
    LET s == emitted[e].status IN
    /\ At(e, "write") /\ Kind(e) = "updated"
    /\ row' = [d \in Domains |-> IF row[d].status \in Protected(s) THEN row[d]
                                 ELSE [row[d] EXCEPT !.status = s]]
    /\ Finish(e)
    /\ HandlerFrame /\ UNCHANGED <<domainVars, ended>>

\* customer.subscription.deleted.
CloseRows(e) ==
    /\ At(e, "write") /\ Kind(e) = "deleted"
    /\ row' = [d \in Domains |-> IF d \in handler[e].todo
                                 THEN [row[d] EXCEPT !.status = "canceled"] ELSE row[d]]
    /\ ended' = ended \cup handler[e].todo
    /\ Step(e, [handler[e] EXCEPT !.at = "suspend"])
    /\ HandlerFrame /\ UNCHANGED domainVars

\* suspendDomainForNonPayment: the domain, then its mailboxes.
SuspendDomain(e, d) ==
    /\ At(e, "suspend") /\ d \in handler[e].todo
    /\ domain' = [domain EXCEPT ![d] = "suspended"]
    /\ Step(e, [handler[e] EXCEPT !.at = "mailOff", !.cur = d])
    /\ HandlerFrame /\ UNCHANGED <<rowVars, mail>>

SuspendMail(e) ==
    /\ At(e, "mailOff")
    /\ mail' = [mail EXCEPT ![handler[e].cur] = FALSE]
    /\ NextDomain(e, "suspend")
    /\ HandlerFrame /\ UNCHANGED <<rowVars, domain>>

\* invoice.payment_succeeded: the status a row gets.
PaidStatus(renewal, s) == IF renewal \/ s # "trialing" THEN "active" ELSE s

\* save() writes a field only where the new value differs from the loaded one.
Saved(now, seen, new) == IF new # seen THEN new ELSE now

SaveRow(e, d) ==
    LET s == handler[e].seen[d]
        now == row[d]
        h == [handler[e] EXCEPT !.cur = d] IN
    /\ At(e, "save") /\ d \in handler[e].todo
    /\ row' = [row EXCEPT ![d] =
                 [status |-> Saved(now.status, s.status,
                                   PaidStatus(Kind(e) = "succeeded", s.status)),
                  graceEnds |-> Saved(now.graceEnds, s.graceEnds, None),
                  failedInvoice |-> Saved(now.failedInvoice, s.failedInvoice, None),
                  lastRetry |-> Saved(now.lastRetry, s.lastRetry, None)]]
    /\ Step(e, [h EXCEPT !.at = "check"])
    /\ HandlerFrame /\ UNCHANGED <<domainVars, ended>>

\* Mutant of Restorable: a payment after the sweep restores nothing.
Mut_GraceOnly(s) == s \in {"grace", "past_due"}

Restorable(s) == s \in {"grace", "past_due", "suspended"}

CheckDomain(e) ==
    LET d == handler[e].cur IN
    /\ At(e, "check")
    /\ IF Restorable(handler[e].seen[d].status) /\ domain[d] = "suspended"
       THEN Step(e, [handler[e] EXCEPT !.at = "activate"])
       ELSE NextDomain(e, "save")
    /\ HandlerFrame /\ UNCHANGED <<rowVars, domainVars>>

\* reactivateDomainForPayment.
ActivateDomain(e) ==
    /\ At(e, "activate")
    /\ domain' = [domain EXCEPT ![handler[e].cur] = "active"]
    /\ Step(e, [handler[e] EXCEPT !.at = "mailOn"])
    /\ HandlerFrame /\ UNCHANGED <<rowVars, mail>>

ActivateMail(e) ==
    /\ At(e, "mailOn")
    /\ mail' = [mail EXCEPT ![handler[e].cur] = TRUE]
    /\ NextDomain(e, "save")
    /\ HandlerFrame /\ UNCHANGED <<rowVars, domain>>

-----------------------------------------------------------------------------
(* runGraceSweepOnce. *)

SweepFrame == UNCHANGED <<hookVars, leaving, day>>
SweepTo(stage) == sweep' = [sweep EXCEPT !.at = stage]

\* Mutant of Expired: nothing ever expires.
Mut_NeverExpired(r) == FALSE

Expired(r) == r.status = "grace" /\ r.graceEnds # None /\ r.graceEnds < day

SweepStart ==
    LET expired == {d \in Domains : Expired(row[d])} IN
    /\ sweep.at = "idle"
    /\ MayStart
    /\ sweep' = [SweepIdle EXCEPT !.at = IF expired = {} THEN "retry" ELSE "suspend",
                                  !.now = day, !.todo = expired]
    /\ SweepFrame /\ UNCHANGED <<rowVars, domainVars, stripeVars>>

SweepSuspends(d) ==
    /\ sweep.at = "suspend" /\ d \in sweep.todo
    /\ domain' = [domain EXCEPT ![d] = "suspended"]
    /\ sweep' = [sweep EXCEPT !.at = "mailOff", !.cur = d]
    /\ SweepFrame /\ UNCHANGED <<rowVars, mail, stripeVars>>

SweepStopsMail ==
    /\ sweep.at = "mailOff"
    /\ mail' = [mail EXCEPT ![sweep.cur] = FALSE]
    /\ SweepTo("save")
    /\ SweepFrame /\ UNCHANGED <<rowVars, domain, stripeVars>>

\* The row was loaded in grace, so save() always writes its status.
SweepSaves ==
    LET rest == sweep.todo \ {sweep.cur} IN
    /\ sweep.at = "save"
    /\ row' = [row EXCEPT ![sweep.cur].status = "suspended"]
    /\ sweep' = [sweep EXCEPT !.at = IF rest = {} THEN "retry" ELSE "suspend",
                              !.todo = rest, !.cur = None]
    /\ SweepFrame /\ UNCHANGED <<ended, domainVars, stripeVars>>

InGrace == {d \in Domains : /\ row[d].status = "grace"
                            /\ row[d].graceEnds # None /\ row[d].graceEnds >= sweep.now}
RetryDue(r) == /\ r.failedInvoice # None
               /\ r.lastRetry # None => sweep.now - r.lastRetry >= 1

\* subs[0] speaks for the tenant's rows.
SweepRetries(d) ==
    /\ sweep.at = "retry"
    /\ d \in InGrace /\ RetryDue(row[d])
    /\ row' = [x \in Domains |-> IF x \in InGrace
                                 THEN [row[x] EXCEPT !.lastRetry = sweep.now] ELSE row[x]]
    /\ sweep' = [sweep EXCEPT !.at = "pay", !.todo = InGrace, !.inv = row[d].failedInvoice]
    /\ SweepFrame /\ UNCHANGED <<ended, domainVars, stripeVars>>

SweepHasNothingToRetry ==
    /\ sweep.at = "retry"
    /\ InGrace = {} \/ \E d \in InGrace : ~RetryDue(row[d])
    /\ sweep' = SweepIdle
    /\ SweepFrame /\ UNCHANGED <<rowVars, domainVars, stripeVars>>

SweepPays ==
    /\ sweep.at = "pay"
    /\ stripe # "canceled"
    /\ invoice[sweep.inv] = "open"
    /\ Collected(sweep.inv)
    /\ SweepTo("settle")
    /\ UNCHANGED <<rowVars, domainVars, created, leaving, day>>

\* payInvoice throws: declined (Stripe then reports it again) or not payable.
SweepIsDeclined ==
    /\ sweep.at = "pay"
    /\ stripe # "canceled" /\ invoice[sweep.inv] = "open"
    /\ Declined(sweep.inv)
    /\ sweep' = SweepIdle
    /\ UNCHANGED <<rowVars, domainVars, created, leaving, day>>

SweepCannotPay ==
    /\ sweep.at = "pay"
    /\ sweep' = SweepIdle
    /\ SweepFrame /\ UNCHANGED <<rowVars, domainVars, stripeVars>>

\* By _id again: all rows that were in grace when the retry began.
SweepSettles ==
    /\ sweep.at = "settle"
    /\ row' = [d \in Domains |->
                 IF d \in sweep.todo
                 THEN [status |-> "active", graceEnds |-> None, failedInvoice |-> None,
                       lastRetry |-> None]
                 ELSE row[d]]
    /\ sweep' = SweepIdle
    /\ SweepFrame /\ UNCHANGED <<ended, domainVars, stripeVars>>

-----------------------------------------------------------------------------
(* cancelSubscription of a domain that is not the subscription's last. *)

LeaveFrame == UNCHANGED <<stripeVars, hookVars, sweep, day>>

Leave(d) ==
    /\ leaving[d] = "no"
    /\ d \notin ended
    /\ MayStart
    /\ Live \ {d} # {}
    /\ leaving' = [leaving EXCEPT ![d] = "save"]
    /\ LeaveFrame /\ UNCHANGED <<rowVars, domainVars>>

LeaveSaves(d) ==
    /\ leaving[d] = "save"
    /\ row' = [row EXCEPT ![d].status = "canceled"]
    /\ ended' = ended \cup {d}
    /\ leaving' = [leaving EXCEPT ![d] = "suspend"]
    /\ LeaveFrame /\ UNCHANGED domainVars

LeaveSuspends(d) ==
    /\ leaving[d] = "suspend"
    /\ domain' = [domain EXCEPT ![d] = "suspended"]
    /\ leaving' = [leaving EXCEPT ![d] = "mailOff"]
    /\ LeaveFrame /\ UNCHANGED <<rowVars, mail>>

LeaveStopsMail(d) ==
    /\ leaving[d] = "mailOff"
    /\ mail' = [mail EXCEPT ![d] = FALSE]
    /\ leaving' = [leaving EXCEPT ![d] = "no"]
    /\ LeaveFrame /\ UNCHANGED <<rowVars, domain>>

DayPasses ==
    /\ day < LastDay
    /\ day' = day + 1
    /\ UNCHANGED <<rowVars, domainVars, stripeVars, hookVars, sweep, leaving>>

-----------------------------------------------------------------------------

Handle(e) ==
    \/ Load(e) \/ OpenGrace(e) \/ WriteStatus(e) \/ CloseRows(e)
    \/ SuspendMail(e) \/ CheckDomain(e) \/ ActivateDomain(e) \/ ActivateMail(e)
    \/ \E d \in Domains : SaveRow(e, d) \/ SuspendDomain(e, d)

Sweep ==
    \/ SweepStart \/ SweepStopsMail \/ SweepSaves \/ SweepHasNothingToRetry
    \/ SweepPays \/ SweepIsDeclined \/ SweepCannotPay \/ SweepSettles
    \/ \E d \in Domains : SweepSuspends(d) \/ SweepRetries(d)

Leaves(d) == LeaveSaves(d) \/ LeaveSuspends(d) \/ LeaveStopsMail(d)

Stripe == ZeroInvoice \/ EndSubscription \/ \E i \in Invoices : Renew(i) \/ Retry(i)

Next ==
    \/ Stripe
    \/ \E e \in EventIds : Deliver(e) \/ Redelivered(e) \/ HandlerFails(e) \/ Handle(e)
    \/ Sweep
    \/ \E d \in Domains : CardUpdated(d) \/ Leave(d) \/ Leaves(d)
    \/ Crash
    \/ DayPasses

Spec == Init /\ [][Next]_vars

\* The sweep's timer fires for ever, begun work is resumed when its await
\* settles, Stripe redelivers until it has a 2xx, and days pass.
FairSpec ==
    /\ Spec
    /\ WF_vars(Sweep)
    /\ WF_vars(DayPasses)
    /\ \A e \in EventIds : WF_vars(Handle(e)) /\ WF_vars(Deliver(e))
    /\ \A d \in Domains : WF_vars(Leaves(d))

-----------------------------------------------------------------------------
(* What holds whatever interleaves, is reordered, fails or crashes. *)

GraceRanOut == \E i \in failed : created[i] + GraceDays < day

\* No domain is suspended for non-payment before a failed invoice is more than
\* GraceDays old; only the end of its billing suspends it sooner (the sweep,
\* suspendDomainForNonPayment).
SuspendedAfterGrace ==
    \A d \in Domains : domain[d] = "suspended" => d \in ended \/ GraceRanOut

\* A row with an invoice to retry carries that invoice's own deadline, so that
\* neither a late or repeated event nor a stale save moves it
\* (billing.service.ts:2024, invoice.payment_failed).
HasDeadlineOf(r) ==
    /\ r.failedInvoice = None <=> r.graceEnds = None
    /\ r.failedInvoice # None =>
          /\ r.failedInvoice \in failed
          /\ r.graceEnds = created[r.failedInvoice] + GraceDays
DeadlineIsTheInvoices == \A d \in Domains : HasDeadlineOf(row[d])

\* A grace does not last: it is paid, cancelled, or ends in suspension by the
\* sweep (runGraceSweepOnce).
GraceCloses ==
    \A d \in Domains : row[d].status = "grace" ~> row[d].status # "grace"

-----------------------------------------------------------------------------
(* The invariant the proofs use. *)

\* Events speak of what happened at Stripe, and only events are handled.
EventsAreTrue ==
    /\ \A e \in 1..Len(emitted) : emitted[e].kind = "failed" => emitted[e].inv \in failed
    /\ \A i \in failed : invoice[i] # "none"
    /\ Len(emitted) <= MaxEvents
    /\ owed \subseteq 1..Len(emitted)
    /\ \A e \in EventIds : handler[e].at # "idle" => e \in 1..Len(emitted)

\* A succeeded handler works on consistent rows, a deleted one on ended domains.
HandlerInOrder(h) ==
    /\ h.at \in {"save", "check", "activate", "mailOn"} =>
          \A d \in h.todo : h.seen[d] \in Row /\ HasDeadlineOf(h.seen[d])
    /\ h.at \in {"suspend", "mailOff"} => h.todo \subseteq ended
    /\ h.at \in {"check", "activate", "mailOn", "mailOff"} => h.cur \in h.todo
HandlersInOrder == \A e \in EventIds : HandlerInOrder(handler[e])

\* The sweep works only once a grace has run out.
SweepInOrder ==
    /\ sweep.at \in {"suspend", "mailOff", "save"} => GraceRanOut
    /\ sweep.at \in {"mailOff", "save"} => sweep.cur \in Domains
    /\ sweep.at \in {"pay", "settle"} => sweep.inv \in Invoices

LeavingInOrder == \A d \in Domains : leaving[d] \in {"suspend", "mailOff"} => d \in ended

IInv ==
    /\ TypeOK
    /\ EventsAreTrue
    /\ DeadlineIsTheInvoices
    /\ HandlersInOrder
    /\ SweepInOrder
    /\ LeavingInOrder
    /\ SuspendedAfterGrace

-----------------------------------------------------------------------------
(* What holds only while work is not interrupted or overtaken. *)

AtRest == owed = {} /\ Quiet
PaidUp == stripe = "active" /\ \A i \in failed : invoice[i] = "paid"

\* Once every event is answered and nothing runs, a tenant that has paid all it
\* owed is served on every domain it still has (invoice.payment_succeeded and
\* the sweep's settlement; .scratch/stripe-e2e/spec.md:59).
PaidIsServed ==
    AtRest /\ PaidUp =>
        \A d \in Domains \ ended :
            /\ row[d].status \notin {"grace", "suspended"}
            /\ domain[d] = "active" /\ mail[d]

\* Once every event is answered and nothing runs, an unpaid renewal has every
\* remaining row in grace or suspended, whatever status events came around the
\* failed payment (billing.service.ts:1926, customer.subscription.updated).
UnpaidIsPursued ==
    AtRest /\ stripe = "past_due" =>
        \A d \in Domains \ ended : row[d].status \in {"grace", "suspended"}

\* A row whose billing has ended stays canceled (billing.service.ts:1919 "its
\* row must not be revived").
EndedStaysCanceled == \A d \in ended : row[d].status = "canceled"

-----------------------------------------------------------------------------
(* The invariant behind EndedStaysCanceled, when nothing overlaps.          *)

Overwriting == {"write", "save", "check", "activate", "mailOn"}
SweepWriting == {"suspend", "mailOff", "save", "pay", "settle"}

\* Of the handlers, the sweep and the cancellations at most one is at work.
Serial ==
    /\ \A e, f \in EventIds : handler[e].at # "idle" /\ handler[f].at # "idle" => e = f
    /\ \A d, x \in Domains : leaving[d] # "no" /\ leaving[x] # "no" => d = x
    /\ sweep.at # "idle" => \A d \in Domains : leaving[d] = "no"
    /\ \A e \in EventIds : handler[e].at # "idle" =>
          sweep.at = "idle" /\ \A d \in Domains : leaving[d] = "no"

\* So what a handler or the sweep loaded as billed still is when it writes.
NothingStale ==
    /\ \A e \in EventIds : handler[e].at \in Overwriting => handler[e].todo \cap ended = {}
    /\ sweep.at \in SweepWriting => sweep.todo \cap ended = {}
    /\ sweep.at \in {"mailOff", "save"} => sweep.cur \in sweep.todo

EndedInv == TypeOK /\ Serial /\ NothingStale /\ EndedStaysCanceled

=============================================================================
