-------------------------- MODULE SharedSubscription --------------------------
(***************************************************************************)
(* The one Stripe subscription a tenant's domains share once it pays         *)
(* (billing.service.ts, stripe/client.ts, domain-deletion.service.ts,         *)
(* billing-reconcile.job.ts): a row here and an item there per domain, the    *)
(* schedule that carries the pending downgrades into the next period, and the *)
(* number of users each item bills.  Every call reads a row, asks Stripe and  *)
(* saves; Stripe's events report what happened, late and in any order.        *)
(* Payments fail in BillingGrace; here every renewal is paid, one event is    *)
(* handled at a time, and what is charged when, the domain's own copy of the  *)
(* plan and the row's note that the subscription is ending are left out.      *)
(***************************************************************************)
EXTENDS Integers, FiniteSets

CONSTANTS Domains, Plans,
          Calls,       \* calls under way at once
          MaxUsers,    \* bound on a domain's mailboxes
          MaxBegun,    \* bound on calls and mailbox changes
          MaxFaults,   \* bound on requests that fail and restarts
          LastPeriod,  \* bound on the billing periods
          Nightly,     \* whether the reconciliation job runs
          None

ASSUME BoundsAssumption ==
    /\ MaxUsers \in Nat /\ MaxBegun \in Nat /\ MaxFaults \in Nat /\ LastPeriod \in Nat
    /\ Nightly \in BOOLEAN
ASSUME PlansAssumption == Plans # {}
ASSUME NoneAssumption == None \notin Domains \cup Plans

VARIABLES row,     \* the DomainSubscription documents
          users,   \* each domain's mailboxes, their domain's mail being on
          mail,    \* whether the domain's mail is on (Domain.status)
          items,   \* Stripe: the subscription's items
          next,    \* Stripe: the items of the schedule's next phase, {} for none
          sub,     \* Stripe: the subscription runs, is ending or has ended
          made,    \* Stripe: items ever made for each domain
          events,  \* Stripe: events not handled yet
          op,      \* what each call is doing
          hook,    \* what the webhook is doing
          sync,    \* each domain's queue of user counts
          rec,     \* what the nightly reconciliation is doing
          period, begun, faults,
          excused, \* domains two calls, or a call and a period's turn, met on, or
                   \* that came back with a downgrade from before, or whose item
                   \* Stripe would not remove; all of them once an event found
                   \* nobody on the subscription while a schedule stood (history)
          lost     \* a restart cut an event's or a new item's handling short (history)

stripeVars == <<items, next, sub, made, events>>
rowVars == <<row, users, mail>>
jobVars == <<hook, sync, rec>>
boundVars == <<period, begun, faults>>
historyVars == <<excused, lost>>
vars == <<rowVars, stripeVars, op, jobVars, boundVars, historyVars>>

Gens == Nat
Users == 0..MaxUsers
\* gen: which of the domain's items the row records; pending: pendingDowngradePlanId.
Row == [state : {"none", "live", "canceled", "gone"}, gen : Gens,
        plan : Plans \cup {None}, pending : Plans \cup {None}]
NoRow == [state |-> "none", gen |-> 0, plan |-> None, pending |-> None]
Item == [dom : Domains, gen : Gens, plan : Plans, qty : Users]
Pending == [dom : Domains, gen : Gens, plan : Plans]

Op == [kind : {None, "select", "upgrade", "downgrade", "keep", "cancel", "delete"},
       dom : Domains \cup {None}, at : {"idle", "start", "stripe", "save", "off",
                                        "read", "write", "restore"},
       plan : Plans \cup {None}, row : Row, alone : BOOLEAN, qty : Users,
       pend : SUBSET Pending]
Idle == [kind |-> None, dom |-> None, at |-> "idle", plan |-> None, row |-> NoRow,
         alone |-> FALSE, qty |-> 0, pend |-> {}]
Event == [kind : {"updated"}, sched : BOOLEAN] \cup [kind : {"renewed", "deleted"}]
\* due: what the handler has read of the rows: pending downgrades or domains.
Hook == [at : {"idle", "read", "write", "apply", "off"}, due : SUBSET Pending,
         doms : SUBSET Domains]
Resting == [at |-> "idle", due |-> {}, doms |-> {}]
Sync == [at : {"idle", "due", "push"}, again : BOOLEAN, gen : Gens, qty : Users]
Unqueued == [at |-> "idle", again |-> FALSE, gen |-> 0, qty |-> 0]
Rec == [at : {"idle", "next", "push"}, snap : SUBSET Item, cur : SUBSET Item]
Asleep == [at |-> "idle", snap |-> {}, cur |-> {}]

TypeOK ==
    /\ row \in [Domains -> Row]
    /\ users \in [Domains -> Users] /\ mail \in [Domains -> BOOLEAN]
    /\ items \subseteq Item /\ next \subseteq Item
    /\ sub \in {"running", "ending", "ended"}
    /\ made \in [Domains -> Gens]
    /\ events \subseteq Event
    /\ op \in [Calls -> Op] /\ hook \in Hook
    /\ sync \in [Domains -> Sync] /\ rec \in Rec
    /\ period \in 0..LastPeriod /\ begun \in 0..MaxBegun /\ faults \in 0..MaxFaults
    /\ excused \subseteq Domains /\ lost \in BOOLEAN

\* Some domains, at least one, are on the subscription, all with the plan that
\* was bought, each with its item.
Init ==
    /\ \E on \in (SUBSET Domains) \ {{}} : LET plan == CHOOSE p \in Plans : TRUE IN
        /\ row = [d \in Domains |-> IF d \in on
                    THEN [NoRow EXCEPT !.state = "live", !.gen = 1, !.plan = plan]
                    ELSE NoRow]
        /\ items = {[dom |-> d, gen |-> 1, plan |-> plan, qty |-> 0] : d \in on}
        /\ made = [d \in Domains |-> IF d \in on THEN 1 ELSE 0]
    /\ users = [d \in Domains |-> 0] /\ mail = [d \in Domains |-> TRUE]
    /\ next = {} /\ sub = "running" /\ events = {}
    /\ op = [c \in Calls |-> Idle] /\ hook = Resting
    /\ sync = [d \in Domains |-> Unqueued] /\ rec = Asleep
    /\ period = 0 /\ begun = 0 /\ faults = 0 /\ excused = {} /\ lost = FALSE

-----------------------------------------------------------------------------
(* Helpers. *)

\* countDocuments({ domainId, status: 'active', billingHold: false })
Active(d) == IF mail[d] THEN users[d] ELSE 0
Live(d) == row[d].state = "live"
\* Rows of the subscription other than d's that are not canceled.
Alone(d) == \A e \in Domains \ {d} : ~Live(e)
\* hasEndedSubscription
HasEnded == (\E d \in Domains : row[d].state = "canceled") /\ (\A d \in Domains : ~Live(d))

At(c, kinds, stage) == op[c].kind \in kinds /\ op[c].at = stage
Goto(c, stage) == op' = [op EXCEPT ![c].at = stage]
Finish(c) == op' = [op EXCEPT ![c] = Idle]
Fault == faults < MaxFaults /\ faults' = faults + 1
NoFault == UNCHANGED faults

ItemOf(d, gen) == {i \in items : i.dom = d /\ i.gen = gen}
Updated(sched) == [kind |-> "updated", sched |-> sched # {}]
\* A change of the items, which Stripe reports.
SetItems(new) ==
    /\ items' = new
    /\ events' = events \cup {Updated(next)}
    /\ UNCHANGED <<next, sub, made>>
Changed(old, plan, qty) ==
    (items \ old) \cup {[i EXCEPT !.plan = IF plan = None THEN @ ELSE plan, !.qty = qty] : i \in old}

\* save(): a document deleted meanwhile cannot be saved.
SaveRow(d, rec2) == row' = IF row[d].state = "gone" THEN row ELSE [row EXCEPT ![d] = rec2]

\* The renewal's event has not been handled.
Turning == hook.at = "apply" \/ \E e \in events : e.kind = "renewed"

\* A call on domain d begins, having read its row.
Begin(c, kind, d, plan, stage) ==
    /\ op[c] = Idle /\ begun < MaxBegun /\ begun' = begun + 1
    /\ op' = [op EXCEPT ![c] = [Idle EXCEPT !.kind = kind, !.dom = d, !.at = stage,
                !.plan = plan, !.row = row[d], !.alone = Alone(d), !.qty = Active(d)]]
    /\ excused' = IF (\E b \in Calls : op[b].dom = d) \/ Turning
                THEN excused \cup {d} ELSE excused
    /\ UNCHANGED <<rowVars, stripeVars, jobVars, period, faults, lost>>

-----------------------------------------------------------------------------
(* selectDomainPlan, ensureDomainSubscription: a domain joins, or joins again *)
(* after it was cancelled, the subscription its siblings pay.                *)

Select(c, d, p) ==
    /\ row[d].state \in {"none", "canceled"}
    /\ Begin(c, "select", d, p, "start")

\* Its mail comes back before its users are counted.
SelectCount(c) ==
    LET d == op[c].dom
        revived == op[c].row.state = "canceled"
    IN  /\ At(c, {"select"}, "start")
        /\ IF HasEnded THEN Finish(c) /\ UNCHANGED mail
           ELSE /\ mail' = [mail EXCEPT ![d] = @ \/ revived]
                /\ op' = [op EXCEPT ![c].at = "stripe", ![c].alone = revived /\ ~mail[d],
                            ![c].qty = IF mail[d] \/ revived THEN users[d] ELSE 0]
        /\ UNCHANGED <<row, users, stripeVars, jobVars, boundVars, historyVars>>

\* addDomainSubscriptionItem; an ended subscription takes no item.
SelectAdd(c) ==
    LET d == op[c].dom
        gen == made[d] + 1
    IN  /\ At(c, {"select"}, "stripe")
        /\ \/ /\ sub # "ended" /\ NoFault
              /\ items' = items \cup {[dom |-> d, gen |-> gen, plan |-> op[c].plan, qty |-> op[c].qty]}
              /\ made' = [made EXCEPT ![d] = gen]
              /\ events' = events \cup {Updated(next)}
              /\ op' = [op EXCEPT ![c].at = "save", ![c].row.gen = gen]
           \/ /\ IF sub = "ended" THEN NoFault ELSE Fault
              /\ UNCHANGED <<items, made, events>>
              /\ IF op[c].alone THEN Goto(c, "off") ELSE Finish(c)
        /\ UNCHANGED <<rowVars, next, sub, jobVars, period, begun, historyVars>>

\* The upsert leaves a pending downgrade of the cancelled row as it was.
SelectSave(c) ==
    LET d == op[c].dom
    IN  /\ At(c, {"select"}, "save")
        /\ row' = [row EXCEPT ![d] = [@ EXCEPT !.state = "live", !.gen = op[c].row.gen,
                                               !.plan = op[c].plan]]
        /\ excused' = IF row[d].pending = None THEN excused ELSE excused \cup {d}
        /\ Finish(c)
        /\ UNCHANGED <<users, mail, stripeVars, jobVars, boundVars, lost>>

\* suspendDomainForNonPayment, after a cancellation or a revival that failed.
MailOff(c) ==
    /\ op[c].at = "off"
    /\ mail' = [mail EXCEPT ![op[c].dom] = FALSE]
    /\ Finish(c)
    /\ UNCHANGED <<row, users, stripeVars, jobVars, boundVars, historyVars>>

-----------------------------------------------------------------------------
(* requestUpgrade, requestDowngrade, cancelPendingDowngrade.  The count      *)
(* against the plan's ceiling only refuses a call; a price is its plan's.    *)

Upgrade(c, d, p) == row[d].state \in {"live", "canceled"} /\ Begin(c, "upgrade", d, p, "stripe")

\* updateSubscriptionItemPrice: the card may be declined, the item be gone.
UpgradePush(c) ==
    LET old == ItemOf(op[c].dom, op[c].row.gen)
    IN  /\ At(c, {"upgrade"}, "stripe")
        /\ \/ /\ old # {}
              /\ \E i \in old : SetItems(Changed(old, op[c].plan,
                                          IF op[c].qty = 0 THEN i.qty ELSE op[c].qty))
              /\ Goto(c, "save")
           \/ Finish(c) /\ UNCHANGED stripeVars
        /\ UNCHANGED <<rowVars, jobVars, boundVars, historyVars>>

UpgradeSave(c) ==
    LET d == op[c].dom
        had == op[c].row.pending # None
    IN  /\ At(c, {"upgrade"}, "save")
        /\ SaveRow(d, [row[d] EXCEPT
              !.plan = IF op[c].plan = op[c].row.plan THEN @ ELSE op[c].plan,
              !.pending = IF had THEN None ELSE @])
        /\ IF had /\ row[d].state # "gone" THEN Goto(c, "read") ELSE Finish(c)
        /\ UNCHANGED <<users, mail, stripeVars, jobVars, boundVars, historyVars>>

Downgrade(c, d, p) ==
    /\ row[d].state \in {"live", "canceled"}
    /\ Begin(c, "downgrade", d, p, "save")

DowngradeSave(c) ==
    LET d == op[c].dom
    IN  /\ At(c, {"downgrade"}, "save")
        /\ SaveRow(d, [row[d] EXCEPT !.pending = op[c].plan])
        /\ IF row[d].state = "gone" THEN Finish(c) ELSE Goto(c, "read")
        /\ UNCHANGED <<users, mail, stripeVars, jobVars, boundVars, historyVars>>

Keep(c, d) == row[d].pending # None /\ Begin(c, "keep", d, None, "save")

KeepSave(c) ==
    LET d == op[c].dom
    IN  /\ At(c, {"keep"}, "save")
        /\ SaveRow(d, [row[d] EXCEPT !.pending = None])
        /\ IF row[d].state = "gone" THEN Finish(c) ELSE Goto(c, "read")
        /\ UNCHANGED <<users, mail, stripeVars, jobVars, boundVars, historyVars>>

\* Stripe still charges the downgrade, so the row shows it again.
KeepRestore(c) ==
    LET d == op[c].dom
    IN  /\ At(c, {"keep"}, "restore")
        /\ SaveRow(d, [row[d] EXCEPT !.pending = op[c].row.pending])
        /\ Finish(c)
        /\ UNCHANGED <<users, mail, stripeVars, jobVars, boundVars, historyVars>>

-----------------------------------------------------------------------------
(* syncPendingDowngrades: the rows are read, then the schedule is rebuilt    *)
(* from the live items.  Retrieving and rewriting are one step here: a change *)
(* between them reports itself, and its event rebuilds the schedule again.   *)

Mut_EveryRow ==
    {[dom |-> d, gen |-> row[d].gen, plan |-> row[d].pending] : d \in {e \in Domains : Live(e)}}

PendingRows ==
    {[dom |-> d, gen |-> row[d].gen, plan |-> row[d].pending] :
        d \in {e \in Domains : Live(e) /\ row[e].pending # None}}

Mut_Untouched(due) == items

\* The items of the next period, every pending downgrade applied.
NextPhase(due) ==
    {IF \E p \in due : p.dom = i.dom /\ p.gen = i.gen
     THEN [i EXCEPT !.plan = (CHOOSE p \in due : p.dom = i.dom /\ p.gen = i.gen).plan]
     ELSE i : i \in items}

\* setPendingPrices: released when nothing is pending, left when in step.
Rebuild(due) ==
    LET phase == IF NextPhase(due) = items THEN {} ELSE NextPhase(due)
    IN  /\ next' = phase
        /\ events' = IF phase = next THEN events ELSE events \cup {Updated(phase)}
        /\ UNCHANGED <<items, sub, made>>

SyncRead(c) ==
    /\ op[c].at = "read"
    /\ op' = [op EXCEPT ![c].at = "write", ![c].pend = PendingRows]
    /\ UNCHANGED <<rowVars, stripeVars, jobVars, boundVars, historyVars>>

SyncWrite(c) ==
    /\ op[c].at = "write"
    /\ \/ Rebuild(op[c].pend) /\ NoFault /\ Finish(c)
       \/ /\ Fault /\ UNCHANGED stripeVars
          /\ IF op[c].kind = "keep" THEN Goto(c, "restore") ELSE Finish(c)
    /\ UNCHANGED <<rowVars, jobVars, period, begun, historyVars>>

-----------------------------------------------------------------------------
(* cancelSubscription, and the billing part of executeDeletionCascade.       *)

Cancel(c, d) == row[d].state \in {"live", "canceled"} /\ Begin(c, "cancel", d, None, "stripe")

\* Stripe refuses to remove a subscription's last item.
Removable(d, gen) == ItemOf(d, gen) # {} /\ items # ItemOf(d, gen)

Refused(c) == ~op[c].alone /\ ~Removable(op[c].dom, op[c].row.gen)

\* A refusal is logged and ignored.
CancelStripe(c) ==
    LET d == op[c].dom
        old == ItemOf(d, op[c].row.gen)
    IN  /\ At(c, {"cancel"}, "stripe")
        /\ \/ /\ op[c].alone /\ sub # "ended" /\ NoFault
              /\ sub' = "ending" /\ events' = events \cup {Updated(next)}
              /\ UNCHANGED <<items, next, made>>
           \/ /\ ~op[c].alone /\ Removable(d, op[c].row.gen) /\ NoFault
              /\ SetItems(items \ old)
           \/ /\ IF op[c].alone THEN sub = "ended" ELSE ~Removable(d, op[c].row.gen)
              /\ NoFault /\ UNCHANGED stripeVars
           \/ Fault /\ UNCHANGED stripeVars
        /\ excused' = IF Refused(c) THEN excused \cup {d} ELSE excused
        /\ Goto(c, "save")
        /\ UNCHANGED <<rowVars, jobVars, period, begun, lost>>

Mut_MailGoesOn(c) == Finish(c)

AfterCancel(c) == Goto(c, "off")

\* The last domain's row only learns that the subscription ends.
CancelSave(c) ==
    LET d == op[c].dom
    IN  /\ At(c, {"cancel"}, "save")
        /\ IF op[c].alone \/ row[d].state = "gone"
           THEN Finish(c) /\ UNCHANGED row
           ELSE AfterCancel(c) /\ SaveRow(d, [row[d] EXCEPT !.state =
                    IF op[c].row.state = "canceled" THEN @ ELSE "canceled"])
        /\ UNCHANGED <<users, mail, stripeVars, jobVars, boundVars, historyVars>>

Delete(c, d) ==
    /\ users[d] = 0 /\ row[d].state \in {"live", "canceled"}
    /\ Begin(c, "delete", d, None, "stripe")

\* Stripe ends a subscription that is cancelled at once.
Ended == /\ sub' = "ended" /\ items' = {} /\ next' = {}
         /\ events' = events \cup {[kind |-> "deleted"]} /\ UNCHANGED made

DeleteStripe(c) ==
    LET d == op[c].dom
    IN  /\ At(c, {"delete"}, "stripe")
        /\ \/ /\ op[c].alone /\ sub # "ended" /\ NoFault /\ Ended
           \/ /\ ~op[c].alone /\ op[c].row.state = "live" /\ Removable(d, op[c].row.gen)
              /\ NoFault /\ SetItems(items \ ItemOf(d, op[c].row.gen))
           \/ /\ IF op[c].alone THEN sub = "ended"
                 ELSE op[c].row.state # "live" \/ ~Removable(d, op[c].row.gen)
              /\ NoFault /\ UNCHANGED stripeVars
           \/ Fault /\ UNCHANGED stripeVars
        /\ excused' = IF Refused(c) THEN excused \cup {d} ELSE excused
        /\ Goto(c, "save")
        /\ UNCHANGED <<rowVars, jobVars, period, begun, lost>>

DeleteRow(c) ==
    /\ At(c, {"delete"}, "save")
    /\ row' = [row EXCEPT ![op[c].dom] = [NoRow EXCEPT !.state = "gone"]]
    /\ Finish(c)
    /\ UNCHANGED <<users, mail, stripeVars, jobVars, boundVars, historyVars>>

\* cancelTenantSubscription, resumeTenantSubscription; a failure is ignored.
EndAll(ending) ==
    /\ begun < MaxBegun /\ begun' = begun + 1
    /\ sub = IF ending THEN "running" ELSE "ending"
    /\ sub' = IF ending THEN "ending" ELSE "running"
    /\ events' = events \cup {Updated(next)}
    /\ UNCHANGED <<rowVars, items, next, made, op, jobVars, period, faults, historyVars>>

-----------------------------------------------------------------------------
(* handleWebhookEvent: an event whose handler throws is delivered again; one  *)
(* whose handling a restart cuts short is taken for handled.                 *)

Take(e) == events' = events \ {e} /\ UNCHANGED <<items, next, sub, made>>

Mut_NeverFollowed(d) == row[d]

\* A live row follows an item of its domain that no row knows.
Followed(d) ==
    LET unknown == {i \in items : i.dom = d /\ i.gen # row[d].gen}
    IN  IF Live(d) /\ unknown # {}
        THEN [row[d] EXCEPT !.gen = (CHOOSE i \in unknown : TRUE).gen]
        ELSE row[d]

HookUpdated(e) ==
    /\ hook = Resting /\ e \in events /\ e.kind = "updated"
    /\ Take(e)
    /\ row' = [d \in Domains |-> Followed(d)]
    /\ hook' = IF (\E d \in Domains : Live(d))
                    /\ (e.sched \/ \E d \in Domains : Live(d) /\ row[d].pending # None)
               THEN [hook EXCEPT !.at = "read"] ELSE Resting
    /\ excused' = IF next # {} /\ ~\E d \in Domains : Live(d) THEN Domains ELSE excused
    /\ UNCHANGED <<users, mail, op, sync, rec, boundVars, lost>>

HookRead ==
    /\ hook.at = "read"
    /\ hook' = [hook EXCEPT !.at = "write", !.due = PendingRows]
    /\ UNCHANGED <<rowVars, stripeVars, op, sync, rec, boundVars, historyVars>>

HookWrite ==
    /\ hook.at = "write"
    /\ \/ Rebuild(hook.due) /\ NoFault
       \/ Fault /\ events' = events \cup {Updated(next)} /\ UNCHANGED <<items, next, sub, made>>
    /\ hook' = Resting
    /\ UNCHANGED <<rowVars, op, sync, rec, period, begun, historyVars>>

\* invoice.payment_succeeded of a renewal: every row's pending plan is its plan.
HookRenewed(e) ==
    /\ hook = Resting /\ e \in events /\ e.kind = "renewed"
    /\ Take(e)
    /\ hook' = [hook EXCEPT !.at = "apply", !.due = PendingRows]
    /\ UNCHANGED <<rowVars, op, sync, rec, boundVars, historyVars>>

HookApply ==
    /\ hook.at = "apply"
    /\ row' = [d \in Domains |->
                IF row[d].state # "gone" /\ \E p \in hook.due : p.dom = d
                THEN [row[d] EXCEPT !.plan = (CHOOSE p \in hook.due : p.dom = d).plan,
                                    !.pending = None]
                ELSE row[d]]
    /\ hook' = Resting
    /\ UNCHANGED <<users, mail, stripeVars, op, sync, rec, boundVars, historyVars>>

HookDeleted(e) ==
    LET doms == {d \in Domains : Live(d)}
    IN  /\ hook = Resting /\ e \in events /\ e.kind = "deleted"
        /\ Take(e)
        /\ row' = [d \in Domains |-> IF d \in doms THEN [row[d] EXCEPT !.state = "canceled"] ELSE row[d]]
        /\ hook' = [hook EXCEPT !.at = "off", !.doms = doms]
        /\ UNCHANGED <<users, mail, op, sync, rec, boundVars, historyVars>>

HookOff ==
    /\ hook.at = "off"
    /\ mail' = [d \in Domains |-> mail[d] /\ d \notin hook.doms]
    /\ hook' = Resting
    /\ UNCHANGED <<row, users, stripeVars, op, sync, rec, boundVars, historyVars>>

-----------------------------------------------------------------------------
(* syncDomainActiveUserCount, queued by every change of a domain's mailboxes. *)

ChangeUsers(d) ==
    /\ row[d].state # "gone" /\ begun < MaxBegun /\ begun' = begun + 1
    /\ \E n \in {users[d] - 1, users[d] + 1} \cap Users :
        /\ n > users[d] => mail[d]
        /\ users' = [users EXCEPT ![d] = n]
    /\ sync' = [sync EXCEPT ![d] = IF @.at = "push" THEN [@ EXCEPT !.again = TRUE]
                                   ELSE [@ EXCEPT !.at = "due"]]
    /\ UNCHANGED <<row, mail, stripeVars, op, hook, rec, period, faults, historyVars>>

SyncCount(d) ==
    /\ sync[d].at = "due"
    /\ sync' = [sync EXCEPT ![d] =
          IF row[d].state \in {"live", "canceled"}
          THEN [@ EXCEPT !.at = "push", !.gen = row[d].gen, !.qty = Active(d)] ELSE Unqueued]
    /\ UNCHANGED <<rowVars, stripeVars, op, hook, rec, boundVars, historyVars>>

\* syncDomainUserQuantity; a failure waits for the night.
SyncPush(d) ==
    LET old == ItemOf(d, sync[d].gen)
    IN  /\ sync[d].at = "push"
        /\ \/ old # {} /\ SetItems(Changed(old, None, sync[d].qty)) /\ NoFault
           \/ IF old = {} THEN NoFault /\ UNCHANGED stripeVars ELSE Fault /\ UNCHANGED stripeVars
        /\ sync' = [sync EXCEPT ![d] = IF @.again THEN [Unqueued EXCEPT !.at = "due"] ELSE Unqueued]
        /\ UNCHANGED <<rowVars, op, hook, rec, period, begun, historyVars>>

-----------------------------------------------------------------------------
(* runBillingReconciliationOnce *)

RecBegin ==
    /\ Nightly /\ rec = Asleep /\ sub # "ended" /\ items # {}
    /\ rec' = [rec EXCEPT !.at = "next", !.snap = items]
    /\ UNCHANGED <<rowVars, stripeVars, op, hook, sync, boundVars, historyVars>>

\* The row is looked for by the item it records.
RowFound(i) == row[i.dom].state \in {"live", "canceled"} /\ row[i.dom].gen = i.gen

RecCount(i) ==
    LET rest == rec.snap \ {i}
    IN  /\ rec.at = "next" /\ i \in rec.snap
        /\ rec' = IF RowFound(i) /\ i.qty # Active(i.dom)
                  THEN [at |-> "push", snap |-> rest, cur |-> {[i EXCEPT !.qty = Active(i.dom)]}]
                  ELSE IF rest = {} THEN Asleep ELSE [rec EXCEPT !.snap = rest]
        /\ UNCHANGED <<rowVars, stripeVars, op, hook, sync, boundVars, historyVars>>

\* One refusal ends the tenant's turn until the next night.
RecPush ==
    /\ rec.at = "push"
    /\ \E i \in rec.cur :
        LET old == ItemOf(i.dom, i.gen)
        IN  \/ /\ old # {} /\ NoFault /\ SetItems(Changed(old, None, i.qty))
               /\ rec' = IF rec.snap = {} THEN Asleep
                         ELSE [rec EXCEPT !.at = "next", !.cur = {}]
            \/ /\ IF old = {} THEN NoFault ELSE Fault
               /\ UNCHANGED stripeVars /\ rec' = Asleep
    /\ UNCHANGED <<rowVars, op, hook, sync, period, begun, historyVars>>

-----------------------------------------------------------------------------
(* Stripe's clock, and restarts. *)

\* The period turns: a subscription that was ending ends, the next phase's own
\* copy of the items replaces the items, and an item given a new price is new.
Turn ==
    /\ sub # "ended" /\ period < LastPeriod /\ period' = period + 1
    /\ excused' = IF hook # Resting \/ events # {} THEN Domains
                ELSE excused \cup {op[c].dom : c \in {b \in Calls : op[b].dom # None}}
    /\ IF sub = "ending" THEN Ended
       ELSE LET renewed(i) == i.plan = (CHOOSE j \in items : j.dom = i.dom /\ j.gen = i.gen).plan
                kept == {i \in next : ItemOf(i.dom, i.gen) # {} /\ renewed(i)}
                fresh == next \ kept
            IN  /\ IF next = {} THEN UNCHANGED <<items, made>>
                   ELSE /\ items' = kept \cup {[i EXCEPT !.gen = made[i.dom] + 1] : i \in fresh}
                        /\ made' = [d \in Domains |->
                              IF \E i \in fresh : i.dom = d THEN made[d] + 1 ELSE made[d]]
                /\ next' = {}
                /\ events' = events \cup {Updated(next), [kind |-> "renewed"]}
                /\ UNCHANGED sub
    /\ UNCHANGED <<rowVars, op, jobVars, begun, faults, lost>>

Crash ==
    /\ Fault
    /\ op' = [c \in Calls |-> Idle] /\ hook' = Resting
    /\ sync' = [d \in Domains |-> Unqueued] /\ rec' = Asleep
    /\ lost' = (lost \/ hook # Resting \/ \E c \in Calls : At(c, {"select"}, "save"))
    /\ UNCHANGED <<rowVars, stripeVars, period, begun, excused>>

BeginCall(c, d) ==
    \/ Cancel(c, d) \/ Delete(c, d) \/ Keep(c, d)
    \/ \E p \in Plans : Select(c, d, p) \/ Upgrade(c, d, p) \/ Downgrade(c, d, p)

CallStep(c) ==
    \/ SelectCount(c) \/ SelectAdd(c) \/ SelectSave(c) \/ MailOff(c)
    \/ UpgradePush(c) \/ UpgradeSave(c) \/ DowngradeSave(c) \/ KeepSave(c) \/ KeepRestore(c)
    \/ SyncRead(c) \/ SyncWrite(c)
    \/ CancelStripe(c) \/ CancelSave(c) \/ DeleteStripe(c) \/ DeleteRow(c)

HookStep ==
    \/ HookRead \/ HookWrite \/ HookApply \/ HookOff
    \/ \E e \in events : HookUpdated(e) \/ HookRenewed(e) \/ HookDeleted(e)

RecStep == RecBegin \/ RecPush \/ \E i \in rec.snap : RecCount(i)

Next ==
    \/ \E c \in Calls : CallStep(c) \/ \E d \in Domains : BeginCall(c, d)
    \/ \E ending \in BOOLEAN : EndAll(ending)
    \/ HookStep \/ RecStep \/ Turn \/ Crash
    \/ \E d \in Domains : ChangeUsers(d) \/ SyncCount(d) \/ SyncPush(d)

Spec == Init /\ [][Next]_vars

\* Stripe delivers an event until it is handled; the reconciliation runs every
\* night.  Nothing obliges a call, or the queue of counts, to go on.
FairSpec == Spec /\ WF_vars(HookStep) /\ WF_vars(RecStep)

-----------------------------------------------------------------------------
(* Properties. *)

Quiet == events = {} /\ hook = Resting /\ \A c \in Calls : op[c] = Idle

\* Once every event is handled and no call is under way, and nothing failed,
\* Stripe bills each domain of a running subscription the plan its row shows,
\* and will bill next what the row says is pending, unless the domain's own
\* calls met each other or the turn of a period, an old downgrade came back with
\* it, or Stripe would not remove an item of its (syncPendingDowngrades).
PlanAgrees ==
    Quiet /\ faults = 0 /\ sub # "ended" =>
        \A d \in Domains \ excused : Live(d) =>
            /\ \E i \in ItemOf(d, row[d].gen) : i.plan = row[d].plan
            /\ LET due == IF row[d].pending = None THEN row[d].plan ELSE row[d].pending
               IN  IF next = {} THEN due = row[d].plan
                   ELSE \E i \in next : i.dom = d /\ i.gen = row[d].gen /\ i.plan = due

\* Under the same conditions a domain's mail is on exactly when it is billed
\* (cancelSubscription, ensureDomainSubscription, customer.subscription.deleted).
MailFollowsBill ==
    Quiet /\ faults = 0 =>
        \A d \in Domains \ excused :
            /\ Live(d) => mail[d]
            /\ row[d].state = "canceled" => ~mail[d]

\* Whatever count of users a call, a queue, a schedule's copy or a lost request
\* left on the item of a domain that has a row, and whichever item replaced it,
\* the bill comes to count the mailboxes that can be used, none for a domain
\* that was cancelled (runBillingReconciliationOnce, customer.subscription.updated).
QuantityRepaired ==
    <>[](lost \/ \A d \in Domains :
            LET mine == {i \in items : i.dom = d}
            IN  row[d].state \in {"live", "canceled"} /\ mine # {} =>
                    \E i \in mine : i.qty = Active(d))

\* "only when this is the LAST domain still attached to that shared subscription
\* does the whole Stripe Subscription get canceled": a subscription all of whose
\* domains were cancelled, nothing having failed, is ending (cancelSubscription).
LastEndsIt ==
    Quiet /\ faults = 0 /\ (\A d \in Domains : ~Live(d)) => sub # "running"
=============================================================================
