--------------------------- MODULE TrialActivation ---------------------------
(***************************************************************************)
(* Starting a tenant's trial and its subscription rows                     *)
(* (startCartCheckout, adoptActivationSession, ensureDomainSubscription,   *)
(* the activation lock and releaseBillingHolds of                          *)
(* backend/src/services/billing.service.ts).                               *)
(*                                                                         *)
(* One tenant.  A finished Stripe checkout is adopted by the return trip   *)
(* and by the webhook, each possibly several times; other calls attach     *)
(* single domains to the running subscription.  Every await ends a step.   *)
(* A call may throw or die between two steps (MaxCut); the lock of a dead  *)
(* call goes stale after its five minutes.                                 *)
(***************************************************************************)
EXTENDS Naturals, FiniteSets

CONSTANTS Calls,         \* calls that may be under way together
          Sessions,      \* Stripe checkouts, each with its subscription
          Lines,         \* domains with users: the lines of a checkout
          Planned,       \* all domains with a plan
          MaxCut,        \* bound on the calls cut short
          MaxEnded,      \* bound on the subscriptions that end
          Slow,          \* a call may outlast the lock's five minutes
          AttachAlone,   \* attaching a domain never overlaps another call
          None           \* null

ASSUME DomainsAssumption == Lines \subseteq Planned
ASSUME OptionsAssumption == Slow \in BOOLEAN /\ AttachAlone \in BOOLEAN
                            /\ MaxCut \in Nat /\ MaxEnded \in Nat
ASSUME NoneAssumption == None \notin Sessions /\ None \notin Planned

VARIABLES session,       \* Stripe: "none", "open" or "complete"
          resubscribe,   \* metadata of the checkout: opened by a returning tenant
          canceled,      \* Stripe: checkouts whose subscription has ended
          items,         \* Stripe: items of a subscription for a domain
          trial,         \* Tenant.trialStartedAt and trialEndsAt: whose dates
          sub,           \* Tenant.stripeSubscriptionId
          lock,          \* Tenant.activationLock: "free", "held" or "stale"
          row,           \* DomainSubscription of a domain, or None
          held,          \* domains whose mailboxes wait for billing
          call,          \* where each call stands
          cut            \* calls cut short

stripeVars == <<session, resubscribe, canceled>>
tenantVars == <<trial, sub, lock>>
vars == <<stripeVars, items, tenantVars, row, held, call, cut>>

Critical == {"stripe", "save", "rows", "unlock"}
Ensuring == {"ensure", "join", "item", "upsert"}
Stages == {"idle", "claim", "missed", "holds", "done", "refused", "dead"}
          \cup Critical \cup Ensuring
Row == [sub : Sessions, live : BOOLEAN]
ASSUME RowAssumption == None \notin Row
Call == [at : Stages, s : Sessions \cup {None}, returning : BOOLEAN,
         old : Sessions \cup {None}, todo : SUBSET Planned, cur : Planned \cup {None},
         failed : BOOLEAN, release : BOOLEAN]
Idle == [at |-> "idle", s |-> None, returning |-> FALSE, old |-> None, todo |-> {},
         cur |-> None, failed |-> FALSE, release |-> FALSE]

TypeOK ==
    /\ session \in [Sessions -> {"none", "open", "complete"}]
    /\ resubscribe \in [Sessions -> BOOLEAN]
    /\ canceled \in SUBSET Sessions
    /\ items \in [Sessions -> [Planned -> Nat]]
    /\ trial \in Sessions \cup {None}
    /\ sub \in Sessions \cup {None}
    /\ lock \in {"free", "held", "stale"}
    /\ row \in [Planned -> Row \cup {None}]
    /\ held \in SUBSET Planned
    /\ call \in [Calls -> Call]
    /\ cut \in Nat

Init ==
    /\ session = [s \in Sessions |-> "none"]
    /\ resubscribe = [s \in Sessions |-> FALSE]
    /\ canceled = {}
    /\ items = [s \in Sessions |-> [d \in Planned |-> 0]]
    /\ trial = None
    /\ sub = None
    /\ lock = "free"
    /\ row = [d \in Planned |-> None]
    /\ held = Lines
    /\ call = [c \in Calls |-> Idle]
    /\ cut = 0

-----------------------------------------------------------------------------
(* State formulae and steps. *)

At(c, stage) == call[c].at = stage
Step(c, k) == call' = [call EXCEPT ![c] = k]
Goto(c, stage) == Step(c, [call[c] EXCEPT !.at = stage])

Over == {"idle", "done", "refused", "dead"}
Quiet == \A c \in Calls : call[c].at \in Over
RowsOf(s) == {d \in Planned : row[d] # None /\ row[d].sub = s}

\* hasEndedSubscription: every row of the tenant's subscription is canceled.
Ended ==
    /\ trial # None
    /\ RowsOf(sub) # {}
    /\ \A d \in RowsOf(sub) : ~row[d].live

-----------------------------------------------------------------------------
(* Stripe and the Tenant Admin. *)

\* startCartCheckout: refused once the trial has started, unless it has ended.
StartCheckout(s) ==
    /\ session[s] = "none"
    /\ trial = None \/ Ended
    /\ session' = [session EXCEPT ![s] = "open"]
    /\ resubscribe' = [resubscribe EXCEPT ![s] = Ended]
    /\ UNCHANGED <<canceled, items, tenantVars, row, held, call, cut>>

\* Stripe creates the subscription with one item per line.
Complete(s) ==
    /\ session[s] = "open"
    /\ session' = [session EXCEPT ![s] = "complete"]
    /\ items' = [items EXCEPT ![s] = [d \in Planned |-> IF d \in Lines THEN 1 ELSE 0]]
    /\ UNCHANGED <<resubscribe, canceled, tenantVars, row, held, call, cut>>

EndSubscription(s) ==
    /\ session[s] = "complete" /\ s \notin canceled
    /\ Cardinality(canceled) < MaxEnded
    /\ canceled' = canceled \cup {s}
    /\ UNCHANGED <<session, resubscribe, items, tenantVars, row, held, call, cut>>

\* customer.subscription.deleted: every row of the subscription is canceled.
SubscriptionDeleted(s) ==
    /\ s \in canceled
    /\ \E d \in RowsOf(s) : row[d].live
    /\ row' = [d \in Planned |-> IF d \in RowsOf(s) THEN [row[d] EXCEPT !.live = FALSE]
                                 ELSE row[d]]
    /\ UNCHANGED <<stripeVars, items, tenantVars, held, call, cut>>

-----------------------------------------------------------------------------
(* adoptActivationSession. *)

Frame == UNCHANGED <<stripeVars, cut>>

\* The return trip or the webhook finds the checkout complete and reads the
\* tenant.
Adopt(c, s) ==
    /\ At(c, "idle")
    /\ session[s] = "complete"
    /\ AttachAlone => \A x \in Calls : call[x].s # None \/ call[x].at \in Over
    /\ Step(c, [Idle EXCEPT !.at = "claim", !.s = s, !.returning = Ended, !.old = sub])
    /\ Frame /\ UNCHANGED <<items, tenantVars, row, held>>

\* Mutants of Claimable: without the lock, with the lock alone, and without
\* taking over the lock of a dead call.
Mut_IgnoresLock(k) == IF k.returning THEN sub = k.old ELSE trial = None
Mut_LockAlone(k) == lock # "held"
Mut_NeverTakenOver(k) ==
    /\ lock = "free"
    /\ IF k.returning THEN sub = k.old ELSE trial = None

\* The filter of claimActivationLock.
Claimable(k) ==
    /\ lock # "held"
    /\ IF k.returning THEN sub = k.old ELSE trial = None

Claim(c) ==
    /\ At(c, "claim")
    /\ Claimable(call[c])
    /\ lock' = "held"
    /\ Goto(c, "stripe")
    /\ Frame /\ UNCHANGED <<items, trial, sub, row, held>>

ClaimMissed(c) ==
    /\ At(c, "claim")
    /\ ~Claimable(call[c])
    /\ Goto(c, "missed")
    /\ Frame /\ UNCHANGED <<items, tenantVars, row, held>>

AlreadyStarted(k) == trial # None /\ (k.returning => sub = k.s)

\* Somebody else adopted it: success, and the held mailboxes go live unless
\* this checkout did not bill them; otherwise a 409.
Missed(c) ==
    LET k == call[c] IN
    /\ At(c, "missed")
    /\ Goto(c, IF ~AlreadyStarted(k) THEN "refused"
               ELSE IF resubscribe[k.s] THEN "done" ELSE "holds")
    /\ Frame /\ UNCHANGED <<items, tenantVars, row, held>>

RetrieveSubscription(c) ==
    LET k == call[c] IN
    /\ At(c, "stripe")
    /\ IF k.returning /\ k.s \in canceled
       THEN Step(c, [k EXCEPT !.at = "unlock", !.failed = TRUE])
       ELSE Goto(c, "save")
    /\ Frame /\ UNCHANGED <<items, tenantVars, row, held>>

\* save() of the claimed tenant; a returning one keeps its trial's start.
SaveTenant(c) ==
    LET k == call[c] IN
    /\ At(c, "save")
    /\ sub' = k.s
    /\ trial' = IF k.returning THEN trial ELSE k.s
    /\ Step(c, [k EXCEPT !.at = IF Lines = {} THEN "unlock" ELSE "rows", !.todo = Lines])
    /\ Frame /\ UNCHANGED <<items, lock, row, held>>

\* A row per line of the checkout, live whatever became of an older one.
AdoptRow(c, d) ==
    LET k == call[c]
        rest == k.todo \ {d} IN
    /\ At(c, "rows") /\ d \in k.todo
    /\ row' = [row EXCEPT ![d] = [sub |-> k.s, live |-> TRUE]]
    /\ Step(c, [k EXCEPT !.at = IF rest = {} THEN "unlock" ELSE "rows", !.todo = rest])
    /\ Frame /\ UNCHANGED <<items, tenantVars, held>>

\* releaseActivationLock in the finally block, whoever holds the lock by now.
Unlock(c) ==
    LET k == call[c] IN
    /\ At(c, "unlock")
    /\ lock' = "free"
    /\ IF k.failed THEN Goto(c, "refused")
       ELSE Step(c, [k EXCEPT !.at = "ensure", !.todo = Planned,
                              !.release = ~k.returning])
    /\ Frame /\ UNCHANGED <<items, trial, sub, row, held>>

-----------------------------------------------------------------------------
(* ensureDomainSubscription, over the domains in todo. *)

AfterEnsuring(c) ==
    /\ At(c, "ensure") /\ call[c].todo = {}
    /\ Goto(c, IF call[c].release THEN "holds" ELSE "done")
    /\ Frame /\ UNCHANGED <<items, tenantVars, row, held>>

\* Mutants of HasLiveRow: nothing counts as attached already; a domain without
\* a row does.
Mut_NeverAttached(d) == FALSE
Mut_NoRowIsLive(d) == row[d] = None \/ row[d].live

HasLiveRow(d) == row[d] # None /\ row[d].live

ReadRow(c, d) ==
    LET k == call[c] IN
    /\ At(c, "ensure") /\ d \in k.todo
    /\ Step(c, IF HasLiveRow(d) THEN [k EXCEPT !.todo = @ \ {d}]
               ELSE [k EXCEPT !.at = "join", !.todo = @ \ {d}, !.cur = d])
    /\ Frame /\ UNCHANGED <<items, tenantVars, row, held>>

\* Nothing to join before the trial has started or after the subscription ended.
ReadTenant(c) ==
    LET k == call[c] IN
    /\ At(c, "join")
    /\ Step(c, IF trial = None \/ Ended THEN [k EXCEPT !.at = "ensure"]
               ELSE [k EXCEPT !.at = "item", !.old = sub])
    /\ Frame /\ UNCHANGED <<items, tenantVars, row, held>>

AddItem(c) ==
    LET k == call[c] IN
    /\ At(c, "item")
    /\ IF k.old \in canceled THEN Goto(c, "refused") /\ UNCHANGED items
       ELSE /\ items' = [items EXCEPT ![k.old][k.cur] = @ + 1]
            /\ Goto(c, "upsert")
    /\ Frame /\ UNCHANGED <<tenantVars, row, held>>

AttachedRow(k) == [sub |-> k.old, live |-> TRUE]

UpsertRow(c) ==
    LET k == call[c] IN
    /\ At(c, "upsert")
    /\ row' = [row EXCEPT ![k.cur] = AttachedRow(k)]
    /\ Goto(c, "ensure")
    /\ Frame /\ UNCHANGED <<items, tenantVars, held>>

ReleaseHolds(c) ==
    /\ At(c, "holds")
    /\ held' = {}
    /\ Goto(c, "done")
    /\ Frame /\ UNCHANGED <<items, tenantVars, row>>

\* selectDomainPlan, a new domain, a first mailbox: one domain is attached.
SelectPlan(c, d) ==
    /\ At(c, "idle")
    /\ AttachAlone => Quiet
    /\ Step(c, [Idle EXCEPT !.at = "ensure", !.todo = {d}])
    /\ Frame /\ UNCHANGED <<items, tenantVars, row, held>>

\* attachDomainWithSavedPayment: the running trial's domains, then the holds.
UseSavedCard(c) ==
    /\ At(c, "idle")
    /\ AttachAlone => Quiet
    /\ trial # None /\ ~Ended
    /\ Step(c, [Idle EXCEPT !.at = "ensure", !.todo = Planned, !.release = TRUE])
    /\ Frame /\ UNCHANGED <<items, tenantVars, row, held>>

-----------------------------------------------------------------------------
(* The environment. *)

\* A call throws: an adoption still runs its finally block.
Throws(c) ==
    LET k == call[c] IN
    /\ k.at \in (Critical \ {"unlock"}) \cup Ensuring \cup {"holds"}
    /\ cut < MaxCut
    /\ cut' = cut + 1
    /\ Step(c, [k EXCEPT !.failed = TRUE,
                         !.at = IF k.at \in Critical THEN "unlock" ELSE "refused"])
    /\ UNCHANGED <<stripeVars, items, tenantVars, row, held>>

Dies(c) ==
    /\ call[c].at \notin Over
    /\ cut < MaxCut
    /\ cut' = cut + 1
    /\ Goto(c, "dead")
    /\ UNCHANGED <<stripeVars, items, tenantVars, row, held>>

\* ACTIVATION_LOCK_TTL_MS has passed.
LockGoesStale ==
    /\ lock = "held"
    /\ Slow \/ \A c \in Calls : call[c].at \notin Critical
    /\ lock' = "stale"
    /\ Frame /\ UNCHANGED <<items, trial, sub, row, held, call>>

\* A refused call is tried once more; the place of an attaching call that is
\* over is free for another call.
TryAgain(c) ==
    /\ At(c, "refused") \/ (At(c, "done") /\ call[c].s = None)
    /\ Step(c, Idle)
    /\ Frame /\ UNCHANGED <<items, tenantVars, row, held>>

Runs(c) ==
    \/ Claim(c) \/ ClaimMissed(c) \/ Missed(c) \/ RetrieveSubscription(c)
    \/ SaveTenant(c) \/ Unlock(c) \/ AfterEnsuring(c) \/ ReadTenant(c)
    \/ AddItem(c) \/ UpsertRow(c) \/ ReleaseHolds(c)
    \/ \E d \in Planned : AdoptRow(c, d) \/ ReadRow(c, d)

Adopts(c) == \E s \in Sessions : Adopt(c, s)

Next ==
    \/ \E s \in Sessions : StartCheckout(s) \/ Complete(s)
                        \/ EndSubscription(s) \/ SubscriptionDeleted(s)
    \/ \E c \in Calls :
          \/ Adopts(c) \/ Runs(c) \/ Throws(c) \/ Dies(c) \/ TryAgain(c)
          \/ UseSavedCard(c)
          \/ \E d \in Planned : SelectPlan(c, d)
    \/ LockGoesStale

Spec == Init /\ [][Next]_vars

\* Begun calls go on, the lock's time passes, and a finished checkout is
\* delivered and retried until it is answered with success.
FairSpec ==
    /\ Spec
    /\ WF_vars(LockGoesStale)
    /\ \A c \in Calls : WF_vars(Runs(c)) /\ WF_vars(TryAgain(c)) /\ SF_vars(Adopts(c))

-----------------------------------------------------------------------------
(* What activation promises. *)

\* Two adoptions are never between claiming and releasing the lock together
\* (claimActivationLock).
LockExcludes ==
    \A a, b \in Calls : call[a].at \in Critical /\ call[b].at \in Critical => a = b

\* The abstract promise: one trial, begun once, and no new subscription while
\* the old one lasts (adoptActivationSession).
Promise == INSTANCE OneTrial WITH subscription <- sub, ended <- canceled
OneTrialOnly == Promise!Spec

\* Held mailboxes go live only for a tenant whose trial has begun
\* (releaseBillingHolds and the paths that lead to it).
NothingBeforeTrial == held # Lines => trial # None

\* Once all calls are over, none was cut short and one reported success for the
\* checkout that started the trial, every planned domain has its row and no
\* mailbox is on hold, while that subscription lasts (adoptActivationSession).
AdoptedIsComplete ==
    (/\ Quiet /\ cut = 0 /\ trial # None /\ trial \notin canceled
     /\ \E c \in Calls : call[c].at = "done" /\ call[c].s = trial)
        => held = {} /\ \A d \in Planned : row[d] # None

\* While the trial's subscription lasts, Stripe bills each domain on it at most
\* once, unless a call was cut short (ensureDomainSubscription).
BilledOnce ==
    (cut = 0 /\ trial # None /\ sub = trial /\ trial \notin canceled)
        => \A d \in Planned : items[sub][d] <= 1

\* A finished checkout starts a trial, though calls fail, die with the lock held
\* or meet one another's lock (the lock's time to live, the retryable 409).
CheckoutStartsTrial ==
    (\E s \in Sessions : session[s] = "complete") ~> trial # None

-----------------------------------------------------------------------------
(* The inductive invariants: Typed in any case, IInv (behind OneTrialOnly)  *)
(* when no call outlasts the lock.                                          *)

Adopting == {"claim"} \cup Critical
Unsaved == {"stripe", "save"}
AfterStart == {"rows", "holds"}
Targeting == {"item", "upsert"}

\* Whatever is about to be written names a subscription.
Targets ==
    /\ trial # None => sub # None
    /\ \A c \in Calls : /\ call[c].at \in Adopting => call[c].s # None
                        /\ call[c].at \in Targeting => call[c].old # None

Typed == TypeOK /\ Targets

\* Whoever is between claiming and releasing holds the lock.
HolderLocked == \A c \in Calls : call[c].at \in Critical => lock = "held"

\* A row is canceled only with its subscription.
DeadRows == \A d \in Planned : row[d] # None /\ ~row[d].live => row[d].sub \in canceled

\* What a call remembers of the tenant stays true until it has saved.
Remembers(k) ==
    /\ k.at \in Adopting /\ k.returning => trial # None /\ k.old \in canceled
    /\ k.at \in Unsaved => IF k.returning THEN sub = k.old ELSE trial = None

\* A call that may release the held mailboxes has seen the trial begun.
SawTrial(k) ==
    \/ trial # None
    \/ k.at \notin AfterStart /\ ~(k.at = "unlock" /\ ~k.failed)
       /\ ~(k.at \in Ensuring /\ k.release)

IInv ==
    /\ Typed
    /\ HolderLocked /\ LockExcludes
    /\ DeadRows
    /\ \A c \in Calls : Remembers(call[c]) /\ SawTrial(call[c])
    /\ NothingBeforeTrial

-----------------------------------------------------------------------------
(* The invariant behind BilledOnce and AdoptedIsComplete, when no call      *)
(* outlasts the lock and domains are attached alone.                        *)

Working == {"rows", "unlock"} \cup Ensuring

\* No call was cut short, and the first trial still runs if it has begun.
Unbroken == cut = 0 /\ trial \notin canceled

\* A call that attaches single domains is the only one under way.
AttachesAlone ==
    \A a, b \in Calls :
       call[a].s = None /\ call[a].at \notin Over /\ call[b].at \notin Over => a = b

OneWorker == \A a, b \in Calls : call[a].at \in Working /\ call[b].at \in Working => a = b

\* Every row there is belongs to the first trial.
FirstRows ==
    /\ trial = None => \A d \in Planned : row[d] = None
    /\ trial # None => /\ sub = trial
                       /\ \A d \in Planned : row[d] \in {None, [sub |-> trial, live |-> TRUE]}

\* What a call knows and does is about the first trial.
FirstCall(k) ==
    /\ k.at \in Adopting => ~k.returning /\ ~k.failed
    /\ k.at \in Working /\ k.s # None => k.s = trial
    /\ k.at \in Targeting => trial # None /\ k.old = trial
    /\ k.at \in Ensuring \ {"ensure"} => k.cur \in Planned /\ row[k.cur] = None

\* A domain is on the bill once, and then it has a row or is about to get one.
Counted ==
    \A s \in Sessions, d \in Planned : trial \in {None, s} =>
       /\ items[s][d] <= 1
       /\ items[s][d] = 1 => \/ d \in Lines \/ row[d] # None
                             \/ \E c \in Calls : call[c].at = "upsert" /\ call[c].cur = d

LinesFirst ==
    trial # None => \A d \in Lines :
       row[d] # None \/ \E c \in Calls : call[c].at = "rows" /\ d \in call[c].todo

\* The call that started the trial has every domain without a row before it.
Ahead(k, d) ==
    /\ k.s = trial
    /\ \/ k.at \in {"rows", "unlock"}
       \/ k.at \in Ensuring /\ (d \in k.todo \/ (k.at # "ensure" /\ k.cur = d))
NoneForgotten ==
    trial # None => \A d \in Planned : row[d] # None \/ \E c \in Calls : Ahead(call[c], d)

\* It has the release of the holds before it.
Releases(k) ==
    /\ k.s = trial
    /\ k.at \in {"rows", "unlock", "holds"} \/ (k.at \in Ensuring /\ k.release)
HoldsGo == trial # None => held = {} \/ \E c \in Calls : Releases(call[c])

FirstTrial ==
    /\ OneWorker /\ FirstRows
    /\ \A c \in Calls : FirstCall(call[c])
    /\ Counted /\ LinesFirst /\ NoneForgotten /\ HoldsGo

FirstInv == AttachesAlone /\ (Unbroken => FirstTrial)

=============================================================================
