--------------------------- MODULE DomainActivation ---------------------------
(***************************************************************************)
(* The life of a domain (domain-activation.service.ts, domain-deletion.     *)
(* service.ts, dns-propagation-sweep.job.ts and the routes that write        *)
(* dnsStatus).  A call loads the document, talks to the mail server and the  *)
(* DNS provider for a long time, and saves; a save writes only the fields    *)
(* that differ from what was loaded, and one whose document is gone is       *)
(* ignored (saveIfExists).  A domain is one document: a name added again     *)
(* after its deletion counts as another domain.                              *)
(***************************************************************************)
EXTENDS Integers, FiniteSets

CONSTANTS Domains,    \* the documents that may be made
          Calls,      \* calls under way at once
          Window,     \* dnsActivationMaxHours
          LastHour,   \* bound on the clock
          MaxFaults,  \* bound on refused calls and restarts
          MaxBegun,   \* bound on calls begun
          None

ASSUME WindowAssumption == Window \in Nat /\ LastHour \in Nat /\ Window < LastHour
ASSUME BoundsAssumption == MaxFaults \in Nat /\ MaxBegun \in Nat
ASSUME NoneAssumption == None \notin Domains /\ None \notin Nat

VARIABLES doc,        \* the Domain documents
          server,     \* each domain on the mail server: absent, off or on
          cred,       \* domains with a DomainDnsCredential
          published,  \* domains whose records public DNS shows
          entitled,   \* domains with a plan or a subscription
          op,         \* what each call is doing
          sweep,      \* what the propagation sweep is doing
          now, faults, begun,
          found,      \* domains whose records a check found (history)
          paid,       \* domains that had a plan or a subscription (history)
          cut         \* domains whose deletion was cut off (history)

worldVars == <<server, cred, published, entitled>>
boundVars == <<now, faults, begun>>
historyVars == <<found, paid, cut>>
vars == <<doc, worldVars, op, sweep, boundVars, historyVars>>

Statuses == {"not_started", "activating", "active", "activation_failed"}
Hours == 0..LastHour
\* linked: stalwartDomainId is set; issued: dnsRecords are; since: dnsVerificationStartedAt.
Doc == [life : {"new", "kept", "gone"}, status : Statuses, since : Hours \cup {None},
        linked : BOOLEAN, issued : BOOLEAN]
NoDoc == [life |-> "new", status |-> "not_started", since |-> None,
          linked |-> FALSE, issued |-> FALSE]
Kept(d) == doc[d].life = "kept"

Kinds == {"add", "activate", "retry", "connect", "entitle", "restore", "delete"}
\* seen: the status as loaded or last saved; linked, issued: as loaded or learnt
\* since; ok: what the last check found.
Op == [kind : Kinds \cup {None}, dom : Domains \cup {None},
       at : {"idle", "start", "provision", "link", "sync", "look", "settle",
             "discard", "server", "doc"},
       seen : Statuses, linked : BOOLEAN, issued : BOOLEAN, ok : BOOLEAN]
Idle == [kind |-> None, dom |-> None, at |-> "idle", seen |-> "not_started",
         linked |-> FALSE, issued |-> FALSE, ok |-> FALSE]
\* list: the documents found activating and still to do; cur: the one at hand;
\* started: when the pass began.
Sweep == [at : {"idle", "next", "look", "settle", "discard"}, list : SUBSET Domains,
          since : [Domains -> Hours \cup {None}], issued : SUBSET Domains,
          cur : Domains \cup {None}, ok : BOOLEAN, started : Hours]
Resting == [at |-> "idle", list |-> {}, since |-> [d \in Domains |-> None],
            issued |-> {}, cur |-> None, ok |-> FALSE, started |-> 0]

TypeOK ==
    /\ doc \in [Domains -> Doc]
    /\ server \in [Domains -> {"absent", "off", "on"}]
    /\ cred \in SUBSET Domains /\ published \in SUBSET Domains
    /\ entitled \in SUBSET Domains
    /\ op \in [Calls -> Op]
    /\ sweep \in Sweep
    /\ now \in Hours /\ faults \in Nat /\ begun \in Nat
    /\ found \in SUBSET Domains /\ paid \in SUBSET Domains /\ cut \in SUBSET Domains

Init ==
    /\ doc = [d \in Domains |-> NoDoc]
    /\ server = [d \in Domains |-> "absent"]
    /\ cred = {} /\ published = {} /\ entitled = {}
    /\ op = [c \in Calls |-> Idle]
    /\ sweep = Resting
    /\ now = 0 /\ faults = 0 /\ begun = 0
    /\ found = {} /\ paid = {} /\ cut = {}

-----------------------------------------------------------------------------
(* Helpers. *)

At(c, kinds, stage) == op[c].kind \in kinds /\ op[c].at = stage
Goto(c, stage) == op' = [op EXCEPT ![c].at = stage]
Finish(c) == op' = [op EXCEPT ![c] = Idle]

Fault == faults < MaxFaults /\ faults' = faults + 1
NoFault == UNCHANGED faults

\* A call loads document d and goes on from the given stage.
Load(c, kind, d, stage) ==
    /\ op[c] = Idle /\ Kept(d)
    /\ begun < MaxBegun /\ begun' = begun + 1
    /\ op' = [op EXCEPT ![c] = [Idle EXCEPT !.kind = kind, !.dom = d, !.at = stage,
                !.seen = doc[d].status, !.linked = doc[d].linked, !.issued = doc[d].issued]]
    /\ UNCHANGED <<doc, worldVars, sweep, now, faults, historyVars>>

\* saveIfExists
Save(d, rec) == doc' = IF Kept(d) THEN [doc EXCEPT ![d] = rec] ELSE doc

\* dnsStatus is written only if it differs from what the call has.
Written(seen, status, d) == IF seen = status THEN doc[d].status ELSE status

-----------------------------------------------------------------------------
(* Adding a domain (tenant.routes; the platform's own route makes neither    *)
(* server domain nor records, an import takes over what the server has).     *)

AddBegin(c, d) ==
    /\ op[c] = Idle /\ doc[d].life = "new"
    /\ \A b \in Calls : op[b].dom # d
    /\ begun < MaxBegun /\ begun' = begun + 1
    /\ op' = [op EXCEPT ![c] = [Idle EXCEPT !.kind = "add", !.dom = d, !.at = "provision"]]
    /\ UNCHANGED <<doc, worldVars, sweep, now, faults, historyVars>>

\* The server domain is made and switched off; either may fail without harm.
AddProvision(c) ==
    LET d == op[c].dom
    IN  /\ At(c, {"add"}, "provision")
        /\ \/ server' = [server EXCEPT ![d] = "off"] /\ NoFault
              /\ op' = [op EXCEPT ![c].at = "doc", ![c].linked = TRUE, ![c].issued = TRUE]
           \/ server' = [server EXCEPT ![d] = IF @ = "absent" THEN "on" ELSE @] /\ Fault
              /\ op' = [op EXCEPT ![c].at = "doc", ![c].linked = TRUE, ![c].issued = TRUE]
           \/ UNCHANGED server /\ Fault
              /\ op' = [op EXCEPT ![c].at = "doc", ![c].issued = TRUE]
           \/ UNCHANGED server /\ NoFault /\ Goto(c, "doc")
        /\ UNCHANGED <<doc, cred, published, entitled, sweep, now, begun, historyVars>>

AddSave(c) ==
    /\ At(c, {"add"}, "doc")
    /\ doc' = [doc EXCEPT ![op[c].dom] = [NoDoc EXCEPT !.life = "kept",
                  !.linked = op[c].linked, !.issued = op[c].issued]]
    /\ Finish(c)
    /\ UNCHANGED <<worldVars, sweep, boundVars, historyVars>>

-----------------------------------------------------------------------------
(* activateDomain *)

\* The clock's bound leaves the sweep the time to give up.
Activate(c, d) ==
    /\ doc[d].status \notin {"active", "activating"}
    /\ Load(c, "activate", d, "start")

ActivateStart(c) ==
    LET d == op[c].dom
    IN  /\ At(c, {"activate"}, "start") /\ now + Window < LastHour
        /\ Save(d, [doc[d] EXCEPT !.status = Written(op[c].seen, "activating", d), !.since = now])
        /\ op' = [op EXCEPT ![c].at = "provision", ![c].seen = "activating",
                            ![c].ok = d \in cred]
        /\ UNCHANGED <<worldVars, sweep, boundVars, historyVars>>

Mut_AnyAnswerLinks(c, d) == server

\* What creating d, or switching it on when the call knows its id, leaves there.
Provisioned(c, d) ==
    [server EXCEPT ![d] = IF op[c].linked \/ @ = "absent" THEN "on" ELSE @]

\* activateDomain: a domain that is there already is linked as it is.
Provision(c) ==
    LET d == op[c].dom
    IN  /\ At(c, {"activate"}, "provision")
        /\ \/ /\ op[c].linked => server[d] # "absent"
              /\ server' = Provisioned(c, d)
              /\ op' = [op EXCEPT ![c].at = "link", ![c].linked = TRUE]
              /\ NoFault
           \/ /\ op[c].linked => server[d] = "absent" \/ faults < MaxFaults
              /\ IF op[c].linked /\ server[d] = "absent" THEN NoFault ELSE Fault
              /\ UNCHANGED server /\ Finish(c)
        /\ UNCHANGED <<doc, cred, published, entitled, sweep, now, begun, historyVars>>

\* The records are built from the server's keys, which may not be readable.
Link(c) ==
    LET d == op[c].dom
    IN  /\ At(c, {"activate"}, "link")
        /\ \/ /\ Save(d, [doc[d] EXCEPT !.linked = TRUE, !.issued = TRUE])
              /\ op' = [op EXCEPT ![c].at = IF op[c].ok THEN "sync" ELSE "look", ![c].issued = TRUE]
              /\ NoFault
           \/ Fault /\ Finish(c) /\ UNCHANGED doc
        /\ UNCHANGED <<worldVars, sweep, now, begun, historyVars>>

\* syncProviderDnsRecords with the stored credential; a retry and a connection
\* survive its failure, an activation does not.
Sync(c) ==
    LET d == op[c].dom
    IN  /\ op[c].at = "sync"
        /\ \/ published' = published \cup {d} /\ NoFault
              /\ Goto(c, IF op[c].kind = "connect" THEN "start" ELSE "look")
           \/ UNCHANGED published /\ Fault
              /\ IF op[c].kind = "retry" THEN Goto(c, "look") ELSE Finish(c)
        /\ UNCHANGED <<doc, server, cred, entitled, sweep, now, begun, historyVars>>

-----------------------------------------------------------------------------
(* retryVerify *)

Retry(c, d) ==
    /\ doc[d].status # "active"
    /\ Load(c, "retry", d, IF doc[d].linked THEN "start" ELSE "provision")

\* The recovery of a server domain that was never made switches it on.
RetryProvision(c) ==
    LET d == op[c].dom
    IN  /\ At(c, {"retry"}, "provision")
        /\ \/ server' = [server EXCEPT ![d] = "on"] /\ Goto(c, "link") /\ NoFault
           \/ UNCHANGED server /\ Finish(c) /\ Fault
        /\ UNCHANGED <<doc, cred, published, entitled, sweep, now, begun, historyVars>>

RetryLink(c) ==
    LET d == op[c].dom
    IN  /\ At(c, {"retry"}, "link")
        /\ Save(d, [doc[d] EXCEPT !.linked = TRUE, !.issued = TRUE,
                        !.status = Written(op[c].seen, "activating", d)])
        /\ op' = [op EXCEPT ![c].at = "start", ![c].seen = "activating",
                            ![c].linked = TRUE, ![c].issued = TRUE]
        /\ UNCHANGED <<worldVars, sweep, boundVars, historyVars>>

\* With a credential the domain is activating again, whatever it was.
RetryStart(c) ==
    LET d == op[c].dom
    IN  /\ At(c, {"retry"}, "start")
        /\ IF d \in cred
           THEN /\ Save(d, [doc[d] EXCEPT !.status = Written(op[c].seen, "activating", d)])
                /\ op' = [op EXCEPT ![c].at = "sync", ![c].seen = "activating"]
           ELSE Goto(c, "look") /\ UNCHANGED doc
        /\ UNCHANGED <<worldVars, sweep, boundVars, historyVars>>

-----------------------------------------------------------------------------
(* connectDnsProviderCredential: publishing goes on after the answer.        *)

Connect(c, d) == Load(c, "connect", d, "provision")

\* The credential is stored by domain, deleted since or not.
ConnectSave(c) ==
    /\ At(c, {"connect"}, "provision")
    /\ \/ /\ cred' = cred \cup {op[c].dom}
          /\ IF op[c].issued THEN Goto(c, "sync") ELSE Finish(c)
       \/ UNCHANGED cred /\ Finish(c)
    /\ UNCHANGED <<doc, server, published, entitled, sweep, boundVars, historyVars>>

ConnectReload(c) ==
    LET d == op[c].dom
    IN  /\ At(c, {"connect"}, "start")
        /\ IF Kept(d) /\ doc[d].status = "activating"
           THEN op' = [op EXCEPT ![c].at = "look", ![c].seen = "activating"]
           ELSE Finish(c)
        /\ UNCHANGED <<doc, worldVars, sweep, boundVars, historyVars>>

-----------------------------------------------------------------------------
(* finalizeIfVerified, and the platform's "restore DNS matrix", which checks *)
(* and saves alike.                                                          *)

\* What restoring makes of a missing record: "pending", which the schema refuses.
Unverified(d) == doc[d].status

RestoreDns(c, d) == doc[d].issued /\ Load(c, "restore", d, "look")

Mut_AlwaysVerified(d, issued) == issued

\* verifyPublicDns: there are records and every one is visible.
Verified(d, issued) == issued /\ d \in published

Look(c) ==
    LET d == op[c].dom
        ok == Verified(d, op[c].issued)
    IN  /\ op[c].at = "look"
        /\ op' = [op EXCEPT ![c].at = "settle", ![c].ok = ok]
        /\ found' = IF d \in published THEN found \cup {d} ELSE found
        /\ UNCHANGED <<doc, worldVars, sweep, boundVars, paid, cut>>

Settle(c) ==
    LET d == op[c].dom
    IN  /\ op[c].at = "settle"
        /\ IF op[c].ok
           THEN /\ Save(d, [doc[d] EXCEPT !.status = Written(op[c].seen, "active", d)])
                /\ IF op[c].kind = "restore" THEN Finish(c) ELSE Goto(c, "discard")
           ELSE /\ Finish(c)
                /\ IF op[c].kind = "restore"
                   THEN Save(d, [doc[d] EXCEPT !.status = Unverified(d)])
                   ELSE UNCHANGED doc
        /\ UNCHANGED <<worldVars, sweep, boundVars, historyVars>>

Discard(c) ==
    /\ op[c].at = "discard"
    /\ cred' = cred \ {op[c].dom}
    /\ Finish(c)
    /\ UNCHANGED <<doc, server, published, entitled, sweep, boundVars, historyVars>>

-----------------------------------------------------------------------------
(* The tenant's routes make a domain with a plan or a subscription active.   *)

HasPlanOrSub(d) == d \in entitled

Overview(c, d) == doc[d].status # "active" /\ Load(c, "entitle", d, "start")

SwitchOn(c) ==
    LET d == op[c].dom
    IN  /\ At(c, {"entitle"}, "start")
        /\ IF HasPlanOrSub(d)
           THEN /\ Goto(c, "doc")
                /\ \/ /\ server' = [server EXCEPT ![d] =
                                      IF op[c].linked /\ @ # "absent" THEN "on" ELSE @]
                      /\ NoFault
                   \/ op[c].linked /\ UNCHANGED server /\ Fault
           ELSE Finish(c) /\ UNCHANGED server /\ NoFault
        /\ UNCHANGED <<doc, cred, published, entitled, sweep, now, begun, historyVars>>

SaveActive(c) ==
    LET d == op[c].dom
    IN  /\ At(c, {"entitle"}, "doc")
        /\ Save(d, [doc[d] EXCEPT !.status = "active"])
        /\ Finish(c)
        /\ UNCHANGED <<worldVars, sweep, boundVars, historyVars>>

-----------------------------------------------------------------------------
(* deleteDomainDirectly, executeDeletionCascade; the domain's mailboxes are  *)
(* counted once, before anything is deleted, and are left out here.          *)

Delete(c, d) == Load(c, "delete", d, "start")

\* A plan recorded on the document outlives the subscription.
DeleteRows(c) ==
    LET d == op[c].dom
    IN  /\ At(c, {"delete"}, "start")
        /\ entitled' \in {entitled, entitled \ {d}}
        /\ cred' = cred \ {d}
        /\ Goto(c, "server")
        /\ UNCHANGED <<doc, server, published, sweep, boundVars, historyVars>>

\* By id or, failing that, by name; a refusal is ignored.
DeleteServer(c) ==
    /\ At(c, {"delete"}, "server")
    /\ \/ server' = [server EXCEPT ![op[c].dom] = "absent"] /\ NoFault
       \/ UNCHANGED server /\ Fault
    /\ Goto(c, "doc")
    /\ UNCHANGED <<doc, cred, published, entitled, sweep, now, begun, historyVars>>

DeleteDoc(c) ==
    /\ At(c, {"delete"}, "doc")
    /\ doc' = [doc EXCEPT ![op[c].dom].life = "gone"]
    /\ Finish(c)
    /\ UNCHANGED <<worldVars, sweep, boundVars, historyVars>>

-----------------------------------------------------------------------------
(* dns-propagation-sweep.job: one pass at a time over the documents that     *)
(* were activating when it began.                                            *)

SweepBegin ==
    LET list == {d \in Domains : Kept(d) /\ doc[d].status = "activating"}
    IN  /\ sweep = Resting /\ list # {}
        /\ sweep' = [Resting EXCEPT !.at = "next", !.list = list, !.started = now,
              !.since = [d \in Domains |-> IF d \in list THEN doc[d].since ELSE None],
              !.issued = {d \in list : doc[d].issued}]
        /\ UNCHANGED <<doc, worldVars, op, boundVars, historyVars>>

Mut_NeverTimedOut(d) == FALSE

\* A document whose verification never started has no time to run out.
TimedOut(d) == sweep.since[d] # None /\ sweep.since[d] + Window < sweep.started

SweepFail(d) ==
    /\ sweep.at = "next" /\ d \in sweep.list /\ TimedOut(d)
    /\ Save(d, [doc[d] EXCEPT !.status = "activation_failed"])
    /\ sweep' = [sweep EXCEPT !.list = @ \ {d}]
    /\ UNCHANGED <<worldVars, op, boundVars, historyVars>>

SweepLook(d) ==
    /\ sweep.at = "next" /\ d \in sweep.list /\ ~TimedOut(d)
    /\ sweep' = [sweep EXCEPT !.at = "settle", !.cur = d, !.list = @ \ {d},
                              !.ok = Verified(d, d \in sweep.issued)]
    /\ found' = IF d \in published THEN found \cup {d} ELSE found
    /\ UNCHANGED <<doc, worldVars, op, boundVars, paid, cut>>

SweepSettle ==
    /\ sweep.at = "settle"
    /\ IF sweep.ok
       THEN /\ Save(sweep.cur, [doc[sweep.cur] EXCEPT !.status = "active"])
            /\ sweep' = [sweep EXCEPT !.at = "discard"]
       ELSE /\ UNCHANGED doc
            /\ sweep' = [sweep EXCEPT !.at = "next", !.cur = None]
    /\ UNCHANGED <<worldVars, op, boundVars, historyVars>>

SweepDiscard ==
    /\ sweep.at = "discard"
    /\ cred' = cred \ {sweep.cur}
    /\ sweep' = [sweep EXCEPT !.at = "next", !.cur = None, !.ok = FALSE]
    /\ UNCHANGED <<doc, server, published, entitled, op, boundVars, historyVars>>

SweepEnd ==
    /\ sweep.at = "next" /\ sweep.list = {}
    /\ sweep' = Resting
    /\ UNCHANGED <<doc, worldVars, op, boundVars, historyVars>>

-----------------------------------------------------------------------------
(* The world around. *)

Tick ==
    /\ now < LastHour /\ now' = now + 1
    /\ UNCHANGED <<doc, worldVars, op, sweep, faults, begun, historyVars>>

\* The owner publishes the records it was shown, or takes them away.
Publish(d) ==
    /\ Kept(d) /\ doc[d].issued
    /\ published' = IF d \in published THEN published \ {d} ELSE published \cup {d}
    /\ UNCHANGED <<doc, server, cred, entitled, op, sweep, boundVars, historyVars>>

Subscribe(d) ==
    /\ Kept(d) /\ d \notin entitled
    /\ entitled' = entitled \cup {d} /\ paid' = paid \cup {d}
    /\ UNCHANGED <<doc, server, cred, published, op, sweep, boundVars, found, cut>>

Deleting(d) == \E c \in Calls : op[c].dom = d /\ At(c, {"delete"}, "doc")

Crash ==
    /\ Fault
    /\ op' = [c \in Calls |-> Idle] /\ sweep' = Resting
    /\ cut' = cut \cup {d \in Domains : Deleting(d)}
    /\ UNCHANGED <<doc, worldVars, now, begun, found, paid>>

CallStep(c) ==
    \/ AddProvision(c) \/ AddSave(c)
    \/ ActivateStart(c) \/ Provision(c) \/ Link(c) \/ Sync(c)
    \/ RetryProvision(c) \/ RetryLink(c) \/ RetryStart(c)
    \/ ConnectSave(c) \/ ConnectReload(c)
    \/ Look(c) \/ Settle(c) \/ Discard(c)
    \/ SwitchOn(c) \/ SaveActive(c)
    \/ DeleteRows(c) \/ DeleteServer(c) \/ DeleteDoc(c)

Begin(c, d) ==
    \/ AddBegin(c, d) \/ Activate(c, d) \/ Retry(c, d) \/ Connect(c, d)
    \/ RestoreDns(c, d) \/ Overview(c, d) \/ Delete(c, d)

SweepStep ==
    \/ SweepBegin \/ SweepSettle \/ SweepDiscard \/ SweepEnd
    \/ \E d \in Domains : SweepFail(d) \/ SweepLook(d)

Next ==
    \/ \E c \in Calls : CallStep(c) \/ \E d \in Domains : Begin(c, d)
    \/ SweepStep \/ Tick \/ Crash
    \/ \E d \in Domains : Publish(d) \/ Subscribe(d)

Spec == Init /\ [][Next]_vars

\* The ticker's interval begins a pass again and again, and a pass that runs
\* goes on; the clock advances.  Nothing obliges a call to go on.
FairSpec == Spec /\ WF_vars(SweepStep) /\ WF_vars(Tick)

-----------------------------------------------------------------------------
(* Properties. *)

\* No domain is active that neither a check of public DNS ever found nor a plan
\* or subscription ever vouched for, whichever of the calls, the sweep or a
\* route's shortcut wrote it, from however old a document
\* (finalizeIfVerified, GET /me/domains/:domainId/dns-status).
ActiveEarned ==
    \A d \in Domains : Kept(d) /\ doc[d].status = "active" => d \in found \cup paid

\* A document that names a domain of the mail server names one that is there,
\* unless a deletion that removed it is about to remove the document or was
\* cut off before it could (executeDeletionCascade against activateDomain,
\* retryVerify and the creation of the domain).
LinkedIsServed ==
    \A d \in Domains :
        Kept(d) /\ doc[d].linked /\ server[d] = "absent" => Deleting(d) \/ d \in cut

\* An activation that was given a starting time does not go on for ever: it is
\* found, times out, is overtaken by a route or ends with the domain
\* (runSweepOnce).
ActivationEnds ==
    \A d \in Domains :
        (Kept(d) /\ doc[d].status = "activating" /\ doc[d].since # None)
            ~> ~(Kept(d) /\ doc[d].status = "activating")
=============================================================================
