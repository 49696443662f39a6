------------------------------ MODULE OrgDeletion ------------------------------
(***************************************************************************)
(* Deleting an organisation (organisation-deletion.service.ts): a request,  *)
(* the organisation's name, which suspends it, seven days, a request for    *)
(* the code, one more day, the code, the purge.  Every call loads the       *)
(* record, checks what it loaded and saves it awaits later; a save writes   *)
(* only the fields that differ from what was loaded.  A deletion may be     *)
(* cancelled at any time or forced, and the platform's routes suspend and   *)
(* reactivate the same tenant.                                              *)
(***************************************************************************)
EXTENDS Integers, FiniteSets

CONSTANTS Calls,        \* calls under way at once
          People,       \* administrators, of the tenant or the platform
          Records,      \* deletion records that may be made
          Codes,        \* codes that may be issued
          MaxAttempts,  \* DELETION_TIMINGS.maxOtpAttempts
          MaxFaults,    \* bound on refused calls and restarts
          MaxBegun,     \* bound on calls begun
          None

ASSUME SetsAssumption == /\ IsFiniteSet(Calls) /\ IsFiniteSet(Codes)
                         /\ None \notin Records /\ None \notin Codes
                         /\ None \notin People
ASSUME BoundsAssumption == MaxAttempts \in Nat /\ MaxFaults \in Nat /\ MaxBegun \in Nat

VARIABLES tenant,   \* Tenant.status, or "deleted"
          infra,    \* its mailboxes on the mail server: on, off or gone
          domains,  \* whether it has domains
          rec,      \* the records
          blocked,  \* whether the registrant's identity is barred
          op,       \* what each call is doing
          issued,   \* the codes issued so far
          guesses,  \* comparisons made with each code (history)
          waited,   \* the waiting times that have passed (history)
          faults,
          begun     \* how many calls have begun

tenantVars == <<tenant, infra, domains>>
historyVars == <<issued, guesses, waited, faults>>
vars == <<tenantVars, rec, blocked, op, historyVars, begun>>

ActiveStages == {"requested", "name_confirmed", "otp_initiated", "final_otp_sent"}
Stages == ActiveStages \cup {"none", "completed", "cancelled"}
TenantStatuses == {"active", "suspended", "pending_deletion", "deleted"}
Waits == {"suspension", "lock"}

\* due: which of its two deadlines lie in the past; live: the code has not expired.
Rec == [stage : Stages, prev : TenantStatuses, due : SUBSET Waits,
        code : Codes \cup {None}, to : People \cup {None}, live : BOOLEAN,
        attempts : 0..MaxAttempts]
NoRec == [stage |-> "none", prev |-> "active", due |-> {}, code |-> None,
          to |-> None, live |-> FALSE, attempts |-> 0]

Kinds == {"request", "confirm", "cancel", "initiate", "generate", "verify",
          "force", "suspend", "reactivate"}
ASSUME NoneAssumption == None \notin Kinds
\* rec: the record; stage, code: as loaded; by: who will get the code; seen: the
\* tenant's status as loaded; right: whether the guess is.
Op == [kind : Kinds \cup {None},
       at : {"idle", "create", "save", "tenant", "status", "infra", "claim",
             "block", "purge", "remove", "complete"},
       rec : Records \cup {None}, by : People \cup {None}, stage : Stages,
       code : Codes \cup {None}, seen : TenantStatuses, right : BOOLEAN]
Idle == [kind |-> None, at |-> "idle", rec |-> None, by |-> None, stage |-> "none",
         code |-> None, seen |-> "active", right |-> FALSE]

TypeOK ==
    /\ tenant \in TenantStatuses
    /\ infra \in {"on", "off", "gone"}
    /\ domains \in BOOLEAN
    /\ rec \in [Records -> Rec]
    /\ blocked \in BOOLEAN
    /\ op \in [Calls -> Op]
    /\ issued \in SUBSET Codes
    /\ guesses \in [Codes -> Nat]
    /\ waited \in SUBSET (Records \X Waits)
    /\ faults \in Nat
    /\ begun \in Nat

Init ==
    /\ tenant = "active" /\ infra = "on" /\ domains = FALSE
    /\ rec = [r \in Records |-> NoRec]
    /\ blocked = FALSE
    /\ op = [c \in Calls |-> Idle]
    /\ issued = {} /\ guesses = [k \in Codes |-> 0] /\ waited = {} /\ faults = 0
    /\ begun = 0

-----------------------------------------------------------------------------
(* Helpers. *)

Active == {r \in Records : rec[r].stage \in ActiveStages}
Unused == {r \in Records : rec[r].stage = "none"}

At(c, kind, stage) == op[c].kind = kind /\ op[c].at = stage
Goto(c, stage) == op' = [op EXCEPT ![c].at = stage]
Finish(c) == op' = [op EXCEPT ![c] = Idle]

\* A call takes up operation k.
Begin(c, k) ==
    /\ op[c] = Idle /\ op' = [op EXCEPT ![c] = k]
    /\ begun < MaxBegun /\ begun' = begun + 1

\* loadActive: the call keeps of the record what it will use.
Load(c, kind, r) ==
    /\ r \in Active
    /\ Begin(c, [Idle EXCEPT !.kind = kind, !.at = "save", !.rec = r,
                             !.code = IF kind = "cancel" THEN rec[r].code ELSE None])
    /\ UNCHANGED <<tenantVars, rec, blocked, historyVars>>

Mut_NeverClashes(r) == FALSE

\* A record made active beside another one breaks the unique index.
Clashes(r) == Active \ {r} # {}

-----------------------------------------------------------------------------
(* requestDeletion *)

Request(c) ==
    /\ tenant \notin {"deleted", "pending_deletion"} /\ Active = {} /\ ~domains
    /\ Begin(c, [Idle EXCEPT !.kind = "request", !.at = "create", !.seen = tenant])
    /\ UNCHANGED <<tenantVars, rec, blocked, historyVars>>

\* createDeletionRecord, also for a forced deletion that finds no record.
Create(c, r) ==
    /\ op[c].at = "create" /\ r \in Unused /\ ~Clashes(r)
    /\ rec' = [rec EXCEPT ![r] = [NoRec EXCEPT !.stage = "requested", !.prev = op[c].seen]]
    /\ IF op[c].kind = "force"
       THEN op' = [op EXCEPT ![c].at = "block", ![c].rec = r]
       ELSE Finish(c)
    /\ UNCHANGED <<tenantVars, blocked, historyVars, begun>>

CreateClashes(c) ==
    /\ op[c].at = "create" /\ Active # {}
    /\ Finish(c)
    /\ UNCHANGED <<tenantVars, rec, blocked, historyVars, begun>>

-----------------------------------------------------------------------------
(* confirmOrganisationName *)

Confirm(c, r) ==
    /\ rec[r].stage = "requested" /\ ~domains
    /\ Load(c, "confirm", r)

\* The stage was read awaits ago: the save makes the record active whatever
\* became of it, unless another one is active by now.
ConfirmSave(c) ==
    LET r == op[c].rec
    IN  /\ At(c, "confirm", "save")
        /\ IF Clashes(r)
           THEN Finish(c) /\ UNCHANGED rec
           ELSE /\ rec' = [rec EXCEPT ![r].stage = "name_confirmed",
                                      ![r].due = @ \ {"suspension"}]
                /\ Goto(c, "tenant")
        /\ UNCHANGED <<tenantVars, blocked, historyVars, begun>>

-----------------------------------------------------------------------------
(* Writing the tenant's status, and what is frozen or restored after it *)

Target(c) ==
    CASE op[c].kind = "confirm"    -> "pending_deletion"
      [] op[c].kind = "cancel"     -> rec[op[c].rec].prev
      [] op[c].kind = "suspend"    -> "suspended"
      [] op[c].kind = "reactivate" -> "active"
      [] OTHER                     -> tenant

\* restoreTenantAfterAbort asks for a tenant that awaits its deletion.
LoadTenant(c) ==
    /\ op[c].at = "tenant"
    /\ IF tenant = "deleted" \/ (op[c].kind = "cancel" /\ tenant # "pending_deletion")
       THEN Finish(c)
       ELSE op' = [op EXCEPT ![c].at = "status", ![c].seen = tenant]
    /\ UNCHANGED <<tenantVars, rec, blocked, historyVars, begun>>

\* The routes: not while a deletion is under way.
Route(c, kind) ==
    /\ kind \in {"suspend", "reactivate"}
    /\ tenant \notin {"deleted", "pending_deletion"}
    /\ Begin(c, [Idle EXCEPT !.kind = kind, !.at = "status", !.seen = tenant])
    /\ UNCHANGED <<tenantVars, rec, blocked, historyVars>>

\* An organisation that was suspended before stays frozen after the abort.
StaysFrozen(c) == op[c].kind = "cancel" /\ Target(c) = "suspended"

\* save() of a removed tenant throws; of an unchanged status it writes nothing.
SaveStatus(c) ==
    LET wrote == tenant # "deleted"
    IN  /\ op[c].at = "status"
        /\ tenant' = IF wrote /\ Target(c) # op[c].seen THEN Target(c) ELSE tenant
        /\ IF ~wrote \/ StaysFrozen(c) THEN Finish(c) ELSE Goto(c, "infra")
        /\ UNCHANGED <<infra, domains, rec, blocked, historyVars, begun>>

\* suspendTenantInfrastructure, restoreTenantInfrastructure: see Mailboxes.
SwitchInfra(c) ==
    /\ op[c].at = "infra"
    /\ infra' = IF infra = "gone" THEN "gone"
                ELSE IF op[c].kind \in {"confirm", "suspend"} THEN "off" ELSE "on"
    /\ Finish(c)
    /\ UNCHANGED <<tenant, domains, rec, blocked, historyVars, begun>>

-----------------------------------------------------------------------------
(* cancelDeletion, initiateOtpProcess *)

Cancel(c, r) == Load(c, "cancel", r)

CancelSave(c) ==
    /\ At(c, "cancel", "save")
    /\ rec' = [rec EXCEPT ![op[c].rec].stage = "cancelled",
                          ![op[c].rec].code = IF op[c].code = None THEN @ ELSE None]
    /\ Goto(c, "tenant")
    /\ UNCHANGED <<tenantVars, blocked, historyVars, begun>>

SuspensionOver(r) == "suspension" \in rec[r].due

Initiate(c, r) ==
    /\ rec[r].stage = "name_confirmed" /\ SuspensionOver(r)
    /\ Load(c, "initiate", r)

InitiateSave(c) ==
    LET r == op[c].rec
    IN  /\ At(c, "initiate", "save")
        /\ rec' = IF Clashes(r) THEN rec
                  ELSE [rec EXCEPT ![r].stage = "otp_initiated", ![r].due = @ \ {"lock"}]
        /\ Finish(c)
        /\ UNCHANGED <<tenantVars, blocked, historyVars, begun>>

-----------------------------------------------------------------------------
(* generateFinalOtp *)

Mut_LockIgnored(r) == TRUE
LockOver(r) == "lock" \in rec[r].due

Generate(c, person, r) ==
    /\ rec[r].stage \in {"otp_initiated", "final_otp_sent"} /\ LockOver(r)
    /\ Begin(c, [Idle EXCEPT !.kind = "generate", !.at = "save", !.rec = r,
                             !.by = person, !.stage = rec[r].stage])
    /\ UNCHANGED <<tenantVars, rec, blocked, historyVars>>

NotSent(c) ==
    /\ At(c, "generate", "save")
    /\ faults < MaxFaults /\ faults' = faults + 1
    /\ Finish(c)
    /\ UNCHANGED <<tenantVars, rec, blocked, issued, guesses, waited, begun>>

\* The code is in the mail already.  The stage is written only if it was
\* another one when the record was loaded; the code and its counter always are.
GenerateSave(c, k) ==
    LET r == op[c].rec
        stage == IF op[c].stage = "final_otp_sent" THEN rec[r].stage ELSE "final_otp_sent"
    IN  /\ At(c, "generate", "save") /\ k \notin issued
        /\ issued' = issued \cup {k}
        /\ rec' = IF stage \in ActiveStages /\ Clashes(r) THEN rec
                  ELSE [rec EXCEPT ![r].stage = stage, ![r].code = k, ![r].to = op[c].by,
                                   ![r].live = TRUE, ![r].attempts = 0]
        /\ Finish(c)
        /\ UNCHANGED <<tenantVars, blocked, guesses, waited, faults, begun>>

-----------------------------------------------------------------------------
(* verifyFinalOtp *)

IssuedTo(person, r) == rec[r].to = person

Verify(c, person, r, right) ==
    /\ rec[r].stage = "final_otp_sent" /\ IssuedTo(person, r) /\ rec[r].live
    /\ Begin(c, [Idle EXCEPT !.kind = "verify", !.at = "claim", !.rec = r,
                             !.code = rec[r].code, !.right = right])
    /\ UNCHANGED <<tenantVars, rec, blocked, historyVars>>

Mut_ClaimableUncapped(r) == rec[r].stage = "final_otp_sent"
Claimable(r) == rec[r].stage = "final_otp_sent" /\ rec[r].attempts < MaxAttempts

\* One attempt is claimed atomically; the guess is compared with the code that
\* was loaded.
Claim(c) ==
    LET r == op[c].rec
        k == op[c].code
    IN  /\ At(c, "verify", "claim")
        /\ IF Claimable(r)
           THEN /\ rec' = [rec EXCEPT ![r].attempts = @ + 1]
                /\ guesses' = IF k = None THEN guesses ELSE [guesses EXCEPT ![k] = @ + 1]
                /\ IF op[c].right /\ k # None THEN Goto(c, "block") ELSE Finish(c)
           ELSE Finish(c) /\ UNCHANGED <<rec, guesses>>
        /\ UNCHANGED <<tenantVars, blocked, issued, waited, faults, begun>>

-----------------------------------------------------------------------------
(* forceDeleteOrganisation, finaliseDeletion, purgeTenant *)

ForceDelete(c) ==
    /\ tenant # "deleted"
    /\ \/ /\ Active = {}
          /\ Begin(c, [Idle EXCEPT !.kind = "force", !.at = "create", !.seen = tenant])
       \/ \E r \in Active :
             Begin(c, [Idle EXCEPT !.kind = "force", !.at = "block", !.rec = r,
                                   !.code = rec[r].code])
    /\ UNCHANGED <<tenantVars, rec, blocked, historyVars>>

Mut_BlockForgotten(c) ==
    /\ op[c].at = "block"
    /\ Goto(c, "purge")
    /\ UNCHANGED <<tenantVars, rec, blocked, historyVars, begun>>

\* blockRegistrationIdentity
Block(c) ==
    /\ op[c].at = "block"
    /\ blocked' = TRUE
    /\ Goto(c, "purge")
    /\ UNCHANGED <<tenantVars, rec, historyVars, begun>>

\* Mailboxes and domains go first, the tenant last.
Purge(c) ==
    /\ op[c].at = "purge"
    /\ infra' = "gone" /\ domains' = FALSE
    /\ Goto(c, "remove")
    /\ UNCHANGED <<tenant, rec, blocked, historyVars, begun>>

PurgeFails(c) ==
    /\ op[c].at \in {"purge", "remove"}
    /\ faults < MaxFaults /\ faults' = faults + 1
    /\ Finish(c)
    /\ UNCHANGED <<tenantVars, rec, blocked, issued, guesses, waited, begun>>

Remove(c) ==
    /\ op[c].at = "remove"
    /\ tenant' = "deleted"
    /\ Goto(c, "complete")
    /\ UNCHANGED <<infra, domains, rec, blocked, historyVars, begun>>

Complete(c) ==
    /\ op[c].at = "complete"
    /\ rec' = [rec EXCEPT ![op[c].rec].stage = "completed",
                          ![op[c].rec].code = IF op[c].code = None THEN @ ELSE None]
    /\ Finish(c)
    /\ UNCHANGED <<tenantVars, blocked, historyVars, begun>>

-----------------------------------------------------------------------------
(* Time, the tenant's domains, restarts *)

Pass(r, wait) ==
    /\ wait \notin rec[r].due
    /\ rec[r].stage = IF wait = "suspension" THEN "name_confirmed" ELSE "otp_initiated"
    /\ rec' = [rec EXCEPT ![r].due = @ \cup {wait}]
    /\ waited' = waited \cup {<<r, wait>>}
    /\ UNCHANGED <<tenantVars, blocked, op, issued, guesses, faults, begun>>

CodeExpires(r) ==
    /\ rec[r].live
    /\ rec' = [rec EXCEPT ![r].live = FALSE]
    /\ UNCHANGED <<tenantVars, blocked, op, historyVars, begun>>

\* Domains come and go while the tenant is active.
SetDomains(has) ==
    /\ tenant = "active" /\ infra = "on" /\ domains # has
    /\ domains' = has
    /\ UNCHANGED <<tenant, infra, rec, blocked, op, historyVars, begun>>

Crash ==
    /\ faults < MaxFaults /\ \E c \in Calls : op[c] # Idle
    /\ faults' = faults + 1
    /\ op' = [c \in Calls |-> Idle]
    /\ UNCHANGED <<tenantVars, rec, blocked, issued, guesses, waited, begun>>

-----------------------------------------------------------------------------

Starts(c) ==
    \/ Request(c) \/ ForceDelete(c)
    \/ \E r \in Records :
          \/ Confirm(c, r) \/ Cancel(c, r) \/ Initiate(c, r)
          \/ \E person \in People :
                \/ Generate(c, person, r)
                \/ \E right \in BOOLEAN : Verify(c, person, r, right)
    \/ \E kind \in {"suspend", "reactivate"} : Route(c, kind)

Steps(c) ==
    \/ \E r \in Records : Create(c, r)
    \/ CreateClashes(c)
    \/ ConfirmSave(c) \/ LoadTenant(c) \/ SaveStatus(c) \/ SwitchInfra(c)
    \/ CancelSave(c) \/ InitiateSave(c)
    \/ NotSent(c) \/ \E k \in Codes : GenerateSave(c, k)
    \/ Claim(c) \/ Block(c) \/ Purge(c) \/ PurgeFails(c) \/ Remove(c) \/ Complete(c)

Next ==
    \/ \E c \in Calls : Starts(c) \/ Steps(c)
    \/ \E r \in Records : CodeExpires(r) \/ \E wait \in Waits : Pass(r, wait)
    \/ \E has \in BOOLEAN : SetDomains(has)
    \/ Crash

Spec == Init /\ [][Next]_vars

-----------------------------------------------------------------------------
(* What the deletion promises. *)

\* However calls race, at most one record of the tenant is active (the unique
\* partial index of OrganisationDeletion).
OneActive == Cardinality(Active) <= 1

\* Nobody but a platform administrator shortens the timeline: a purge that no
\* one forced has a right code behind it and both waiting times of its record
\* (confirmOrganisationName to verifyFinalOtp), though every call acts on a
\* record it loaded earlier.
Finalising == {"block", "purge", "remove", "complete"}
Earned ==
    \A c \in Calls : op[c].kind = "verify" /\ op[c].at \in Finalising =>
       /\ op[c].right /\ op[c].code \in issued
       /\ \A wait \in Waits : <<op[c].rec, wait>> \in waited

\* Parallel guesses exceed the cap on one code only by those that were under
\* way when a new code reset the counter (verifyFinalOtp claims an attempt
\* before it compares).
GuessesBounded ==
    \A k \in Codes : guesses[k] <= MaxAttempts + Cardinality(Calls) - 1

\* Whatever fails or restarts on the way, an organisation that has lost
\* anything to a purge has a barred registrant (finaliseDeletion: "Block first:
\* if we crash after the purge the identity is already barred").
BarredFirst == tenant = "deleted" \/ infra = "gone" => blocked

=============================================================================
