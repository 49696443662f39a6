---------------------------- MODULE LoginIdentity ----------------------------
(***************************************************************************)
(* The login identities of the platform: username@platform is a mailbox     *)
(* document, an account on the mail server, an administrator with a         *)
(* password and an organisation.  Sign-up makes the four one after another  *)
(* and undoes them when one fails; the sign-up form's password check makes  *)
(* and removes a mailbox; the platform adds administrators without one; a   *)
(* reset writes the password in two places, a sign-in copies the mailbox's  *)
(* over a stale one; a purge takes an organisation's identities away.  A    *)
(* document, and the password a call sets, is named by the call.            *)
(***************************************************************************)
EXTENDS Integers, FiniteSets

CONSTANTS Addresses, Calls,
          MaxBusy,     \* bound on calls under way at once
          MaxFaults,   \* bound on requests that fail and calls that die
          None

ASSUME SetsAssumption ==
    IsFiniteSet(Addresses) /\ IsFiniteSet(Calls) /\ None \notin Calls \cup Addresses
ASSUME BoundsAssumption == MaxBusy \in Nat /\ MaxFaults \in Nat

VARIABLES row,      \* the Mailbox documents
          linked,   \* those that know their account
          account,  \* the accounts on the mail server
          admin,    \* the AdminUser documents
          tenants,  \* the organisations there are
          blocked,  \* addresses barred from registering again
          seats,    \* mailboxCount of the platform's own tenant
          op,       \* what each call is doing
          faults,
          hurt,     \* addresses a fault left something at (history)
          met,      \* addresses where a purge met another call, or was cut off (history)
          mixed,    \* addresses where a change of password was overlapped, failed, or was
                    \* of another's mailbox (history)
          sole      \* password changes that no other one overlapped (history)

stores == <<row, linked, account, admin, tenants, blocked, seats>>
histories == <<hurt, met, mixed, sole>>
vars == <<stores, op, faults, histories>>

NoAccount == [by |-> None, pw |-> None]
NoLogin == [by |-> None, org |-> None, pw |-> None]

\* The stages of createPlatformIdentityMailbox and of its undoing, and of each call.
Making == {"exists", "row", "account", "link", "drop", "count"}
Undoing == {"find", "off", "delete", "uncount"}
StagesOf ==
    [register |-> Making \cup Undoing \cup {"check", "tenant", "admin", "untenant"},
     probe    |-> Making \cup Undoing,
     add      |-> {"check", "exists", "admin"},
     reset    |-> {"sync", "push", "save"},
     signIn   |-> {"verify", "save"},
     purge    |-> {"bar", "list", "rows", "each", "remove", "refund", "admins", "org"}]
Kinds == DOMAIN StagesOf
Writers == {"reset", "signIn"}

\* addr: the address it is about; org: the organisation; held: the mailbox, and
\* who: the administrator, as loaded; pw: the password; emails, found, todo: what
\* a purge listed, and the accounts it has not deleted yet.
Op == [kind : Kinds \cup {None}, at : {"idle", "over"} \cup UNION {StagesOf[k] : k \in Kinds},
       addr : Addresses \cup {None}, org : Calls \cup {None}, held : Calls \cup {None},
       who : Calls \cup {None}, pw : Calls \cup {None},
       emails : SUBSET Addresses, found : SUBSET Calls, todo : SUBSET Calls]
NotBegun == [kind |-> None, at |-> "idle", addr |-> None, org |-> None, held |-> None,
             who |-> None, pw |-> None, emails |-> {}, found |-> {}, todo |-> {}]

\* A call is only ever at a stage of its own kind.
TypeOK ==
    /\ row \in [Addresses -> Calls \cup {None}]
    /\ linked \subseteq Calls
    /\ account \in [Addresses -> [by : Calls \cup {None}, pw : Calls \cup {None}]]
    /\ admin \in [Addresses -> [by : Calls \cup {None}, org : Calls \cup {None},
                                pw : Calls \cup {None}]]
    /\ tenants \subseteq Calls /\ blocked \subseteq Addresses
    /\ seats \in Int /\ faults \in Nat
    /\ op \in [Calls -> Op]
    /\ \A c \in Calls : op[c].at \notin {"idle", "over"} => op[c].at \in StagesOf[op[c].kind]
    /\ hurt \subseteq Addresses /\ met \subseteq Addresses /\ mixed \subseteq Addresses
    /\ sole \subseteq Calls

\* Some identities may be there already, each registered by a call that is over.
Init ==
    \E home \in [Addresses -> Calls \cup {None}] :
        /\ \A a, b \in Addresses : home[a] = home[b] => a = b \/ home[a] = None
        /\ tenants = {home[a] : a \in Addresses} \ {None}
        /\ row = home /\ linked = tenants /\ seats = Cardinality(tenants)
        /\ account = [a \in Addresses |-> [by |-> home[a], pw |-> home[a]]]
        /\ admin = [a \in Addresses |-> [by |-> home[a], org |-> home[a], pw |-> home[a]]]
        /\ op = [c \in Calls |->
                    IF c \notin tenants THEN NotBegun
                    ELSE [NotBegun EXCEPT !.kind = "register", !.at = "over", !.org = c,
                                          !.addr = CHOOSE a \in Addresses : home[a] = c]]
        /\ blocked = {} /\ faults = 0
        /\ hurt = {} /\ met = {} /\ mixed = {} /\ sole = {}

-----------------------------------------------------------------------------
(* Helpers. *)

At(c, stage) == op[c].at = stage
Is(c, kind) == op[c].kind = kind
Set(c, k) == op' = [op EXCEPT ![c] = k]
Goto(c, stage) == Set(c, [op[c] EXCEPT !.at = stage])
Over(c) == Goto(c, "over")
Busy == {c \in Calls : op[c].at \notin {"idle", "over"}}

\* The addresses a call works on: for a purge, also where the organisation registered.
WorksOn(k) ==
    ({k.addr} \cup k.emails \cup (IF k.kind = "purge" THEN {op[k.org].addr} ELSE {})) \ {None}
Workers(a) == {c \in Busy : a \in WorksOn(op[c])}
\* Where operation k of call c is a purge, or meets one, that another purge or a
\* call that makes a mailbox disturbs.
Disturbing == {"purge", "register", "probe"}
Meets(c, k) ==
    {a \in WorksOn(k) : \E d \in Workers(a) \ {c} :
        "purge" \in {k.kind, op[d].kind} /\ {k.kind, op[d].kind} \subseteq Disturbing}
\* Changes of the same password that k overlaps; two sign-ins agree.
Rivals(k) ==
    {d \in Busy : /\ k.kind \in Writers /\ op[d].kind \in Writers /\ op[d].addr = k.addr
                  /\ "reset" \in {k.kind, op[d].kind}}

Begin(c, k) ==
    /\ At(c, "idle") /\ Cardinality(Busy) < MaxBusy
    /\ Set(c, k)
    /\ met' = met \cup Meets(c, k)
    /\ IF Rivals(k) = {}
       THEN /\ sole' = IF k.kind \in Writers THEN sole \cup {c} ELSE sole
            /\ UNCHANGED mixed
       ELSE sole' = sole \ Rivals(k) /\ mixed' = mixed \cup {k.addr}
    /\ UNCHANGED <<stores, faults, hurt>>

Fault == faults < MaxFaults /\ faults' = faults + 1
\* A fault that leaves something behind at these addresses.
Hurts(as) == Fault /\ hurt' = hurt \cup as /\ UNCHANGED <<met, mixed, sole>>
Fine == UNCHANGED <<faults, histories>>
\* Who changes the password of this address; and a change that leaves two of them.
Changing(a) == {c \in Workers(a) : op[c].kind \in Writers}
Mixing(c) ==
    mixed' = mixed \cup {op[c].addr} /\ sole' = sole \ {c} /\ UNCHANGED <<hurt, met>>

-----------------------------------------------------------------------------
(* POST /register, /register/check-password, and the platform's POST /:id/admins *)

Register(c, a) ==
    Begin(c, [NotBegun EXCEPT !.kind = "register", !.at = "check", !.addr = a, !.org = c])
Probe(c, a) ==
    Begin(c, [NotBegun EXCEPT !.kind = "probe", !.at = "exists", !.addr = a])
AddAdmin(c, t, a) ==
    /\ t \in tenants
    /\ Begin(c, [NotBegun EXCEPT !.kind = "add", !.at = "check", !.addr = a, !.org = t])

CheckBlocked(c) ==
    /\ At(c, "check")
    /\ IF op[c].addr \in blocked THEN Over(c) ELSE Goto(c, "exists")
    /\ UNCHANGED stores /\ Fine

CheckExists(c) ==
    /\ At(c, "exists")
    /\ IF admin[op[c].addr] # NoLogin THEN Over(c)
       ELSE Goto(c, IF Is(c, "add") THEN "admin" ELSE "row")
    /\ UNCHANGED stores /\ Fine

Mut_InsertRow(c) ==
    /\ At(c, "row")
    /\ row' = [row EXCEPT ![op[c].addr] = c] /\ Goto(c, "account")
    /\ UNCHANGED <<linked, account, admin, tenants, blocked, seats>> /\ Fine

\* Mailbox.address is unique: the row is the reservation.
InsertRow(c) ==
    LET a == op[c].addr
    IN  /\ At(c, "row")
        /\ IF row[a] # None THEN Over(c) /\ UNCHANGED row
           ELSE row' = [row EXCEPT ![a] = c] /\ Goto(c, "account")
        /\ UNCHANGED <<linked, account, admin, tenants, blocked, seats>> /\ Fine

\* Refused (taken, a weak password, no answer) or done; or done, and the answer,
\* or the query for the account that follows it, is lost.
CreateAccount(c) ==
    LET a == op[c].addr
        make == account[a] = NoAccount /\ account' = [account EXCEPT ![a] = [by |-> c, pw |-> c]]
    IN  /\ At(c, "account")
        /\ \/ make /\ Goto(c, "link") /\ Fine
           \/ UNCHANGED account /\ Goto(c, "drop") /\ Fine
           \/ make /\ Goto(c, "drop") /\ Hurts({a})
        /\ UNCHANGED <<row, linked, admin, tenants, blocked, seats>>

\* A document deleted meanwhile cannot be saved.
LinkRow(c) ==
    /\ At(c, "link")
    /\ IF row[op[c].addr] = c THEN linked' = linked \cup {c} /\ Goto(c, "count")
       ELSE UNCHANGED linked /\ Goto(c, "drop")
    /\ UNCHANGED <<row, account, admin, tenants, blocked, seats>> /\ Fine

\* Documents are deleted by id.
RemoveRow(a, r) == row' = [row EXCEPT ![a] = IF @ = r THEN None ELSE @]

DropRow(c) ==
    /\ At(c, "drop")
    /\ RemoveRow(op[c].addr, c) /\ Over(c)
    /\ UNCHANGED <<linked, account, admin, tenants, blocked, seats>> /\ Fine

CountRow(c) ==
    /\ At(c, "count")
    /\ seats' = seats + 1 /\ Goto(c, IF Is(c, "probe") THEN "find" ELSE "tenant")
    /\ UNCHANGED <<row, linked, account, admin, tenants, blocked>> /\ Fine

CreateTenant(c) ==
    /\ At(c, "tenant")
    /\ \/ tenants' = tenants \cup {c} /\ Goto(c, "admin") /\ Fine
       \/ UNCHANGED tenants /\ Goto(c, "find") /\ Fault /\ UNCHANGED histories
    /\ UNCHANGED <<row, linked, account, admin, blocked, seats>>

\* AdminUser.email is unique, and its creation may fail.
CreateAdmin(c) ==
    LET a == op[c].addr
        fails == UNCHANGED admin /\ IF Is(c, "add") THEN Over(c) ELSE Goto(c, "find")
    IN  /\ At(c, "admin")
        /\ \/ /\ admin[a] = NoLogin /\ Over(c) /\ Fine
              /\ admin' = [admin EXCEPT ![a] = [by |-> c, org |-> op[c].org, pw |-> c]]
           \/ admin[a] # NoLogin /\ fails /\ Fine
           \/ fails /\ Fault /\ UNCHANGED histories
        /\ UNCHANGED <<row, linked, account, tenants, blocked, seats>>

-----------------------------------------------------------------------------
(* deletePlatformIdentityMailbox, and the rest of a failed sign-up *)

Mut_Undone(c) == Goto(c, "untenant")

Undone(c) == IF Is(c, "probe") THEN Over(c) ELSE Goto(c, "untenant")

FindRow(c) ==
    LET r == row[op[c].addr]
    IN  /\ At(c, "find")
        /\ IF r = None THEN Undone(c)
           ELSE Set(c, [op[c] EXCEPT !.held = r, !.at = IF r \in linked THEN "off" ELSE "delete"])
        /\ UNCHANGED stores /\ Fine

RemoveAccount(r) ==
    account' = [a \in Addresses |-> IF account[a].by = r THEN NoAccount ELSE account[a]]

\* What the mail server refuses is only logged.
DeleteAccount(c) ==
    /\ At(c, "off") /\ Goto(c, "delete")
    /\ \/ RemoveAccount(op[c].held) /\ Fine
       \/ UNCHANGED account /\ Hurts({op[c].addr})
    /\ UNCHANGED <<row, linked, admin, tenants, blocked, seats>>

DeleteRow(c) ==
    /\ At(c, "delete")
    /\ RemoveRow(op[c].addr, op[c].held) /\ Goto(c, "uncount")
    /\ UNCHANGED <<linked, account, admin, tenants, blocked, seats>> /\ Fine

GiveBack(c) ==
    /\ At(c, "uncount")
    /\ seats' = IF seats > 0 THEN seats - 1 ELSE seats
    /\ Undone(c)
    /\ UNCHANGED <<row, linked, account, admin, tenants, blocked>> /\ Fine

Mut_DropTenant(c) == At(c, "untenant") /\ Over(c) /\ UNCHANGED stores /\ Fine

DropTenant(c) ==
    /\ At(c, "untenant")
    /\ tenants' = tenants \ {c} /\ Over(c)
    /\ UNCHANGED <<row, linked, account, admin, blocked, seats>> /\ Fine

-----------------------------------------------------------------------------
(* Resetting a password (syncLoginMailboxPassword), and signing in with the     *)
(* mailbox's password when the stored one is another (authenticatePortalUser). *)

Reset(c, a) ==
    /\ admin[a] # NoLogin
    /\ Begin(c, [NotBegun EXCEPT !.kind = "reset", !.at = "sync", !.addr = a,
                                 !.who = admin[a].by, !.pw = c])

SyncFind(c) ==
    LET r == row[op[c].addr]
    IN  /\ At(c, "sync")
        /\ IF r \in linked THEN Set(c, [op[c] EXCEPT !.held = r, !.at = "push"])
           ELSE Goto(c, "save")
        /\ UNCHANGED stores /\ Fine

Mut_Push(c) ==
    /\ At(c, "push") /\ Goto(c, "save")
    /\ \/ /\ account[op[c].addr].by = op[c].held
          /\ account' = [account EXCEPT ![op[c].addr].pw = op[c].pw]
       \/ UNCHANGED account
    /\ UNCHANGED <<row, linked, admin, tenants, blocked, seats>> /\ Fine

\* Taken; rejected, which ends the reset; or no answer, which is only logged.  The
\* mailbox found may be another's than the administrator's.
Push(c) ==
    LET a == op[c].addr
    IN  /\ At(c, "push")
        /\ \/ /\ account[a].by = op[c].held /\ Goto(c, "save")
              /\ account' = [account EXCEPT ![a].pw = op[c].pw]
              /\ IF op[c].held = op[c].who THEN Fine ELSE Mixing(c) /\ UNCHANGED faults
           \/ UNCHANGED account /\ Over(c) /\ Fine
           \/ UNCHANGED account /\ Goto(c, "save") /\ Fault /\ Mixing(c)
        /\ UNCHANGED <<row, linked, admin, tenants, blocked, seats>>

SignIn(c, a) ==
    /\ admin[a] # NoLogin
    /\ Begin(c, [NotBegun EXCEPT !.kind = "signIn", !.at = "verify", !.addr = a,
                                 !.who = admin[a].by, !.pw = admin[a].pw])

Verify(c) ==
    LET a == op[c].addr
    IN  /\ At(c, "verify")
        /\ \/ /\ account[a] # NoAccount /\ account[a].pw # op[c].pw
              /\ Set(c, [op[c] EXCEPT !.pw = account[a].pw, !.at = "save"])
           \/ Over(c)
        /\ UNCHANGED stores /\ Fine

\* The document may be gone.  When no change under way was overlapped, and the
\* mailbox is the administrator's, the two places agree from here on.
SavePassword(c) ==
    LET a == op[c].addr
    IN  /\ At(c, "save") /\ Over(c)
        /\ IF admin[a].by = op[c].who
           THEN /\ admin' = [admin EXCEPT ![a].pw = op[c].pw]
                /\ mixed' = IF account[a].by = op[c].who /\ Changing(a) \subseteq sole
                            THEN mixed \ {a} ELSE mixed
           ELSE UNCHANGED <<admin, mixed>>
        /\ UNCHANGED <<row, linked, account, tenants, blocked, seats, faults, hurt, met, sole>>

-----------------------------------------------------------------------------
(* finaliseDeletion and purgeTenant *)

AdminsOf(t) == {a \in Addresses : admin[a].org = t}
\* Who registered it, or the first of the others.
FirstAdmins(t) ==
    IF AdminsOf(t) = {} THEN {None}
    ELSE IF \E a \in AdminsOf(t) : admin[a].by = t THEN {a \in AdminsOf(t) : admin[a].by = t}
    ELSE AdminsOf(t)

Purge(c, t) ==
    /\ t \in tenants
    /\ \E a \in FirstAdmins(t) :
          Begin(c, [NotBegun EXCEPT !.kind = "purge", !.at = "bar", !.addr = a, !.org = t])

Bar(c) ==
    /\ At(c, "bar") /\ Goto(c, "list")
    /\ blocked' = blocked \cup ({op[c].addr} \ {None})
    /\ UNCHANGED <<row, linked, account, admin, tenants, seats>> /\ Fine

ListAdmins(c) ==
    LET k == [op[c] EXCEPT !.emails = AdminsOf(op[c].org), !.at = "rows"]
    IN  /\ At(c, "list") /\ Set(c, k)
        /\ met' = met \cup Meets(c, k)
        /\ UNCHANGED <<stores, faults, hurt, mixed, sole>>

ListRows(c) ==
    LET found == {row[a] : a \in op[c].emails} \ {None}
    IN  /\ At(c, "rows")
        /\ Set(c, [op[c] EXCEPT !.found = found, !.todo = found \cap linked, !.at = "each"])
        /\ UNCHANGED stores /\ Fine

EachAccount(c) ==
    /\ At(c, "each")
    /\ \/ /\ op[c].todo = {} /\ Goto(c, "remove") /\ UNCHANGED account /\ Fine
       \/ \E r \in op[c].todo :
             /\ Set(c, [op[c] EXCEPT !.todo = @ \ {r}])
             /\ \/ RemoveAccount(r) /\ Fine
                \/ UNCHANGED account /\ Hurts({a \in op[c].emails : account[a].by = r})
    /\ UNCHANGED <<row, linked, admin, tenants, blocked, seats>>

RemoveRows(c) ==
    /\ At(c, "remove") /\ Goto(c, "refund")
    /\ row' = [a \in Addresses |-> IF a \in op[c].emails THEN None ELSE row[a]]
    /\ UNCHANGED <<linked, account, admin, tenants, blocked, seats>> /\ Fine

Mut_Refund(c) == At(c, "refund") /\ Goto(c, "admins") /\ UNCHANGED stores /\ Fine

Refund(c) ==
    /\ At(c, "refund") /\ Goto(c, "admins")
    /\ seats' = seats - Cardinality(op[c].found)
    /\ UNCHANGED <<row, linked, account, admin, tenants, blocked>> /\ Fine

RemoveAdmins(c) ==
    /\ At(c, "admins") /\ Goto(c, "org")
    /\ admin' = [a \in Addresses |-> IF admin[a].org = op[c].org THEN NoLogin ELSE admin[a]]
    /\ UNCHANGED <<row, linked, account, tenants, blocked, seats>> /\ Fine

RemoveTenant(c) ==
    /\ At(c, "org") /\ Over(c)
    /\ tenants' = tenants \ {op[c].org}
    /\ UNCHANGED <<row, linked, account, admin, blocked, seats>> /\ Fine

\* The process dies, or something throws where nothing catches it.
Die(c) ==
    /\ c \in Busy /\ Over(c) /\ Fault
    /\ LET left(kinds) == IF op[c].kind \in kinds THEN WorksOn(op[c]) ELSE {}
       IN  /\ hurt' = hurt \cup left({"register", "probe", "purge"})
           /\ met' = met \cup left({"purge"})
           /\ mixed' = mixed \cup left({"reset"})
    /\ UNCHANGED <<stores, sole>>

-----------------------------------------------------------------------------

Begins(c) ==
    \E a \in Addresses :
        \/ Register(c, a) \/ Probe(c, a) \/ Reset(c, a) \/ SignIn(c, a)
        \/ \E t \in Calls : AddAdmin(c, t, a)
MakeSteps(c) ==
    CheckBlocked(c) \/ CheckExists(c) \/ InsertRow(c) \/ CreateAccount(c) \/ LinkRow(c)
    \/ DropRow(c) \/ CountRow(c) \/ CreateTenant(c) \/ CreateAdmin(c)
UndoSteps(c) ==
    FindRow(c) \/ DeleteAccount(c) \/ DeleteRow(c) \/ GiveBack(c) \/ DropTenant(c)
PasswordSteps(c) == SyncFind(c) \/ Push(c) \/ Verify(c) \/ SavePassword(c)
PurgeSteps(c) ==
    Bar(c) \/ ListAdmins(c) \/ ListRows(c) \/ EachAccount(c) \/ RemoveRows(c) \/ Refund(c)
    \/ RemoveAdmins(c) \/ RemoveTenant(c)

Next == \E c \in Calls :
    \/ Begins(c) \/ \E t \in Calls : Purge(c, t)
    \/ MakeSteps(c) \/ UndoSteps(c) \/ PasswordSteps(c) \/ PurgeSteps(c) \/ Die(c)

Spec == Init /\ [][Next]_vars

-----------------------------------------------------------------------------
(* Properties. *)

Sound == Addresses \ (hurt \cup met)
\* The sign-up that made the administrator at an address, if one did.
SignedUp(a) == admin[a] # NoLogin /\ op[admin[a].by].kind = "register"
Purged(a) == \E c \in Workers(a) : op[c].kind = "purge"

\* Whoever signed up keeps mailbox, account and organisation until a purge, in
\* every state and whatever fails: no password check, no other sign-up of the name
\* and no rollback takes one of them away (register, check-password,
\* deletePlatformIdentityMailbox).
IdentityKept ==
    \A a \in Addresses \ met :
        SignedUp(a) /\ ~Purged(a) =>
            LET c == admin[a].by
            IN  /\ row[a] = c /\ c \in linked /\ account[a].by = c
                /\ admin[a].org = c /\ c \in tenants

\* Once nobody works on a name that nobody signed up with, nothing is left of it:
\* no mailbox, no account, and no organisation of a sign-up that failed or was
\* purged ("never strand a username on a half-finished signup").
NothingStranded ==
    \A a \in Sound :
        Workers(a) = {} =>
            /\ ~SignedUp(a) => row[a] = None /\ account[a] = NoAccount
            /\ \A c \in tenants : op[c].addr = a => admin[a].by = c

\* When all is quiet, the platform's counter is the number of its mailboxes
\* (createPlatformIdentityMailbox, its undoing, and the purge's refund).
PlatformCount ==
    Busy = {} /\ hurt \cup met = {} => seats = Cardinality({a \in Addresses : row[a] # None})

\* The password of the login and of its mailbox are one, after every reset that
\* was not overlapped by another change and reached the mail server, and again
\* after a sign-in with the mailbox's that no overlapped change outlives
\* (syncLoginMailboxPassword, authenticatePortalUser).
PasswordsAgree ==
    \A a \in Addresses \ (met \cup mixed) :
        SignedUp(a) /\ Workers(a) = {} => admin[a].pw = account[a].pw
=============================================================================
