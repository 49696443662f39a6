------------------------- MODULE LoginIdentity_proofs -------------------------
(***************************************************************************)
(* Proofs about LoginIdentity: the states are well typed; whoever signed up *)
(* keeps mailbox, account and organisation until a purge; a name that       *)
(* nobody signed up with comes free; the platform's counter is the number   *)
(* of its mailboxes; and the passwords of a login and of its mailbox are    *)
(* one: however sign-ups, password checks, resets, sign-ins, roll-backs and *)
(* purges interleave.                                                       *)
(***************************************************************************)
EXTENDS LoginIdentity, FiniteSetTheorems, TLAPS

\* A call that has begun, and works or worked on this address.
Known(r, a) == op[r].at # "idle" /\ op[r].addr = a

Makers == {"register", "probe"}

\* What a call k has of its own kind, and what it loaded and listed.
ShapeOf(c, k) ==
    k.at # "idle" =>
        /\ k.kind \in Kinds
        /\ k.kind # "purge" => k.addr \in Addresses
        /\ k.kind = "register" => k.org = c
        /\ k.kind \in {"add", "purge"} => k.org \in Calls
        /\ k.kind = "purge" => op[k.org].at # "idle" /\ op[k.org].kind = "register"
        /\ k.kind \in Writers => k.who \in Calls
        /\ k.at \in {"off", "delete"} => k.held \in Calls /\ Known(k.held, k.addr)
        /\ k.at = "each" => \A r \in k.todo : op[r].at # "idle" /\ op[r].addr \in k.emails

Shape == \A c \in Calls : ShapeOf(c, op[c])

\* Documents, accounts and organisations are named by calls that made them.
Named ==
    /\ \A a \in Addresses : admin[a] # NoLogin =>
          LET c == admin[a].by
          IN  /\ c \in Calls /\ Known(c, a) /\ op[c].at = "over"
              /\ op[c].kind = "register" => admin[a].org = c
    /\ \A a \in Addresses : row[a] # None => Known(row[a], a)
    /\ \A a \in Addresses : account[a].by # None => Known(account[a].by, a)
    /\ \A t \in tenants : op[t].at # "idle" /\ op[t].kind = "register"

TypeInv == TypeOK /\ Shape /\ Named

\* A purge and another call that may disturb it, on one address, have met there.
Crossed ==
    \A c, d \in Busy : c # d =>
        LET kinds == {op[c].kind, op[d].kind}
        IN  "purge" \in kinds /\ kinds \subseteq Disturbing
              => WorksOn(op[c]) \cap WorksOn(op[d]) \subseteq met

\* A call that makes a mailbox, or takes back what it made, still has it.
HoldsOwn(d) ==
    LET k == op[d]
        a == k.addr
    IN  /\ k.at \in {"account", "link", "drop", "count", "tenant", "admin", "find", "off", "delete"}
              => row[a] = d
        /\ k.at \in {"link", "count", "tenant", "admin", "find", "off"} => account[a].by = d
        /\ k.at \in {"count", "tenant", "admin", "find", "off"} => d \in linked
        /\ k.at \in {"off", "delete"} => k.held = d
        /\ k.at = "admin" => d \in tenants
Holding == \A d \in Busy : op[d].kind \in Makers /\ op[d].addr \notin met => HoldsOwn(d)

\* A purge listed nobody who signed up for another organisation, and has left
\* nobody of its own once it has removed the administrators.
Purging ==
    \A p \in Busy : op[p].kind = "purge" =>
        /\ \A a \in op[p].emails \ met : SignedUp(a) => admin[a].org = op[p].org
        /\ op[p].at = "org" => \A a \in Addresses \ met : SignedUp(a) => admin[a].org # op[p].org

\* Only a purge of its own organisation endangers an identity.
Endangered(t) == \E p \in Busy : op[p].kind = "purge" /\ op[p].org = t
Has(c, a) == row[a] = c /\ account[a].by = c /\ c \in linked /\ c \in tenants
Kept ==
    \A a \in Addresses \ met :
        SignedUp(a) /\ ~Endangered(admin[a].org) => Has(admin[a].by, a)

KeptInv == TypeInv /\ Crossed /\ Holding /\ Purging /\ Kept

-----------------------------------------------------------------------------
(* Types. *)

\* The operations, with their stages.
Staged(k) == k.at \notin {"idle", "over"} => k.at \in StagesOf[k.kind]

\* A stage tells the kinds of call that can be there.
LEMMA KindAt ==
  ASSUME NEW k \in Op, k.at \notin {"idle", "over"}, k.kind \in Kinds, Staged(k)
  PROVE  /\ k.at \in {"row", "account", "link", "drop", "count", "find", "off", "delete", "uncount"}
               => k.kind \in Makers
         /\ k.at \in {"tenant", "untenant"} => k.kind = "register"
         /\ k.at \in {"check", "admin"} => k.kind \in {"register", "add"}
         /\ k.at = "exists" => k.kind \in {"register", "probe", "add"}
         /\ k.at \in {"sync", "push"} => k.kind = "reset"
         /\ k.at = "verify" => k.kind = "signIn"
         /\ k.at = "save" => k.kind \in Writers
         /\ k.at \in {"bar", "list", "rows", "each", "remove", "refund", "admins", "org"}
               => k.kind = "purge"
<1> DEFINE kind == k.kind
<1>1. kind \in {"register", "probe", "add", "reset", "signIn", "purge"}
  BY DEF Kinds, StagesOf
<1>2. k.at \in StagesOf[kind]
  BY DEF Staged
<1> USE DEF StagesOf, Making, Undoing, Makers, Writers
<1>3. CASE kind = "register"
  BY <1>2, <1>3
<1>4. CASE kind = "probe"
  BY <1>2, <1>4
<1>5. CASE kind = "add"
  BY <1>2, <1>5
<1>6. CASE kind \in {"reset", "signIn"}
  BY <1>2, <1>6
<1>7. CASE kind = "purge"
  BY <1>2, <1>7
<1> QED BY <1>1, <1>3, <1>4, <1>5, <1>6, <1>7

\* The stages each kind of call may go to.
LEMMA StagesKnown ==
  /\ \A s \in {"check", "tenant", "untenant", "admin"} : s \in StagesOf["register"]
  /\ \A s \in {"exists", "row", "account", "link", "drop", "count", "find", "off", "delete",
               "uncount"}, kind \in Makers : s \in StagesOf[kind]
  /\ \A s \in {"check", "exists", "admin"} : s \in StagesOf["add"]
  /\ \A s \in {"sync", "push", "save"} : s \in StagesOf["reset"]
  /\ \A s \in {"verify", "save"} : s \in StagesOf["signIn"]
  /\ \A s \in {"bar", "list", "rows", "each", "remove", "refund", "admins", "org"} :
        s \in StagesOf["purge"]
  /\ Kinds = {"register", "probe", "add", "reset", "signIn", "purge"}
  BY DEF StagesOf, Making, Undoing, Makers, Kinds

\* A stage of a call is one of the stages of operations.
LEMMA StageTyped ==
  ASSUME NEW k \in Op, NEW kind \in Kinds, NEW s \in StagesOf[kind] \cup {"over"}
  PROVE  [k EXCEPT !.at = s] \in Op
  BY DEF Op

\* What a step makes of its call: it goes on, or ends.
Moves(c, k) ==
    /\ k \in Op /\ op' = [op EXCEPT ![c] = k]
    /\ k.kind = op[c].kind /\ k.addr = op[c].addr /\ k.org = op[c].org /\ k.who = op[c].who
    /\ \/ k.emails = op[c].emails
       \/ k.emails = AdminsOf(op[c].org) /\ Meets(c, k) \subseteq met'
    /\ k.at \in StagesOf[k.kind] \cup {"over"}
    /\ k.at \in {"off", "delete"} => k.held \in Calls /\ Known(k.held, k.addr)
    /\ k.at = "each" => \A r \in k.todo : op[r].at # "idle" /\ op[r].addr \in k.emails

\* Such a call goes to a stage where it is not asked what it holds.
LEMMA GotoMoves ==
  ASSUME TypeInv, NEW c \in Busy, NEW s \in StagesOf[op[c].kind] \cup {"over"},
         s \notin {"off", "delete", "each"}, Goto(c, s)
  PROVE  Moves(c, [op[c] EXCEPT !.at = s])
<1> DEFINE k == op[c]
<1>1. k \in Op /\ k.kind \in Kinds
  BY DEF Busy, TypeInv, TypeOK, Shape, ShapeOf
<1>2. [k EXCEPT !.at = s] \in Op
  BY <1>1, StageTyped
<1>3. /\ [k EXCEPT !.at = s].at = s
      /\ \A f \in {"kind", "addr", "org", "who", "emails"} : [k EXCEPT !.at = s][f] = k[f]
  BY <1>1 DEF Op
<1> QED BY <1>2, <1>3 DEF Moves, Goto, Set

\* A step that moves one call keeps the calls well typed and their addresses known.
LEMMA MoveTyped ==
  ASSUME TypeInv, NEW c \in Busy, NEW k, Moves(c, k)
  PROVE  /\ op' \in [Calls -> Op] /\ Shape'
         /\ \A d \in Calls : Staged(op'[d])
         /\ \A r \in Calls, a \in Addresses : Known(r, a) => Known(r, a)'
<1>1. op'[c] = k /\ \A d \in Calls \ {c} : op'[d] = op[d]
  BY DEF Moves, TypeInv, TypeOK, Busy
<1>2. k.at # "idle" /\ op[c].at # "idle" /\ k.kind \in Kinds /\ Staged(k) /\ ShapeOf(c, op[c])
  <2>1. k.kind \in Kinds /\ ShapeOf(c, op[c])
    BY DEF Moves, TypeInv, Shape, ShapeOf, Busy
  <2>2. \A kind \in Kinds : "idle" \notin StagesOf[kind]
    BY DEF Kinds, StagesOf, Making, Undoing
  <2> QED BY <2>1, <2>2 DEF Moves, Busy, Staged
<1>3. op' \in [Calls -> Op]
  BY DEF Moves, TypeInv, TypeOK
<1>4. \A d \in Calls : Staged(op'[d])
  BY <1>1, <1>2 DEF TypeInv, TypeOK, Staged
<1>5. \A d \in Calls : /\ op[d].at # "idle" => op'[d].at # "idle"
                       /\ op'[d].addr = op[d].addr /\ op'[d].kind = op[d].kind
  BY <1>1, <1>2 DEF Moves
<1>6. ASSUME NEW d \in Calls PROVE ShapeOf(d, op[d])'
  <2>1. CASE d = c
    <3>1. /\ k.kind # "purge" => k.addr \in Addresses
          /\ k.kind = "register" => k.org = c
          /\ k.kind \in {"add", "purge"} => k.org \in Calls
          /\ k.kind = "purge" => op'[k.org].at # "idle" /\ op'[k.org].kind = "register"
          /\ k.kind \in Writers => k.who \in Calls
      BY <1>2, <1>5 DEF ShapeOf, Moves
    <3>2. k.at \in {"off", "delete"} => k.held \in Calls /\ Known(k.held, k.addr)'
      BY <1>5 DEF Moves, Known
    <3>3. k.at = "each" => \A r \in k.todo : op'[r].at # "idle" /\ op'[r].addr \in k.emails
      BY <1>5 DEF Moves, Op
    <3> QED BY <1>1, <1>2, <2>1, <3>1, <3>2, <3>3 DEF ShapeOf
  <2>2. CASE d # c
    BY <1>1, <1>5, <2>2 DEF TypeInv, TypeOK, Shape, ShapeOf, Known, Op
  <2> QED BY <2>1, <2>2
<1> QED BY <1>3, <1>4, <1>5, <1>6 DEF Shape, Known

-----------------------------------------------------------------------------
(* What the steps make of their call. *)

\* What is known of a call at a stage.
LEMMA AtStage ==
  ASSUME TypeInv, NEW c \in Calls, NEW stage, At(c, stage), stage \notin {"idle", "over"}
  PROVE  /\ c \in Busy /\ op[c] \in Op /\ op[c].kind \in Kinds /\ Staged(op[c])
         /\ ShapeOf(c, op[c])
  BY DEF At, Busy, TypeInv, TypeOK, Shape, ShapeOf, Staged

\* A step of a call that makes a mailbox moves that call on.
LEMMA MakeMoves ==
  ASSUME TypeInv, NEW c \in Calls, MakeSteps(c)
  PROVE  c \in Busy /\ \E k : Moves(c, k)
<1>0. ASSUME NEW s, c \in Busy, Goto(c, s), s \in StagesOf[op[c].kind] \cup {"over"},
             s \notin {"off", "delete", "each"}
      PROVE  c \in Busy /\ \E k : Moves(c, k)
  BY <1>0, GotoMoves
<1> USE DEF Is, Over
<1>1. CASE CheckBlocked(c)
  <2>1. c \in Busy /\ op[c].kind \in {"register", "add"}
    BY <1>1, AtStage, KindAt DEF CheckBlocked, At
  <2>2. "exists" \in StagesOf[op[c].kind]
    BY <2>1, StagesKnown DEF Makers
  <2> QED BY <1>0, <1>1, <2>1, <2>2 DEF CheckBlocked
<1>2. CASE CheckExists(c)
  <2>1. c \in Busy /\ op[c].kind \in {"register", "probe", "add"}
    BY <1>2, AtStage, KindAt DEF CheckExists, At
  <2>2. /\ op[c].kind = "add" => "admin" \in StagesOf[op[c].kind]
        /\ op[c].kind # "add" => "row" \in StagesOf[op[c].kind]
    BY <2>1, StagesKnown DEF Makers
  <2> QED BY <1>0, <1>2, <2>1, <2>2 DEF CheckExists
<1>3. CASE InsertRow(c)
  <2>1. c \in Busy /\ op[c].kind \in Makers
    BY <1>3, AtStage, KindAt DEF InsertRow, At
  <2> QED BY <1>0, <1>3, <2>1, StagesKnown DEF InsertRow
<1>4. CASE CreateAccount(c)
  <2>1. c \in Busy /\ op[c].kind \in Makers
    BY <1>4, AtStage, KindAt DEF CreateAccount, At
  <2> QED BY <1>0, <1>4, <2>1, StagesKnown DEF CreateAccount
<1>5. CASE LinkRow(c)
  <2>1. c \in Busy /\ op[c].kind \in Makers
    BY <1>5, AtStage, KindAt DEF LinkRow, At
  <2> QED BY <1>0, <1>5, <2>1, StagesKnown DEF LinkRow
<1>6. CASE DropRow(c)
  <2>1. c \in Busy
    BY <1>6, AtStage DEF DropRow
  <2> QED BY <1>0, <1>6, <2>1 DEF DropRow
<1>7. CASE CountRow(c)
  <2>1. c \in Busy /\ op[c].kind \in Makers
    BY <1>7, AtStage, KindAt DEF CountRow, At
  <2>2. /\ op[c].kind = "probe" => "find" \in StagesOf[op[c].kind]
        /\ op[c].kind # "probe" => "tenant" \in StagesOf[op[c].kind]
    BY <2>1, StagesKnown DEF Makers
  <2> QED BY <1>0, <1>7, <2>1, <2>2 DEF CountRow
<1>8. CASE CreateTenant(c)
  <2>1. c \in Busy /\ op[c].kind = "register"
    BY <1>8, AtStage, KindAt DEF CreateTenant, At
  <2>2. "admin" \in StagesOf[op[c].kind] /\ "find" \in StagesOf[op[c].kind]
    BY <2>1, StagesKnown DEF Makers
  <2> QED BY <1>0, <1>8, <2>1, <2>2 DEF CreateTenant
<1>9. CASE CreateAdmin(c)
  <2>1. c \in Busy /\ op[c].kind \in {"register", "add"}
    BY <1>9, AtStage, KindAt DEF CreateAdmin, At
  <2>2. op[c].kind # "add" => "find" \in StagesOf[op[c].kind]
    BY <2>1, StagesKnown DEF Makers
  <2> QED BY <1>0, <1>9, <2>1, <2>2 DEF CreateAdmin
<1> QED BY <1>1, <1>2, <1>3, <1>4, <1>5, <1>6, <1>7, <1>8, <1>9 DEF MakeSteps

\* The end of undoing what a call made.
LEMMA UndoneMoves ==
  ASSUME TypeInv, NEW c \in Busy, op[c].kind \in Makers, Undone(c)
  PROVE  \E k : Moves(c, k)
<1>1. op[c].kind # "probe" => "untenant" \in StagesOf[op[c].kind]
  BY StagesKnown DEF Makers
<1> QED BY <1>1, GotoMoves DEF Undone, Over, Is

\* So does a step that takes back what was made.
LEMMA UndoMoves ==
  ASSUME TypeInv, NEW c \in Calls, UndoSteps(c)
  PROVE  c \in Busy /\ \E k : Moves(c, k)
<1>0. ASSUME NEW s \in {"find", "off", "delete", "uncount"}, At(c, s)
      PROVE  /\ c \in Busy /\ op[c].kind \in Makers /\ op[c] \in Op
             /\ ShapeOf(c, op[c]) /\ op[c].at = s /\ op[c].addr \in Addresses
  BY <1>0, AtStage, KindAt DEF At, ShapeOf, Makers
<1>1. CASE FindRow(c)
  <2> DEFINE k == op[c]
             r == row[k.addr]
             stage == IF r \in linked THEN "off" ELSE "delete"
             l == [k EXCEPT !.held = r, !.at = stage]
  <2>1. c \in Busy /\ k.kind \in Makers /\ k \in Op /\ k.addr \in Addresses
    BY <1>0, <1>1 DEF FindRow
  <2>2. CASE r = None
    BY <1>1, <2>1, <2>2, UndoneMoves DEF FindRow
  <2>3. CASE r # None
    <3>1. r \in Calls /\ Known(r, k.addr)
      BY <2>1, <2>3 DEF TypeInv, TypeOK, Named
    <3>2. stage \in StagesOf[k.kind]
      BY <2>1, StagesKnown
    <3>3. /\ l \in Op /\ l.at = stage /\ l.held = r
          /\ \A f \in {"kind", "addr", "org", "who", "emails"} : l[f] = k[f]
      <4>1. [k EXCEPT !.at = stage] \in Op
        BY <2>1, <3>2, StageTyped DEF Makers, Kinds, StagesOf
      <4> QED BY <2>1, <3>1, <4>1 DEF Op
    <3>4. op' = [op EXCEPT ![c] = l]
      BY <1>1, <2>3 DEF FindRow, Set
    <3> HIDE DEF l
    <3>5. Moves(c, l)
      BY <3>1, <3>2, <3>3, <3>4 DEF Moves
    <3> QED BY <2>1, <3>5
  <2> QED BY <2>2, <2>3
<1>2. CASE DeleteAccount(c)
  <2> DEFINE k == op[c]
             l == [k EXCEPT !.at = "delete"]
  <2>1. c \in Busy /\ k.kind \in Makers /\ k \in Op /\ ShapeOf(c, k) /\ k.at = "off"
    BY <1>0, <1>2 DEF DeleteAccount
  <2>2. "delete" \in StagesOf[k.kind]
    BY <2>1, StagesKnown
  <2>3. /\ l \in Op /\ l.at = "delete"
        /\ \A f \in {"kind", "addr", "org", "who", "emails", "held"} : l[f] = k[f]
    <3>1. l \in Op
      BY <2>1, <2>2, StageTyped DEF Makers, Kinds, StagesOf
    <3> QED BY <2>1, <3>1 DEF Op
  <2>4. op' = [op EXCEPT ![c] = l]
    BY <1>2 DEF DeleteAccount, Goto, Set
  <2> HIDE DEF l
  <2>5. Moves(c, l)
    BY <2>1, <2>2, <2>3, <2>4 DEF Moves, ShapeOf
  <2> QED BY <2>1, <2>5
<1>3. CASE DeleteRow(c)
  BY <1>0, <1>3, StagesKnown, GotoMoves DEF DeleteRow
<1>4. CASE GiveBack(c)
  BY <1>0, <1>4, UndoneMoves DEF GiveBack
<1>5. CASE DropTenant(c)
  BY <1>5, AtStage, GotoMoves DEF DropTenant, Over
<1> QED BY <1>1, <1>2, <1>3, <1>4, <1>5 DEF UndoSteps

\* So does a step of a reset or a sign-in.
LEMMA PasswordMoves ==
  ASSUME TypeInv, NEW c \in Calls, PasswordSteps(c)
  PROVE  c \in Busy /\ \E k : Moves(c, k)
<1> DEFINE k == op[c]
<1>1. CASE SyncFind(c)
  <2>1. c \in Busy /\ k.kind = "reset" /\ k \in Op /\ k.addr \in Addresses
    BY <1>1, AtStage, KindAt DEF SyncFind, At, ShapeOf
  <2>2. CASE row[k.addr] \in linked
    <3> DEFINE l == [k EXCEPT !.held = row[k.addr], !.at = "push"]
    <3>1. "push" \in StagesOf[k.kind] /\ row[k.addr] \in Calls
      BY <2>1, <2>2, StagesKnown DEF TypeInv, TypeOK
    <3>2. /\ l \in Op /\ l.at = "push"
          /\ \A f \in {"kind", "addr", "org", "who", "emails"} : l[f] = k[f]
      <4>1. [k EXCEPT !.at = "push"] \in Op
        BY <2>1, <3>1, StageTyped DEF Kinds, StagesOf
      <4> QED BY <2>1, <3>1, <4>1 DEF Op
    <3>3. op' = [op EXCEPT ![c] = l]
      BY <1>1, <2>2 DEF SyncFind, Set
    <3> HIDE DEF l
    <3>4. Moves(c, l)
      BY <3>1, <3>2, <3>3 DEF Moves
    <3> QED BY <2>1, <3>4
  <2>3. CASE row[k.addr] \notin linked
    BY <1>1, <2>1, <2>3, StagesKnown, GotoMoves DEF SyncFind
  <2> QED BY <2>2, <2>3
<1>2. CASE Push(c)
  <2>1. c \in Busy /\ k.kind = "reset"
    BY <1>2, AtStage, KindAt DEF Push, At
  <2> QED BY <1>2, <2>1, StagesKnown, GotoMoves DEF Push, Over
<1>3. CASE Verify(c)
  <2>1. c \in Busy /\ k.kind = "signIn" /\ k \in Op /\ k.addr \in Addresses
    BY <1>3, AtStage, KindAt DEF Verify, At, ShapeOf
  <2>2. CASE Over(c)
    BY <2>1, <2>2, GotoMoves DEF Over
  <2>3. CASE ~Over(c)
    <3> DEFINE l == [k EXCEPT !.pw = account[k.addr].pw, !.at = "save"]
    <3>1. "save" \in StagesOf[k.kind] /\ account[k.addr].pw \in Calls \cup {None}
      BY <2>1, StagesKnown DEF TypeInv, TypeOK
    <3>2. /\ l \in Op /\ l.at = "save"
          /\ \A f \in {"kind", "addr", "org", "who", "emails"} : l[f] = k[f]
      <4>1. [k EXCEPT !.at = "save"] \in Op
        BY <2>1, <3>1, StageTyped DEF Kinds, StagesOf
      <4> QED BY <2>1, <3>1, <4>1 DEF Op
    <3>3. op' = [op EXCEPT ![c] = l]
      BY <1>3, <2>3 DEF Verify, Set
    <3> HIDE DEF l
    <3>4. Moves(c, l)
      BY <3>1, <3>2, <3>3 DEF Moves
    <3> QED BY <2>1, <3>4
  <2> QED BY <2>2, <2>3
<1>4. CASE SavePassword(c)
  BY <1>4, AtStage, GotoMoves DEF SavePassword, Over
<1> QED BY <1>1, <1>2, <1>3, <1>4 DEF PasswordSteps

\* So does a step of a purge, which may list its addresses.
LEMMA PurgeMoves ==
  ASSUME TypeInv, NEW c \in Calls, PurgeSteps(c)
  PROVE  c \in Busy /\ \E k : Moves(c, k)
<1> DEFINE k == op[c]
<1>0. ASSUME NEW s \in {"bar", "list", "rows", "each", "remove", "refund", "admins", "org"}, At(c, s)
      PROVE  /\ c \in Busy /\ k.kind = "purge" /\ k \in Op /\ ShapeOf(c, k) /\ k.at = s
             /\ \A t \in {"bar", "list", "rows", "each", "remove", "refund", "admins", "org"} :
                   t \in StagesOf[k.kind] /\ [k EXCEPT !.at = t] \in Op
  <2>1. c \in Busy /\ k.kind = "purge" /\ k \in Op /\ ShapeOf(c, k) /\ k.at = s
    BY <1>0, AtStage, KindAt DEF At
  <2>2. \A t \in {"bar", "list", "rows", "each", "remove", "refund", "admins", "org"} :
           t \in StagesOf[k.kind]
    BY <2>1, StagesKnown
  <2> QED BY <2>1, <2>2, StageTyped DEF Kinds, StagesOf
<1>1. CASE Bar(c)
  BY <1>0, <1>1, GotoMoves DEF Bar
<1>2. CASE ListAdmins(c)
  <2> DEFINE listed == AdminsOf(k.org)
             l == [k EXCEPT !.emails = listed, !.at = "rows"]
  <2>1. k.kind = "purge" /\ "rows" \in StagesOf[k.kind] /\ c \in Busy
    BY <1>0, <1>2 DEF ListAdmins
  <2>2. /\ l \in Op /\ l.at = "rows" /\ l.emails = listed
        /\ \A f \in {"kind", "addr", "org", "who"} : l[f] = k[f]
    <3>1. [k EXCEPT !.at = "rows"] \in Op /\ k \in Op /\ listed \in SUBSET Addresses
      BY <1>0, <1>2 DEF ListAdmins, AdminsOf
    <3> DEFINE m == [k EXCEPT !.at = "rows"]
    <3>2. l = [m EXCEPT !.emails = listed] /\ m.at = "rows"
      BY <3>1 DEF Op
    <3>3. \A f \in {"kind", "addr", "org", "who"} : m[f] = k[f]
      BY <3>1 DEF Op
    <3> HIDE DEF listed, m, l
    <3>4. m \in Op
      BY <3>1 DEF m
    <3> QED BY <3>1, <3>2, <3>3, <3>4 DEF Op
  <2>3. op' = [op EXCEPT ![c] = l] /\ Meets(c, l) \subseteq met'
    BY <1>2 DEF ListAdmins, Set
  <2> HIDE DEF l
  <2>4. Moves(c, l)
    BY <2>1, <2>2, <2>3 DEF Moves
  <2> QED BY <2>1, <2>4
<1>3. CASE ListRows(c)
  <2> DEFINE found == {row[a] : a \in k.emails} \ {None}
             l == [k EXCEPT !.found = found, !.todo = found \cap linked, !.at = "each"]
  <2>1. k.kind = "purge" /\ "each" \in StagesOf[k.kind] /\ c \in Busy /\ k \in Op
    BY <1>0, <1>3 DEF ListRows
  <2>2. /\ found \in SUBSET Calls
        /\ \A r \in found : op[r].at # "idle" /\ op[r].addr \in k.emails
    <3>1. k.emails \subseteq Addresses
      BY <2>1 DEF Op
    <3>2. \A a \in k.emails : row[a] # None
             => row[a] \in Calls /\ op[row[a]].at # "idle" /\ op[row[a]].addr = a
      BY <3>1 DEF TypeInv, TypeOK, Named, Known
    <3>3. ASSUME NEW r \in found
          PROVE  r \in Calls /\ op[r].at # "idle" /\ op[r].addr \in k.emails
      <4>1. PICK a \in k.emails : r = row[a]
        OBVIOUS
      <4> QED BY <3>2, <3>3, <4>1
    <3> HIDE DEF found
    <3> QED BY <3>3
  <2>3. /\ l \in Op /\ l.at = "each" /\ l.todo = found \cap linked
        /\ \A f \in {"kind", "addr", "org", "who", "emails"} : l[f] = k[f]
    <3>1. [k EXCEPT !.at = "each"] \in Op
      BY <1>0, <1>3 DEF ListRows
    <3> HIDE DEF found
    <3> QED BY <2>1, <2>2, <3>1 DEF Op
  <2>4. op' = [op EXCEPT ![c] = l]
    BY <1>3 DEF ListRows, Set
  <2> HIDE DEF l, found
  <2>5. Moves(c, l)
    BY <2>1, <2>2, <2>3, <2>4 DEF Moves
  <2> QED BY <2>1, <2>5
<1>4. CASE EachAccount(c)
  <2>1. /\ k.kind = "purge" /\ "each" \in StagesOf[k.kind] /\ c \in Busy /\ k \in Op
        /\ \A r \in k.todo : op[r].at # "idle" /\ op[r].addr \in k.emails
        /\ k.at = "each" /\ "remove" \in StagesOf[k.kind]
    BY <1>0, <1>4 DEF EachAccount, ShapeOf
  <2>2. CASE k.todo = {}
    BY <1>4, <2>1, <2>2, GotoMoves DEF EachAccount
  <2>3. ASSUME NEW r \in k.todo, Set(c, [k EXCEPT !.todo = @ \ {r}])
        PROVE  \E l : Moves(c, l)
    <3> DEFINE l == [k EXCEPT !.todo = @ \ {r}]
    <3>1. /\ l \in Op /\ l.at = "each" /\ l.todo = k.todo \ {r}
          /\ \A f \in {"kind", "addr", "org", "who", "emails"} : l[f] = k[f]
      BY <2>1 DEF Op
    <3>2. op' = [op EXCEPT ![c] = l]
      BY <2>3 DEF Set
    <3> HIDE DEF l
    <3>3. Moves(c, l)
      BY <2>1, <3>1, <3>2 DEF Moves
    <3> QED BY <3>3
  <2> QED BY <1>4, <2>1, <2>2, <2>3 DEF EachAccount
<1>5. CASE RemoveRows(c)
  BY <1>0, <1>5, GotoMoves DEF RemoveRows
<1>6. CASE Refund(c)
  BY <1>0, <1>6, GotoMoves DEF Refund
<1>7. CASE RemoveAdmins(c)
  BY <1>0, <1>7, GotoMoves DEF RemoveAdmins
<1>8. CASE RemoveTenant(c)
  BY <1>0, <1>8, GotoMoves DEF RemoveTenant, Over
<1> QED BY <1>1, <1>2, <1>3, <1>4, <1>5, <1>6, <1>7, <1>8 DEF PurgeSteps

\* Every step of a call under way.
Steps(c) == MakeSteps(c) \/ UndoSteps(c) \/ PasswordSteps(c) \/ PurgeSteps(c) \/ Die(c)

\* Every step moves the one call under way that takes it.
LEMMA StepMoves ==
  ASSUME TypeInv, NEW c \in Calls, Steps(c)
  PROVE  c \in Busy /\ \E k : Moves(c, k)
<1>1. CASE Die(c)
  BY <1>1, GotoMoves DEF Die, Over
<1> QED BY <1>1, MakeMoves, UndoMoves, PasswordMoves, PurgeMoves DEF Steps

-----------------------------------------------------------------------------
(* How calls begin. *)

\* Call c begins as k, which is well formed.
Opens(c, k) ==
    /\ Begin(c, k)
    /\ k \in Op /\ k.kind \in Kinds /\ ShapeOf(c, k) /\ k.at \in StagesOf[k.kind]
    /\ k.at \in {"check", "exists", "sync", "verify", "bar"}
    /\ k.emails = {}
    /\ k.kind \in Writers => op[k.who].at = "over"

\* Whatever begins, begins well formed.
LEMMA BeginOpens ==
  ASSUME TypeInv, NEW c \in Calls, Begins(c) \/ \E t \in Calls : Purge(c, t)
  PROVE  \E k : Opens(c, k)
<1>0. /\ Kinds = {"register", "probe", "add", "reset", "signIn", "purge"}
      /\ "check" \in StagesOf["register"] /\ "exists" \in StagesOf["probe"]
      /\ "check" \in StagesOf["add"] /\ "sync" \in StagesOf["reset"]
      /\ "verify" \in StagesOf["signIn"] /\ "bar" \in StagesOf["purge"]
  BY StagesKnown DEF Makers
<1>9. NotBegun \in Op /\ NotBegun.emails = {}
  BY DEF NotBegun, Op
<1>1. ASSUME NEW k \in Op, NEW a \in Addresses, k.addr = a, k.emails = {}, Begin(c, k),
             k.kind \in {"register", "probe", "reset", "signIn"},
             k.kind = "register" => k.at = "check" /\ k.org = c,
             k.kind = "probe" => k.at = "exists",
             k.kind = "reset" => k.at = "sync" /\ k.who \in Calls /\ op[k.who].at = "over",
             k.kind = "signIn" => k.at = "verify" /\ k.who \in Calls /\ op[k.who].at = "over"
      PROVE  Opens(c, k)
  BY <1>1, StagesKnown DEF Opens, ShapeOf, Makers, Writers
<1>2. ASSUME NEW a \in Addresses, admin[a] # NoLogin
      PROVE  /\ admin[a].by \in Calls /\ admin[a].pw \in Calls \cup {None}
             /\ op[admin[a].by].at = "over"
  BY <1>2 DEF TypeInv, TypeOK, Named
<1>3. ASSUME NEW a \in Addresses, Register(c, a) PROVE \E k : Opens(c, k)
  <2> DEFINE k == [NotBegun EXCEPT !.kind = "register", !.at = "check", !.addr = a, !.org = c]
  <2>1. /\ k.kind = "register" /\ k.at = "check" /\ k.addr = a /\ k.org = c /\ k.emails = {}
        /\ k \in Op
    <3>1. [NotBegun EXCEPT !.at = "check"] \in Op
      BY <1>0, <1>9, StageTyped
    <3> QED BY <1>0, <1>9, <3>1 DEF Op
  <2>2. Begin(c, k)
    BY <1>3 DEF Register
  <2> HIDE DEF k
  <2> QED BY <1>1, <2>1, <2>2
<1>4. ASSUME NEW a \in Addresses, Probe(c, a) PROVE \E k : Opens(c, k)
  <2> DEFINE k == [NotBegun EXCEPT !.kind = "probe", !.at = "exists", !.addr = a]
  <2>1. /\ k.kind = "probe" /\ k.at = "exists" /\ k.addr = a /\ k.emails = {}
        /\ k \in Op
    <3>1. [NotBegun EXCEPT !.at = "exists"] \in Op
      BY <1>0, <1>9, StageTyped
    <3> QED BY <1>0, <1>9, <3>1 DEF Op
  <2>2. Begin(c, k)
    BY <1>4 DEF Probe
  <2> HIDE DEF k
  <2> QED BY <1>1, <2>1, <2>2
<1>5. ASSUME NEW a \in Addresses, Reset(c, a) PROVE \E k : Opens(c, k)
  <2> DEFINE who == admin[a].by
             k == [NotBegun EXCEPT !.kind = "reset", !.at = "sync", !.addr = a, !.who = who, !.pw = c]
  <2>1. who \in Calls /\ op[who].at = "over"
    BY <1>2, <1>5 DEF Reset
  <2>2. /\ k.kind = "reset" /\ k.at = "sync" /\ k.addr = a /\ k.who = who /\ k.emails = {}
        /\ k \in Op
    <3>1. [NotBegun EXCEPT !.at = "sync"] \in Op
      BY <1>0, <1>9, StageTyped
    <3> HIDE DEF who
    <3> QED BY <1>0, <2>1, <1>9, <3>1 DEF Op
  <2>3. Begin(c, k)
    BY <1>5 DEF Reset
  <2> HIDE DEF k
  <2> QED BY <1>1, <2>1, <2>2, <2>3
<1>6. ASSUME NEW a \in Addresses, SignIn(c, a) PROVE \E k : Opens(c, k)
  <2> DEFINE who == admin[a].by
             pw == admin[a].pw
             k == [NotBegun EXCEPT !.kind = "signIn", !.at = "verify", !.addr = a, !.who = who,
                                   !.pw = pw]
  <2>1. who \in Calls /\ pw \in Calls \cup {None} /\ op[who].at = "over"
    BY <1>2, <1>6 DEF SignIn
  <2>2. /\ k.kind = "signIn" /\ k.at = "verify" /\ k.addr = a /\ k.who = who /\ k.emails = {}
        /\ k \in Op
    <3>1. [NotBegun EXCEPT !.at = "verify"] \in Op
      BY <1>0, <1>9, StageTyped
    <3> HIDE DEF who, pw
    <3> QED BY <1>0, <2>1, <1>9, <3>1 DEF Op
  <2>3. Begin(c, k)
    BY <1>6 DEF SignIn
  <2> HIDE DEF k
  <2> QED BY <1>1, <2>1, <2>2, <2>3
<1>7. ASSUME NEW a \in Addresses, NEW t \in Calls, AddAdmin(c, t, a) PROVE \E k : Opens(c, k)
  <2> DEFINE k == [NotBegun EXCEPT !.kind = "add", !.at = "check", !.addr = a, !.org = t]
  <2>1. /\ k.kind = "add" /\ k.at = "check" /\ k.addr = a /\ k.org = t /\ k.emails = {}
        /\ k \in Op
    <3>1. [NotBegun EXCEPT !.at = "check"] \in Op
      BY <1>0, <1>9, StageTyped
    <3> QED BY <1>0, <1>9, <3>1 DEF Op
  <2>2. Begin(c, k)
    BY <1>7 DEF AddAdmin
  <2> HIDE DEF k
  <2>3. Opens(c, k)
    BY <2>1, <2>2, StagesKnown DEF Opens, ShapeOf, Makers, Writers
  <2> QED BY <2>3
<1>8. ASSUME NEW t \in Calls, Purge(c, t) PROVE \E k : Opens(c, k)
  <2>1. PICK a \in FirstAdmins(t) :
           Begin(c, [NotBegun EXCEPT !.kind = "purge", !.at = "bar", !.addr = a, !.org = t])
    BY <1>8 DEF Purge
  <2> DEFINE k == [NotBegun EXCEPT !.kind = "purge", !.at = "bar", !.addr = a, !.org = t]
  <2>2. a \in Addresses \cup {None}
    BY DEF FirstAdmins, AdminsOf
  <2>3. /\ k.kind = "purge" /\ k.at = "bar" /\ k.addr = a /\ k.org = t /\ k.emails = {}
        /\ k \in Op
    <3>1. [NotBegun EXCEPT !.at = "bar"] \in Op
      BY <1>0, <1>9, StageTyped
    <3> QED BY <1>0, <2>2, <1>9, <3>1 DEF Op
  <2>4. op[t].at # "idle" /\ op[t].kind = "register"
    BY <1>8 DEF Purge, TypeInv, Named
  <2> HIDE DEF k
  <2>5. Opens(c, k)
    BY <2>1, <2>3, <2>4, StagesKnown DEF Opens, ShapeOf, Makers, Writers, k
  <2> QED BY <2>5
<1> QED BY <1>3, <1>4, <1>5, <1>6, <1>7, <1>8 DEF Begins

\* What a beginning call changes among the calls, and what it does not.
LEMMA OpenTyped ==
  ASSUME TypeInv, NEW c \in Calls, NEW k, Opens(c, k)
  PROVE  /\ op' \in [Calls -> Op] /\ Shape'
         /\ \A d \in Calls : Staged(op'[d])
         /\ op[c].at = "idle" /\ op'[c] = k /\ \A d \in Calls \ {c} : op'[d] = op[d]
         /\ \A r \in Calls, a \in Addresses : Known(r, a) => Known(r, a)'
         /\ met \subseteq met' /\ Meets(c, k) \subseteq met'
<1>1. /\ op[c].at = "idle" /\ op' = [op EXCEPT ![c] = k]
      /\ met \subseteq met' /\ Meets(c, k) \subseteq met'
  BY DEF Opens, Begin, At, Set
<1>2. op'[c] = k /\ \A d \in Calls \ {c} : op'[d] = op[d]
  BY <1>1 DEF TypeInv, TypeOK
<1>3. op' \in [Calls -> Op]
  BY <1>1 DEF TypeInv, TypeOK, Opens
<1>4. \A d \in Calls : Staged(op'[d])
  BY <1>2 DEF TypeInv, TypeOK, Staged, Opens
<1>5. \A d \in Calls : op[d].at # "idle" => op'[d] = op[d]
  BY <1>1, <1>2
<1>6. ASSUME NEW d \in Calls PROVE ShapeOf(d, op[d])'
  <2>1. CASE d = c
    BY <1>2, <1>5, <2>1 DEF Opens, ShapeOf, Known
  <2>2. CASE d # c
    BY <1>2, <1>5, <2>2 DEF TypeInv, TypeOK, Shape, ShapeOf, Known, Op
  <2> QED BY <2>1, <2>2
<1> QED BY <1>1, <1>2, <1>3, <1>4, <1>5, <1>6 DEF Shape, Known

-----------------------------------------------------------------------------
(* What the steps make of the stores. *)

\* Going to a stage changes nothing else of a call.
LEMMA Gone ==
  ASSUME TypeInv, NEW c \in Calls, NEW s, Goto(c, s)
  PROVE  op'[c].at = s /\ op'[c].addr = op[c].addr /\ op'[c].held = op[c].held
<1>1. op[c] \in Op /\ op' = [op EXCEPT ![c] = [op[c] EXCEPT !.at = s]]
  BY DEF TypeInv, TypeOK, Goto, Set
<1>2. op'[c] = [op[c] EXCEPT !.at = s]
  BY <1>1 DEF TypeInv, TypeOK
<1> QED BY <1>1, <1>2 DEF Op

\* A call under way that is not a purge has an address.
LEMMA HasAddress ==
  ASSUME TypeInv, NEW c \in Calls, NEW stage, stage \notin {"idle", "over"}, At(c, stage)
  PROVE  /\ c \in Busy /\ op[c] \in Op /\ op[c].kind \in Kinds
         /\ op[c].kind # "purge" => op[c].addr \in Addresses
         /\ op[c].emails \subseteq Addresses
<1>1. /\ c \in Busy /\ op[c] \in Op /\ op[c].kind \in Kinds
      /\ ShapeOf(c, op[c]) /\ op[c].at = stage
  BY AtStage DEF At
<1>2. op[c].emails \subseteq Addresses
  BY <1>1 DEF Op
<1> QED BY <1>1, <1>2 DEF ShapeOf

\* Deleting a document or an account changes nothing else.
LEMMA RowGone ==
  ASSUME TypeInv, NEW x, NEW r, RemoveRow(x, r)
  PROVE  /\ row' \in [Addresses -> Calls \cup {None}]
         /\ \A a \in Addresses : row'[a] = row[a] \/ (a = x /\ row[a] = r /\ row'[a] = None)
  BY DEF RemoveRow, TypeInv, TypeOK

\* Deleting an account leaves the others.
LEMMA AccountGone ==
  ASSUME TypeInv, NEW r, RemoveAccount(r)
  PROVE  /\ account' \in [Addresses -> [by : Calls \cup {None}, pw : Calls \cup {None}]]
         /\ \A a \in Addresses : \/ account'[a] = account[a]
                                 \/ account[a].by = r /\ account'[a] = NoAccount
  BY DEF RemoveAccount, NoAccount, TypeInv, TypeOK

\* A document is made by a call for its address where there is none, or deleted.
LEMMA RowStep ==
  ASSUME TypeInv, NEW c \in Calls, Steps(c)
  PROVE  /\ row' \in [Addresses -> Calls \cup {None}]
         /\ \A a \in Addresses : \/ row'[a] \in {row[a], None}
                                 \/ /\ op[c].at = "row" /\ a = op[c].addr /\ row[a] = None
                                    /\ row'[a] = c /\ op'[c].at = "account"
<1>1. row \in [Addresses -> Calls \cup {None}]
  BY DEF TypeInv, TypeOK
<1>2. CASE InsertRow(c)
  <2>1. op[c].addr \in Addresses
    BY <1>2, HasAddress, AtStage, KindAt DEF InsertRow, At, Makers
  <2>2. Goto(c, "account") => op'[c].at = "account"
    BY Gone
  <2> QED BY <1>1, <1>2, <2>1, <2>2 DEF InsertRow, At
<1>3. CASE DropRow(c) \/ DeleteRow(c)
  BY <1>3, RowGone DEF DropRow, DeleteRow
<1>4. CASE RemoveRows(c)
  BY <1>1, <1>4 DEF RemoveRows
<1>5. CASE UNCHANGED row
  BY <1>1, <1>5
<1> QED BY <1>2, <1>3, <1>4, <1>5
    DEF Steps, MakeSteps, UndoSteps, PasswordSteps, PurgeSteps, Die, stores, CheckBlocked,
        CheckExists, CreateAccount, LinkRow, CountRow, CreateTenant, CreateAdmin, FindRow,
        DeleteAccount, GiveBack, DropTenant, SyncFind, Push, Verify, SavePassword, Bar,
        ListAdmins, ListRows, EachAccount, Refund, RemoveAdmins, RemoveTenant

\* An account is made by a call for its address where there is none, deleted, or
\* given the password of a reset.
LEMMA AccountStep ==
  ASSUME TypeInv, NEW c \in Calls, Steps(c)
  PROVE  /\ account' \in [Addresses -> [by : Calls \cup {None}, pw : Calls \cup {None}]]
         /\ \A a \in Addresses :
               \/ account'[a] \in {account[a], NoAccount}
               \/ /\ op[c].at = "account" /\ a = op[c].addr /\ account[a] = NoAccount
                  /\ account'[a] = [by |-> c, pw |-> c]
               \/ /\ op[c].at = "push" /\ a = op[c].addr /\ account[a].by = op[c].held
                  /\ account'[a].by = account[a].by /\ account'[a].pw = op[c].pw
<1>1. account \in [Addresses -> [by : Calls \cup {None}, pw : Calls \cup {None}]]
  BY DEF TypeInv, TypeOK
<1>2. CASE CreateAccount(c)
  <2>1. op[c].addr \in Addresses
    BY <1>2, HasAddress, AtStage, KindAt DEF CreateAccount, At, Makers
  <2> QED BY <1>1, <1>2, <2>1 DEF CreateAccount, At
<1>3. CASE DeleteAccount(c)
  BY <1>1, <1>3, AccountGone DEF DeleteAccount
<1>4. CASE Push(c)
  <2>1. op[c].addr \in Addresses /\ op[c].pw \in Calls \cup {None}
    BY <1>4, HasAddress, AtStage, KindAt DEF Push, At, Op
  <2> QED BY <1>1, <1>4, <2>1 DEF Push, At
<1>5. CASE EachAccount(c)
  BY <1>1, <1>5, AccountGone DEF EachAccount
<1>6. CASE UNCHANGED account
  BY <1>1, <1>6
<1> QED BY <1>2, <1>3, <1>4, <1>5, <1>6
    DEF Steps, MakeSteps, UndoSteps, PasswordSteps, PurgeSteps, Die, stores, CheckBlocked,
        CheckExists, InsertRow, LinkRow, DropRow, CountRow, CreateTenant, CreateAdmin, FindRow,
        DeleteRow, GiveBack, DropTenant, SyncFind, Verify, SavePassword, Bar,
        ListAdmins, ListRows, RemoveRows, Refund, RemoveAdmins, RemoveTenant

\* An administrator is made by a call for its address, which ends, where there is
\* none; it is removed by a purge of its organisation, or given another password.
LEMMA AdminStep ==
  ASSUME TypeInv, NEW c \in Calls, Steps(c)
  PROVE  /\ admin' \in [Addresses -> [by : Calls \cup {None}, org : Calls \cup {None},
                                      pw : Calls \cup {None}]]
         /\ \A a \in Addresses :
               \/ /\ admin'[a] = NoLogin
                  /\ admin[a] # NoLogin =>
                        op[c].at = "admins" /\ op'[c].at = "org" /\ admin[a].org = op[c].org
               \/ /\ admin[a] # NoLogin
                  /\ admin'[a].by = admin[a].by /\ admin'[a].org = admin[a].org
                  /\ \/ admin'[a].pw = admin[a].pw
                     \/ /\ op[c].at = "save" /\ a = op[c].addr /\ admin[a].by = op[c].who
                        /\ admin'[a].pw = op[c].pw
               \/ /\ op[c].at = "admin" /\ a = op[c].addr /\ op'[c].at = "over"
                  /\ admin[a] = NoLogin
                  /\ admin'[a].by = c /\ admin'[a].org = op[c].org /\ admin'[a].pw = c
<1>1. /\ admin \in [Addresses -> [by : Calls \cup {None}, org : Calls \cup {None},
                                  pw : Calls \cup {None}]]
      /\ op \in [Calls -> Op]
  BY DEF TypeInv, TypeOK
<1>2. CASE CreateAdmin(c)
  <2> DEFINE k == op[c]
  <2>1. k \in Op /\ k.addr \in Addresses /\ k.at = "admin"
    BY <1>2, HasAddress, AtStage, KindAt DEF CreateAdmin, At
  <2>2. k.org \in Calls \cup {None}
    BY <2>1 DEF Op
  <2>3. CASE /\ admin[k.addr] = NoLogin /\ Over(c)
             /\ admin' = [admin EXCEPT ![k.addr] = [by |-> c, org |-> k.org, pw |-> c]]
    <3>1. op'[c].at = "over"
      BY <1>1, <2>1, <2>3 DEF Over, Goto, Set, Op
    <3>2. /\ admin'[k.addr] = [by |-> c, org |-> k.org, pw |-> c]
          /\ \A a \in Addresses \ {k.addr} : admin'[a] = admin[a]
      BY <1>1, <2>1, <2>3
    <3>3. admin' \in [Addresses -> [by : Calls \cup {None}, org : Calls \cup {None},
                                    pw : Calls \cup {None}]]
      BY <1>1, <2>1, <2>2, <2>3
    <3> QED BY <2>1, <2>3, <3>1, <3>2, <3>3
  <2>4. CASE UNCHANGED admin
    BY <1>1, <2>4
  <2> QED BY <1>2, <2>3, <2>4 DEF CreateAdmin
<1>3. CASE SavePassword(c)
  <2> DEFINE a == op[c].addr
  <2>1. op[c].who \in Calls /\ op[c].pw \in Calls \cup {None} /\ a \in Addresses
    BY <1>3, HasAddress, AtStage, KindAt DEF SavePassword, At, Op, ShapeOf, Writers
  <2>2. CASE admin[a].by = op[c].who
    <3>1. admin' = [admin EXCEPT ![a].pw = op[c].pw]
      BY <1>3, <2>2 DEF SavePassword
    <3>2. admin[a] # NoLogin
      BY <2>1, <2>2, SetsAssumption DEF NoLogin
    <3>3. \A x \in Addresses : admin'[x].by = admin[x].by /\ admin'[x].org = admin[x].org
      BY <1>1, <2>1, <3>1
    <3>4. \A x \in Addresses \ {a} : admin'[x] = admin[x]
      BY <1>1, <2>1, <3>1
    <3>5. admin' \in [Addresses -> [by : Calls \cup {None}, org : Calls \cup {None},
                                    pw : Calls \cup {None}]]
      BY <1>1, <2>1, <3>1
    <3>6. op[c].at = "save" /\ admin'[a].pw = op[c].pw
      BY <1>1, <1>3, <2>1, <3>1 DEF SavePassword, At
    <3> QED BY <2>2, <3>2, <3>3, <3>4, <3>5, <3>6
  <2>3. CASE admin[a].by # op[c].who
    BY <1>1, <1>3, <2>3 DEF SavePassword
  <2> QED BY <2>2, <2>3
<1>4. CASE RemoveAdmins(c)
  <2>1. NoLogin \in [by : Calls \cup {None}, org : Calls \cup {None}, pw : Calls \cup {None}]
    BY DEF NoLogin
  <2>2. op[c].at = "admins" /\ op'[c].at = "org"
    BY <1>4, Gone DEF RemoveAdmins, At
  <2> QED BY <1>1, <1>4, <2>1, <2>2 DEF RemoveAdmins
<1>5. CASE UNCHANGED admin
  BY <1>1, <1>5
<1> QED BY <1>2, <1>3, <1>4, <1>5
    DEF Steps, MakeSteps, UndoSteps, PasswordSteps, PurgeSteps, Die, stores, CheckBlocked,
        CheckExists, InsertRow, CreateAccount, LinkRow, DropRow, CountRow, CreateTenant, FindRow,
        DeleteAccount, DeleteRow, GiveBack, DropTenant, SyncFind, Push, Verify, Bar,
        ListAdmins, ListRows, EachAccount, RemoveRows, Refund, RemoveTenant

\* An organisation is made by its sign-up.
LEMMA TenantStep ==
  ASSUME TypeInv, NEW c \in Calls, Steps(c)
  PROVE  /\ tenants' \subseteq Calls
         /\ \A t \in tenants' :
               \/ t \in tenants
               \/ /\ t = c /\ op[c].kind = "register"
                  /\ op[c].at = "tenant" /\ op'[c].at = "admin"
<1>1. CASE CreateTenant(c)
  <2>1. op[c].kind = "register" /\ op[c].at = "tenant"
    BY <1>1, AtStage, KindAt DEF CreateTenant, At
  <2>2. Goto(c, "admin") => op'[c].at = "admin"
    BY Gone
  <2> QED BY <1>1, <2>1, <2>2 DEF CreateTenant, TypeInv, TypeOK
<1>2. CASE DropTenant(c) \/ RemoveTenant(c)
  BY <1>2 DEF DropTenant, RemoveTenant, TypeInv, TypeOK
<1>3. CASE UNCHANGED tenants
  BY <1>3 DEF TypeInv, TypeOK
<1> QED BY <1>1, <1>2, <1>3
    DEF Steps, MakeSteps, UndoSteps, PasswordSteps, PurgeSteps, Die, stores, CheckBlocked,
        CheckExists, InsertRow, CreateAccount, LinkRow, DropRow, CountRow, CreateAdmin, FindRow,
        DeleteAccount, DeleteRow, GiveBack, SyncFind, Push, Verify, SavePassword, Bar,
        ListAdmins, ListRows, EachAccount, RemoveRows, Refund, RemoveAdmins

\* Documents know their account for good, and addresses stay barred.
LEMMA LinkStep ==
  ASSUME TypeInv, NEW c \in Calls, Steps(c)
  PROVE  /\ linked' \subseteq Calls /\ linked \subseteq linked'
         /\ blocked' \subseteq Addresses
<1>1. CASE Bar(c)
  <2>1. op[c].addr \in Addresses \cup {None}
    BY <1>1, AtStage DEF Bar, Op
  <2> QED BY <1>1, <2>1 DEF Bar, TypeInv, TypeOK
<1>2. CASE LinkRow(c)
  BY <1>2 DEF LinkRow, TypeInv, TypeOK
<1>3. CASE UNCHANGED <<linked, blocked>>
  BY <1>3 DEF TypeInv, TypeOK
<1> QED BY <1>1, <1>2, <1>3
    DEF Steps, MakeSteps, UndoSteps, PasswordSteps, PurgeSteps, Die, stores, CheckBlocked,
        CheckExists, InsertRow, CreateAccount, DropRow, CountRow, CreateTenant, CreateAdmin,
        FindRow, DeleteAccount, DeleteRow, GiveBack, DropTenant, SyncFind, Push, Verify,
        SavePassword, ListAdmins, ListRows, EachAccount, RemoveRows, Refund, RemoveAdmins,
        RemoveTenant

-----------------------------------------------------------------------------
(* The counter and the histories, and the types together. *)

\* The counter moves by whole seats.
LEMMA SeatStep ==
  ASSUME TypeInv, NEW c \in Calls, Steps(c)
  PROVE  seats' \in Int
<1>1. seats \in Int
  BY DEF TypeInv, TypeOK
<1>2. CASE Refund(c)
  <2>1. op[c] \in Op
    BY <1>2, AtStage DEF Refund
  <2>2. IsFiniteSet(op[c].found)
    BY <2>1, SetsAssumption, FS_Subset DEF Op
  <2>3. Cardinality(op[c].found) \in Nat
    BY <2>2, FS_CardinalityType
  <2> QED BY <1>1, <1>2, <2>3 DEF Refund
<1>3. CASE CountRow(c)
  BY <1>1, <1>3 DEF CountRow
<1>4. CASE GiveBack(c)
  BY <1>1, <1>4 DEF GiveBack
<1>5. CASE UNCHANGED seats
  BY <1>1, <1>5
<1> QED BY <1>2, <1>3, <1>4, <1>5
    DEF Steps, MakeSteps, UndoSteps, PasswordSteps, PurgeSteps, Die, stores, CheckBlocked,
        CheckExists, InsertRow, CreateAccount, LinkRow, DropRow, CreateTenant, CreateAdmin,
        FindRow, DeleteAccount, DeleteRow, DropTenant, SyncFind, Push, Verify, SavePassword, Bar,
        ListAdmins, ListRows, EachAccount, RemoveRows, RemoveAdmins, RemoveTenant

\* What a call works on are addresses.
LEMMA WorksOnTyped ==
  ASSUME TypeInv, NEW c, NEW k \in Op, ShapeOf(c, k), k.at # "idle"
  PROVE  WorksOn(k) \subseteq Addresses
<1>1. k.addr \in Addresses \cup {None} /\ k.emails \subseteq Addresses
  BY DEF Op
<1>2. k.kind = "purge" => op[k.org].addr \in Addresses
  <2>1. ASSUME k.kind = "purge" PROVE op[k.org].addr \in Addresses
    <3>1. k.org \in Calls /\ op[k.org].at # "idle" /\ op[k.org].kind = "register"
      BY <2>1 DEF ShapeOf
    <3> QED BY <3>1 DEF TypeInv, Shape, ShapeOf
  <2> QED BY <2>1
<1> QED BY <1>1, <1>2 DEF WorksOn

\* The bound on faults, and where they and other calls have been.
LEMMA HistoryStep ==
  ASSUME TypeInv, NEW c \in Calls, Steps(c)
  PROVE  /\ faults' \in Nat
         /\ hurt' \subseteq Addresses /\ met' \subseteq Addresses /\ mixed' \subseteq Addresses
         /\ sole' \subseteq Calls /\ met \subseteq met' /\ hurt \subseteq hurt'
<1>1. /\ faults \in Nat /\ hurt \subseteq Addresses /\ met \subseteq Addresses
      /\ mixed \subseteq Addresses /\ sole \subseteq Calls
  BY DEF TypeInv, TypeOK
<1>2. CASE Fine
  BY <1>1, <1>2 DEF Fine, histories
<1>3. ASSUME NEW as, as \subseteq Addresses, Hurts(as)
      PROVE  /\ faults' \in Nat /\ hurt' \subseteq Addresses /\ hurt \subseteq hurt'
             /\ UNCHANGED <<met, mixed, sole>>
  <2>1. faults' = faults + 1 /\ hurt' = hurt \cup as /\ UNCHANGED <<met, mixed, sole>>
    BY <1>3 DEF Hurts, Fault
  <2>2. faults' \in Nat
    BY <1>1, <2>1
  <2>3. hurt' \subseteq Addresses /\ hurt \subseteq hurt'
    BY <1>1, <1>3, <2>1
  <2> QED BY <2>1, <2>2, <2>3
<1>4. CASE Fault /\ UNCHANGED histories
  BY <1>1, <1>4 DEF Fault, histories
<1>5. CASE CreateAccount(c)
  <2>1. op[c].addr \in Addresses
    BY <1>5, HasAddress, AtStage, KindAt DEF CreateAccount, At, Makers
  <2> QED BY <1>1, <1>2, <1>3, <1>5, <2>1 DEF CreateAccount
<1>6. CASE DeleteAccount(c)
  <2>1. op[c].addr \in Addresses
    BY <1>6, HasAddress, AtStage, KindAt DEF DeleteAccount, At, Makers
  <2> QED BY <1>1, <1>2, <1>3, <1>6, <2>1 DEF DeleteAccount
<1>7. CASE EachAccount(c)
  <2>1. op[c].emails \subseteq Addresses
    BY <1>7, HasAddress DEF EachAccount
  <2>2. \A r : {a \in op[c].emails : account[a].by = r} \subseteq Addresses
    BY <2>1
  <2> QED BY <1>1, <1>2, <1>3, <1>7, <2>2 DEF EachAccount
<1>8. CASE Push(c)
  <2>1. op[c].addr \in Addresses
    BY <1>8, HasAddress, AtStage, KindAt DEF Push, At
  <2> QED BY <1>1, <1>2, <1>8, <2>1 DEF Push, Fault, Mixing
<1>9. CASE SavePassword(c)
  <2>1. op[c].addr \in Addresses
    BY <1>9, HasAddress, AtStage, KindAt DEF SavePassword, At, Writers
  <2> QED BY <1>1, <1>9, <2>1 DEF SavePassword
<1>10. CASE ListAdmins(c)
  <2> DEFINE k == [op[c] EXCEPT !.emails = AdminsOf(op[c].org), !.at = "rows"]
  <2>1. Meets(c, k) \subseteq Addresses
    <3>1. PICK l : Moves(c, l)
      BY <1>10, StepMoves DEF Steps, PurgeSteps
    <3>2. op[c] \in Op /\ c \in Busy /\ AdminsOf(op[c].org) \subseteq Addresses
      BY <1>10, AtStage DEF ListAdmins, AdminsOf
    <3>3. k.addr = op[c].addr /\ k.kind = op[c].kind /\ k.org = op[c].org
          /\ k.emails = AdminsOf(op[c].org)
      BY <3>2 DEF Op
    <3>4. WorksOn(op[c]) \subseteq Addresses
      BY <1>10, AtStage, WorksOnTyped DEF ListAdmins, At
    <3> HIDE DEF k
    <3>5. WorksOn(k) \subseteq Addresses
      BY <3>2, <3>3, <3>4 DEF WorksOn
    <3> QED BY <3>5 DEF Meets
  <2> QED BY <1>1, <1>10, <2>1 DEF ListAdmins
<1>11. CASE Die(c)
  <2>1. WorksOn(op[c]) \subseteq Addresses
    BY <1>11, WorksOnTyped DEF Die, TypeInv, TypeOK, Shape, Busy
  <2>3. faults' \in Nat
    BY <1>1, <1>11 DEF Die, Fault
  <2>4. /\ hurt' \subseteq Addresses /\ met' \subseteq Addresses /\ mixed' \subseteq Addresses
        /\ met \subseteq met' /\ hurt \subseteq hurt' /\ sole' = sole
    <3> DEFINE left(kinds) == IF op[c].kind \in kinds THEN WorksOn(op[c]) ELSE {}
    <3>1. /\ hurt' = hurt \cup left({"register", "probe", "purge"})
          /\ met' = met \cup left({"purge"})
          /\ mixed' = mixed \cup left({"reset"}) /\ sole' = sole
      BY <1>11 DEF Die
    <3>2. \A kinds : left(kinds) \subseteq Addresses
      BY <2>1
    <3> HIDE DEF left
    <3> QED BY <1>1, <3>1, <3>2
  <2> QED BY <1>1, <2>3, <2>4
<1> QED BY <1>2, <1>4, <1>5, <1>6, <1>7, <1>8, <1>9, <1>10, <1>11, <1>1
    DEF Steps, MakeSteps, UndoSteps, PasswordSteps, PurgeSteps, CheckBlocked,
        CheckExists, InsertRow, LinkRow, DropRow, CountRow, CreateTenant, CreateAdmin,
        FindRow, DeleteRow, GiveBack, DropTenant, SyncFind, Verify, Bar,
        ListRows, RemoveRows, Refund, RemoveAdmins, RemoveTenant

\* The stores are still named by calls that made them.
LEMMA NamedStep ==
  ASSUME TypeInv, NEW c \in Calls, Steps(c)
  PROVE  Named'
<1>0. PICK k : c \in Busy /\ Moves(c, k)
  BY StepMoves
<1>1. /\ op'[c] = k /\ \A d \in Calls \ {c} : op'[d] = op[d]
      /\ op[c].at \notin {"idle", "over"}
      /\ k.kind = op[c].kind /\ k.addr = op[c].addr /\ k.at # "idle"
  <2>1. op'[c] = k /\ \A d \in Calls \ {c} : op'[d] = op[d]
    BY <1>0 DEF Moves, TypeInv, TypeOK
  <2>2. \A kind \in Kinds : "idle" \notin StagesOf[kind]
    BY DEF Kinds, StagesOf, Making, Undoing
  <2>3. k.kind \in Kinds
    BY <1>0 DEF Moves, Busy, TypeInv, Shape, ShapeOf
  <2> QED BY <1>0, <2>1, <2>2, <2>3 DEF Moves, Busy
<1>2. \A r \in Calls, a \in Addresses : Known(r, a) => Known(r, a)'
  BY <1>0, MoveTyped
<1>3. ASSUME NEW a \in Addresses, admin'[a] # NoLogin
      PROVE  /\ admin'[a].by \in Calls /\ op'[admin'[a].by].at # "idle"
             /\ op'[admin'[a].by].addr = a
             /\ op'[admin'[a].by].at = "over"
             /\ op'[admin'[a].by].kind = "register" => admin'[a].org = admin'[a].by
  <2>1. CASE /\ admin[a] # NoLogin
             /\ admin'[a].by = admin[a].by /\ admin'[a].org = admin[a].org
    <3> DEFINE b == admin[a].by
    <3>1. b \in Calls /\ Known(b, a) /\ op[b].at = "over"
          /\ (op[b].kind = "register" => admin[a].org = b)
      BY <2>1 DEF TypeInv, Named
    <3>2. op'[b] = op[b]
      BY <1>1, <3>1
    <3> QED BY <2>1, <3>1, <3>2 DEF Known
  <2>2. CASE /\ op[c].at = "admin" /\ a = op[c].addr /\ op'[c].at = "over"
             /\ admin'[a].by = c /\ admin'[a].org = op[c].org
    <3>1. op[c].kind = "register" => op[c].org = c
      BY <1>1 DEF TypeInv, Shape, ShapeOf
    <3> QED BY <1>1, <2>2, <3>1
  <2> QED BY <1>3, <2>1, <2>2, AdminStep
<1>4. ASSUME NEW a \in Addresses, NEW r \in Calls, NEW old,
             old # None => old \in Calls /\ Known(old, a),
             r = old \/ (r = c /\ a = op[c].addr)
      PROVE  op'[r].at # "idle" /\ op'[r].addr = a
  <2>1. Known(c, op[c].addr)
    BY <1>1 DEF Known
  <2> QED BY <1>1, <1>2, <1>4, <2>1, SetsAssumption DEF Known
<1>5. ASSUME NEW a \in Addresses, row'[a] # None
      PROVE  op'[row'[a]].at # "idle" /\ op'[row'[a]].addr = a
  <2>1. row[a] # None => row[a] \in Calls /\ Known(row[a], a)
    BY DEF TypeInv, TypeOK, Named
  <2>2. row'[a] \in Calls /\ (row'[a] = row[a] \/ (row'[a] = c /\ a = op[c].addr))
    BY <1>5, RowStep
  <2> QED BY <1>4, <2>1, <2>2
<1>6. ASSUME NEW a \in Addresses, account'[a].by # None
      PROVE  op'[account'[a].by].at # "idle" /\ op'[account'[a].by].addr = a
  <2>1. account[a].by # None => account[a].by \in Calls /\ Known(account[a].by, a)
    BY DEF TypeInv, TypeOK, Named
  <2>2. account'[a].by \in Calls
    BY <1>6, AccountStep
  <2>3. \/ account'[a] \in {account[a], NoAccount}
        \/ a = op[c].addr /\ account'[a] = [by |-> c, pw |-> c]
        \/ account'[a].by = account[a].by
    BY AccountStep
  <2>4. account'[a].by = account[a].by \/ (account'[a].by = c /\ a = op[c].addr)
    BY <1>6, <2>3 DEF NoAccount
  <2> QED BY <1>4, <2>1, <2>2, <2>4
<1>7. ASSUME NEW t \in tenants' PROVE op'[t].at # "idle" /\ op'[t].kind = "register"
  <2>1. t \in Calls /\ (t \in tenants \/ (t = c /\ op[c].kind = "register"))
    BY <1>7, TenantStep
  <2>2. CASE t \in tenants
    BY <1>1, <2>1, <2>2 DEF TypeInv, Named
  <2> QED BY <1>1, <2>1, <2>2
<1> QED BY <1>3, <1>5, <1>6, <1>7 DEF Named, Known, NoLogin

\* A beginning call leaves everything well typed.
LEMMA OpenInv ==
  ASSUME TypeInv, NEW c \in Calls, NEW k, Opens(c, k)
  PROVE  TypeInv'
<1>1. /\ op' \in [Calls -> Op] /\ Shape' /\ \A d \in Calls : Staged(op'[d])
      /\ op[c].at = "idle" /\ \A d \in Calls \ {c} : op'[d] = op[d]
      /\ \A r \in Calls, a \in Addresses : Known(r, a) => Known(r, a)'
  BY OpenTyped
<1>2. k \in Op /\ ShapeOf(c, k) /\ k.kind \in Kinds /\ UNCHANGED <<stores, faults, hurt>>
  BY DEF Opens, Begin
<1>3. met' \subseteq Addresses
  <2>1. WorksOn(k) \subseteq Addresses
    BY <1>2, WorksOnTyped DEF Opens
  <2>2. met' = met \cup Meets(c, k)
    BY DEF Opens, Begin
  <2> QED BY <2>1, <2>2 DEF Meets, TypeInv, TypeOK
<1>4. mixed' \subseteq Addresses /\ sole' \subseteq Calls
  <2>1. CASE Rivals(k) = {}
    BY <2>1 DEF Opens, Begin, TypeInv, TypeOK
  <2>2. CASE Rivals(k) # {}
    <3>1. k.kind \in Writers /\ k.at # "idle"
      BY <2>2 DEF Rivals, Opens
    <3>2. k.addr \in Addresses
      BY <1>2, <3>1 DEF ShapeOf, Writers
    <3>3. sole' = sole \ Rivals(k) /\ mixed' = mixed \cup {k.addr}
      BY <2>2 DEF Opens, Begin
    <3> QED BY <3>2, <3>3 DEF TypeInv, TypeOK
  <2> QED BY <2>1, <2>2
<1>5. TypeOK'
  <2>1. \A d \in Calls : op'[d].at \notin {"idle", "over"} => op'[d].at \in StagesOf[op'[d].kind]
    BY <1>1 DEF Staged
  <2> QED BY <1>1, <1>2, <1>3, <1>4, <2>1 DEF TypeInv, TypeOK, stores
<1>6. Named'
  <2>1. \A d \in Calls : op[d].at # "idle" => op'[d] = op[d]
    BY <1>1
  <2>2. tenants \subseteq Calls /\ row \in [Addresses -> Calls \cup {None}]
        /\ \A a \in Addresses : account[a].by \in Calls \cup {None}
    BY DEF TypeInv, TypeOK
  <2> QED BY <1>1, <1>2, <2>1, <2>2 DEF TypeInv, Named, Known, stores, NoLogin
<1> QED BY <1>1, <1>5, <1>6 DEF TypeInv

\* So does every step of a call under way.
LEMMA StepInv ==
  ASSUME TypeInv, NEW c \in Calls, Steps(c)
  PROVE  TypeInv'
<1>1. PICK k : c \in Busy /\ Moves(c, k)
  BY StepMoves
<1>2. op' \in [Calls -> Op] /\ Shape' /\ \A d \in Calls : Staged(op'[d])
  BY <1>1, MoveTyped
<1>3. \A d \in Calls : op'[d].at \notin {"idle", "over"} => op'[d].at \in StagesOf[op'[d].kind]
  BY <1>2 DEF Staged
<1>4. TypeOK'
  BY <1>2, <1>3, RowStep, AccountStep, AdminStep, TenantStep, LinkStep, SeatStep, HistoryStep
     DEF TypeOK
<1> QED BY <1>2, <1>4, NamedStep DEF TypeInv

\* The initial states are well typed.
LEMMA TypeInit == Init => TypeInv
<1> SUFFICES ASSUME Init PROVE TypeInv
  OBVIOUS
<1>1. PICK home \in [Addresses -> Calls \cup {None}] :
        /\ \A a, b \in Addresses : home[a] = home[b] => a = b \/ home[a] = None
        /\ tenants = {home[a] : a \in Addresses} \ {None}
        /\ row = home /\ linked = tenants /\ seats = Cardinality(tenants)
        /\ account = [a \in Addresses |-> [by |-> home[a], pw |-> home[a]]]
        /\ admin = [a \in Addresses |-> [by |-> home[a], org |-> home[a], pw |-> home[a]]]
        /\ op = [c \in Calls |->
                    IF c \notin tenants THEN NotBegun
                    ELSE [NotBegun EXCEPT !.kind = "register", !.at = "over", !.org = c,
                                          !.addr = CHOOSE a \in Addresses : home[a] = c]]
        /\ blocked = {} /\ faults = 0
        /\ hurt = {} /\ met = {} /\ mixed = {} /\ sole = {}
  BY DEF Init
<1>2. tenants \subseteq Calls /\ \A t \in tenants : \E a \in Addresses : home[a] = t
  BY <1>1
<1>3. seats \in Int
  <2>1. IsFiniteSet(tenants)
    BY <1>2, SetsAssumption, FS_Subset
  <2>2. Cardinality(tenants) \in Nat
    BY <2>1, FS_CardinalityType
  <2>3. seats = Cardinality(tenants)
    BY <1>1
  <2> QED BY <2>2, <2>3
<1>4. ASSUME NEW c \in Calls
      PROVE  /\ op[c] \in Op /\ op[c].at \in {"idle", "over"}
             /\ c \notin tenants => op[c] = NotBegun
             /\ c \in tenants => /\ op[c].at = "over" /\ op[c].kind = "register" /\ op[c].org = c
                                 /\ op[c].addr \in Addresses /\ home[op[c].addr] = c
  <2>1. NotBegun \in Op /\ NotBegun.at = "idle"
    BY DEF NotBegun, Op
  <2>2. CASE c \notin tenants
    BY <1>1, <2>1, <2>2
  <2>3. CASE c \in tenants
    <3> DEFINE x == CHOOSE a \in Addresses : home[a] = c
               k == [NotBegun EXCEPT !.kind = "register", !.at = "over", !.org = c, !.addr = x]
    <3>1. x \in Addresses /\ home[x] = c
      BY <1>2, <2>3
    <3>2. op[c] = k
      BY <1>1, <2>3
    <3>3. "register" \in Kinds /\ [NotBegun EXCEPT !.at = "over"] \in Op
      BY <2>1, StagesKnown, StageTyped
    <3> HIDE DEF x
    <3>4. k \in Op /\ k.at = "over" /\ k.kind = "register" /\ k.org = c /\ k.addr = x
      <4> DEFINE m == [NotBegun EXCEPT !.at = "over"]
      <4>1. k = [m EXCEPT !.kind = "register", !.org = c, !.addr = x] /\ m.at = "over"
        BY <2>1 DEF Op
      <4>2. m \in Op
        BY <3>3
      <4>3. "register" \in Kinds /\ x \in Addresses
        BY <3>1, <3>3
      <4> HIDE DEF m, k
      <4>4. k \in Op
        BY <4>1, <4>2, <4>3 DEF Op
      <4>5. k.kind = "register" /\ k.org = c /\ k.addr = x /\ k.at = m.at
        BY <4>1, <4>2 DEF Op
      <4> QED BY <4>1, <4>4, <4>5
    <3> QED BY <2>3, <3>1, <3>2, <3>4
  <2> QED BY <2>2, <2>3
<1>5. TypeOK
  <2>1. op \in [Calls -> Op]
    BY <1>1, <1>4
  <2>2. \A c \in Calls : op[c].at \in {"idle", "over"}
    BY <1>4
  <2>3. /\ account \in [Addresses -> [by : Calls \cup {None}, pw : Calls \cup {None}]]
        /\ admin \in [Addresses -> [by : Calls \cup {None}, org : Calls \cup {None},
                                    pw : Calls \cup {None}]]
        /\ row \in [Addresses -> Calls \cup {None}]
    BY <1>1
  <2> QED BY <1>1, <1>2, <1>3, <2>1, <2>2, <2>3 DEF TypeOK
<1>6. Shape
  <2>1. ASSUME NEW c \in Calls PROVE ShapeOf(c, op[c])
    <3>1. CASE c \in tenants
      <4>1. op[c].kind = "register" /\ op[c].at = "over" /\ op[c].org = c /\ op[c].addr \in Addresses
        BY <1>4, <3>1
      <4>2. "register" \in Kinds /\ "register" \notin Writers
        BY StagesKnown DEF Writers
      <4> QED BY <4>1, <4>2 DEF ShapeOf
    <3>2. CASE c \notin tenants
      BY <1>4, <3>2 DEF NotBegun, ShapeOf
    <3> QED BY <3>1, <3>2
  <2> QED BY <2>1 DEF Shape
<1>7. Named
  <2>1. ASSUME NEW a \in Addresses, home[a] # None
        PROVE  home[a] \in tenants /\ home[a] \in Calls /\ op[home[a]].addr = a
    <3>1. home[a] \in tenants /\ home[a] \in Calls
      BY <1>1, <2>1
    <3>2. home[op[home[a]].addr] = home[a] /\ op[home[a]].addr \in Addresses
      BY <1>4, <3>1
    <3> QED BY <1>1, <2>1, <3>1, <3>2
  <2>2. \A a \in Addresses : /\ row[a] = home[a] /\ account[a].by = home[a]
                             /\ admin[a].by = home[a] /\ admin[a].org = home[a]
                             /\ home[a] = None => admin[a] = NoLogin
    BY <1>1 DEF NoLogin
  <2>3. \A t \in tenants : op[t].at = "over" /\ op[t].kind = "register" /\ t \in Calls
    BY <1>2, <1>4
  <2> QED BY <2>1, <2>2, <2>3 DEF Named, Known
<1> QED BY <1>5, <1>6, <1>7 DEF TypeInv

\* What a step of the system is.
LEMMA NextIs ==
  ASSUME TypeInv, Next
  PROVE  \E c \in Calls : (\E k : Opens(c, k)) \/ Steps(c)
<1>1. PICK c \in Calls : Begins(c) \/ (\E t \in Calls : Purge(c, t)) \/ Steps(c)
  BY DEF Next, Steps
<1> QED BY <1>1, BeginOpens

\* Every step keeps the types and names.
LEMMA TypeStep == TypeInv /\ [Next]_vars => TypeInv'
<1> SUFFICES ASSUME TypeInv, [Next]_vars PROVE TypeInv'
  OBVIOUS
<1>1. CASE Next
  BY <1>1, NextIs, OpenInv, StepInv
<1>2. CASE UNCHANGED vars
  <2>1. TypeOK'
    BY <1>2 DEF TypeInv, TypeOK, vars, stores, histories
  <2>2. Shape' /\ Named'
    BY <1>2 DEF TypeInv, Shape, ShapeOf, Named, Known, vars, stores, histories
  <2> QED BY <2>1, <2>2 DEF TypeInv
<1> QED BY <1>1, <1>2

\* Every variable keeps its type, and a call is only ever at a stage of its own
\* kind, for any numbers of addresses, calls and faults.
THEOREM TypeCorrect == Spec => []TypeOK
<1>1. TypeInv => TypeOK
  BY DEF TypeInv
<1> QED BY <1>1, TypeInit, TypeStep, PTL DEF Spec

-----------------------------------------------------------------------------
(* Purges and the calls they meet. *)

\* What a step changes among the calls.
LEMMA MoveFacts ==
  ASSUME TypeInv, NEW c \in Busy, NEW k, Moves(c, k)
  PROVE  /\ op'[c] = k /\ \A d \in Calls \ {c} : op'[d] = op[d]
         /\ \A d \in Calls : /\ op'[d].kind = op[d].kind /\ op'[d].org = op[d].org
                             /\ op'[d].addr = op[d].addr
         /\ Busy' \subseteq Busy
  BY DEF Moves, TypeInv, TypeOK, Busy

\* Two calls on an address of both have met there, if one is a purge that the
\* other may disturb.
LEMMA CrossedAt ==
  ASSUME TypeInv, Crossed, NEW p \in Busy, NEW d \in Busy, op[p].kind = "purge",
         op[d].kind \in Makers
  PROVE  op[d].addr \in Addresses /\ (op[d].addr \in WorksOn(op[p]) => op[d].addr \in met)
<1>1. p # d /\ {op[p].kind, op[d].kind} \subseteq Disturbing /\ "purge" \in {op[p].kind, op[d].kind}
  BY DEF Makers, Disturbing
<1>2. WorksOn(op[p]) \cap WorksOn(op[d]) \subseteq met
  BY <1>1 DEF Crossed
<1>3. op[d].addr \in Addresses
  BY DEF TypeInv, Shape, ShapeOf, Busy, Makers
<1>4. op[d].addr \in WorksOn(op[d])
  BY <1>3, SetsAssumption DEF WorksOn
<1> QED BY <1>2, <1>3, <1>4

\* A step keeps track of where a purge and another call meet.
LEMMA CrossedStep ==
  ASSUME TypeInv, Crossed, NEW c \in Busy, NEW k, Moves(c, k), met \subseteq met'
  PROVE  Crossed'
<1> DEFINE clash(d, e) == LET kinds == {op[d].kind, op[e].kind}
                          IN  "purge" \in kinds /\ kinds \subseteq Disturbing
           reach(d) == WorksOn(op[d])
<1>0. /\ op'[c] = k /\ \A d \in Calls \ {c} : op'[d] = op[d]
      /\ \A d \in Calls : /\ op'[d].kind = op[d].kind /\ op'[d].org = op[d].org
                          /\ op'[d].addr = op[d].addr
      /\ Busy' \subseteq Busy /\ Busy \subseteq Calls
  BY MoveFacts DEF Busy
<1>1. \A d \in Busy : op[d].kind = "purge" => op[d].org \in Calls
  BY DEF TypeInv, Shape, ShapeOf, Busy
<1>2. ASSUME NEW d \in Busy, d # c PROVE reach(d)' = reach(d)
  BY <1>0, <1>1, <1>2 DEF WorksOn
<1>3. \/ reach(c)' = reach(c)
      \/ reach(c)' = WorksOn(k) /\ Meets(c, k) \subseteq met'
  <2>1. k.kind = op[c].kind /\ k.addr = op[c].addr /\ k.org = op[c].org
        /\ (k.emails = op[c].emails \/ Meets(c, k) \subseteq met')
    BY DEF Moves
  <2>2. op[c].kind = "purge" => op'[op[c].org].addr = op[op[c].org].addr
    BY <1>0, <1>1
  <2>3. reach(c)' = WorksOn(k)
    BY <1>0, <2>1, <2>2 DEF WorksOn
  <2>4. k.emails = op[c].emails => reach(c) = WorksOn(k)
    BY <2>1 DEF WorksOn
  <2> QED BY <2>1, <2>3, <2>4
<1>4. ASSUME NEW d \in Busy, d # c, clash(c, d)
      PROVE  reach(c)' \cap reach(d)' \subseteq met'
  <2>1. reach(d)' = reach(d)
    BY <1>2, <1>4
  <2>2. CASE reach(c)' = reach(c)
    <3>1. reach(c) \cap reach(d) \subseteq met
      BY <1>4 DEF Crossed
    <3> QED BY <2>1, <2>2, <3>1
  <2>3. CASE reach(c)' = WorksOn(k) /\ Meets(c, k) \subseteq met'
    <3>1. ASSUME NEW x \in WorksOn(k), x \in reach(d) PROVE x \in Meets(c, k)
      <4>1. d \in Workers(x) \ {c} /\ k.kind = op[c].kind
        BY <1>4, <3>1 DEF Workers, Moves
      <4> QED BY <1>4, <3>1, <4>1 DEF Meets
    <3> QED BY <2>1, <2>3, <3>1
  <2> QED BY <1>3, <2>2, <2>3
<1>5. ASSUME NEW d \in Busy', NEW e \in Busy', d # e, clash(d, e)'
      PROVE  reach(d)' \cap reach(e)' \subseteq met'
  <2>1. d \in Busy /\ e \in Busy /\ clash(d, e) /\ clash(e, d)
    BY <1>0, <1>5
  <2>2. CASE d = c
    BY <1>4, <1>5, <2>1, <2>2
  <2>3. CASE e = c
    BY <1>4, <1>5, <2>1, <2>3
  <2>4. CASE d # c /\ e # c
    <3>1. reach(d) \cap reach(e) \subseteq met
      BY <1>5, <2>1 DEF Crossed
    <3> QED BY <1>2, <2>1, <2>4, <3>1
  <2> QED BY <2>2, <2>3, <2>4
<1> QED BY <1>5 DEF Crossed

\* So does a call that begins.
LEMMA CrossedOpen ==
  ASSUME TypeInv, Crossed, NEW c \in Calls, NEW k, Opens(c, k)
  PROVE  Crossed'
<1> DEFINE clash(d, e) == LET kinds == {op[d].kind, op[e].kind}
                          IN  "purge" \in kinds /\ kinds \subseteq Disturbing
           reach(d) == WorksOn(op[d])
<1>0. /\ op[c].at = "idle" /\ op'[c] = k /\ \A d \in Calls \ {c} : op'[d] = op[d]
      /\ met \subseteq met' /\ Meets(c, k) \subseteq met'
  BY OpenTyped
<1>1. /\ \A d \in Busy : d # c /\ (op[d].kind = "purge" => op[d].org \in Calls \ {c})
      /\ k.kind = "purge" => k.org \in Calls \ {c}
      /\ \A d \in Busy' : d \in Busy \/ d = c
  BY <1>0 DEF TypeInv, Shape, ShapeOf, Busy, Opens
<1>2. ASSUME NEW d \in Busy PROVE reach(d)' = reach(d) /\ op'[d].kind = op[d].kind
  <2>1. op'[d] = op[d]
    BY <1>0, <1>1 DEF Busy
  <2>2. op[d].kind = "purge" => op'[op[d].org] = op[op[d].org]
    BY <1>0, <1>1
  <2> QED BY <2>1, <2>2 DEF WorksOn
<1>3. reach(c)' = WorksOn(k)
  BY <1>0, <1>1 DEF WorksOn
<1>4. ASSUME NEW d \in Busy, clash(c, d)' PROVE reach(c)' \cap reach(d)' \subseteq met'
  <2>1. ASSUME NEW x \in WorksOn(k), x \in reach(d) PROVE x \in Meets(c, k)
    <3>1. d \in Workers(x) \ {c}
      BY <1>1, <2>1 DEF Workers
    <3>2. "purge" \in {k.kind, op[d].kind} /\ {k.kind, op[d].kind} \subseteq Disturbing
      BY <1>0, <1>2, <1>4
    <3> QED BY <2>1, <3>1, <3>2 DEF Meets
  <2> QED BY <1>0, <1>2, <1>3, <2>1
<1>5. ASSUME NEW d \in Busy', NEW e \in Busy', d # e, clash(d, e)'
      PROVE  reach(d)' \cap reach(e)' \subseteq met'
  <2>1. clash(e, d)'
    BY <1>5
  <2>2. CASE d = c
    BY <1>1, <1>4, <1>5, <2>2
  <2>3. CASE e = c
    BY <1>1, <1>4, <1>5, <2>1, <2>3
  <2>4. CASE d # c /\ e # c
    <3>1. d \in Busy /\ e \in Busy /\ clash(d, e)
      BY <1>1, <1>2, <1>5, <2>4
    <3>2. reach(d) \cap reach(e) \subseteq met
      BY <1>5, <3>1 DEF Crossed
    <3> QED BY <1>0, <1>2, <3>1, <3>2
  <2> QED BY <2>2, <2>3, <2>4
<1> QED BY <1>5 DEF Crossed

-----------------------------------------------------------------------------
(* Nothing of an identity is taken away but by its own call and by a purge. *)

\* What another call has at an address where it met no purge outlasts the step,
\* unless that is a purge of its own.
LEMMA StoresSafe ==
  ASSUME KeptInv, NEW c \in Calls, Steps(c), NEW d \in Calls, d # c,
         NEW a \in Addresses, a \notin met, Known(d, a),
         op[c].kind = "purge" => a \notin op[c].emails /\ op[c].org # d
  PROVE  /\ row[a] = d => row'[a] = d
         /\ account[a].by = d => account'[a].by = d
         /\ d \in linked => d \in linked'
         /\ d \in tenants => d \in tenants'
<1> USE DEF KeptInv
<1>1. d # None
  BY SetsAssumption
<1>2. ASSUME NEW s \in {"off", "delete"}, At(c, s), op[c].addr = a PROVE op[c].held = c
  <2>1. c \in Busy /\ op[c].kind \in Makers /\ op[c].at = s
    BY <1>2, AtStage, KindAt DEF At
  <2> QED BY <1>2, <2>1 DEF Holding, HoldsOwn
<1>3. ASSUME row[a] = d PROVE row'[a] = d
  <2>1. CASE InsertRow(c)
    <3>1. op[c].addr # a => row'[a] = row[a]
      BY <2>1 DEF InsertRow, TypeInv, TypeOK
    <3> QED BY <1>1, <1>3, <2>1, <3>1 DEF InsertRow
  <2>2. CASE DropRow(c)
    BY <1>3, <2>2, RowGone DEF DropRow
  <2>3. CASE DeleteRow(c)
    BY <1>2, <1>3, <2>3, RowGone DEF DeleteRow
  <2>4. CASE RemoveRows(c)
    <3>1. op[c].kind = "purge"
      BY <2>4, AtStage, KindAt DEF RemoveRows, At
    <3> QED BY <1>3, <2>4, <3>1 DEF RemoveRows
  <2>5. CASE UNCHANGED row
    BY <1>3, <2>5
  <2> QED BY <2>1, <2>2, <2>3, <2>4, <2>5
      DEF Steps, MakeSteps, UndoSteps, PasswordSteps, PurgeSteps, Die, stores, CheckBlocked,
          CheckExists, CreateAccount, LinkRow, CountRow, CreateTenant, CreateAdmin, FindRow,
          DeleteAccount, GiveBack, DropTenant, SyncFind, Push, Verify, SavePassword, Bar,
          ListAdmins, ListRows, EachAccount, Refund, RemoveAdmins, RemoveTenant
<1>4. ASSUME account[a].by = d PROVE account'[a].by = d
  <2>1. CASE CreateAccount(c)
    <3>1. account[a] # NoAccount
      BY <1>1, <1>4 DEF NoAccount
    <3>2. account'[a] = account[a]
      BY <2>1, <3>1 DEF CreateAccount, TypeInv, TypeOK
    <3> QED BY <1>4, <3>2
  <2>2. CASE DeleteAccount(c)
    <3>1. op[c].held = d => op[c].addr = a
      BY <2>2, AtStage DEF DeleteAccount, At, ShapeOf, Known
    <3>2. op[c].held # d
      BY <1>2, <2>2, <3>1 DEF DeleteAccount
    <3> QED BY <1>4, <2>2, <3>2, AccountGone DEF DeleteAccount
  <2>3. CASE Push(c)
    BY <1>4, <2>3 DEF Push, TypeInv, TypeOK
  <2>4. CASE EachAccount(c)
    <3>1. /\ op[c].kind = "purge"
          /\ \A r \in op[c].todo : op[r].addr \in op[c].emails
      BY <2>4, AtStage, KindAt DEF EachAccount, At, ShapeOf
    <3>2. d \notin op[c].todo
      BY <3>1 DEF Known
    <3> QED BY <1>4, <2>4, <3>2, AccountGone DEF EachAccount
  <2>5. CASE UNCHANGED account
    BY <1>4, <2>5
  <2> QED BY <2>1, <2>2, <2>3, <2>4, <2>5
      DEF Steps, MakeSteps, UndoSteps, PasswordSteps, PurgeSteps, Die, stores, CheckBlocked,
          CheckExists, InsertRow, LinkRow, DropRow, CountRow, CreateTenant, CreateAdmin, FindRow,
          DeleteRow, GiveBack, DropTenant, SyncFind, Verify, SavePassword, Bar,
          ListAdmins, ListRows, RemoveRows, Refund, RemoveAdmins, RemoveTenant
<1>5. ASSUME d \in tenants PROVE d \in tenants'
  <2>1. CASE RemoveTenant(c)
    <3>1. op[c].kind = "purge"
      BY <2>1, AtStage, KindAt DEF RemoveTenant, At
    <3> QED BY <1>5, <2>1, <3>1 DEF RemoveTenant
  <2>2. CASE CreateTenant(c) \/ DropTenant(c)
    BY <1>5, <2>2 DEF CreateTenant, DropTenant
  <2>3. CASE UNCHANGED tenants
    BY <1>5, <2>3
  <2> QED BY <2>1, <2>2, <2>3
      DEF Steps, MakeSteps, UndoSteps, PasswordSteps, PurgeSteps, Die, stores, CheckBlocked,
          CheckExists, InsertRow, CreateAccount, LinkRow, DropRow, CountRow, CreateAdmin, FindRow,
          DeleteAccount, DeleteRow, GiveBack, SyncFind, Push, Verify, SavePassword, Bar,
          ListAdmins, ListRows, EachAccount, RemoveRows, Refund, RemoveAdmins
<1> QED BY <1>3, <1>4, <1>5, LinkStep

-----------------------------------------------------------------------------
(* What calls hold while they make a mailbox and take it back. *)

\* What another call does leaves a call what it holds.
LEMMA OtherHolds ==
  ASSUME KeptInv, NEW c \in Calls, Steps(c), NEW d \in Busy, d # c,
         op[d].kind \in Makers, op[d].addr \notin met
  PROVE  HoldsOwn(d)'
<1> USE DEF KeptInv
<1> DEFINE a == op[d].addr
<1>1. PICK k : c \in Busy /\ Moves(c, k)
  BY StepMoves
<1>2. op'[d] = op[d] /\ d \in Calls /\ op[d].at # "idle"
  BY <1>1, MoveFacts DEF Busy
<1>3. HoldsOwn(d)
  BY DEF Holding
<1>4. a \in Addresses
  BY <1>2 DEF TypeInv, Shape, ShapeOf, Makers
<1>5. op[c].kind = "purge" => a \notin op[c].emails /\ op[c].org # d
  <2>1. op[c].kind = "purge" => a \notin WorksOn(op[c])
    BY <1>1, CrossedAt
  <2> QED BY <1>4, <2>1, SetsAssumption DEF WorksOn
<1>6. /\ row[a] = d => row'[a] = d
      /\ account[a].by = d => account'[a].by = d
      /\ d \in linked => d \in linked'
      /\ d \in tenants => d \in tenants'
  BY <1>2, <1>4, <1>5, StoresSafe DEF Known
<1> QED BY <1>2, <1>3, <1>6 DEF HoldsOwn

\* Nor does a call lose what it holds at its own steps, until it is past it.
LEMMA OwnHolds ==
  ASSUME KeptInv, NEW c \in Calls, Steps(c), c \in Busy', op[c].kind \in Makers,
         op[c].addr \notin met
  PROVE  HoldsOwn(c)'
<1> USE DEF KeptInv
<1> DEFINE k == op[c]
           a == k.addr
<1>1. c \in Busy /\ k \in Op
  BY StepMoves DEF TypeInv, TypeOK
<1>2. HoldsOwn(c) /\ a \in Addresses /\ c # None
  BY <1>1, SetsAssumption DEF Holding, TypeInv, Shape, ShapeOf, Makers, Busy
<1>3. /\ row \in [Addresses -> Calls \cup {None}]
      /\ account \in [Addresses -> [by : Calls \cup {None}, pw : Calls \cup {None}]]
  BY DEF TypeInv, TypeOK
<1>4. ASSUME NEW s, Goto(c, s)
      PROVE  op'[c].at = s /\ op'[c].addr = a /\ op'[c].held = k.held
  BY <1>4, Gone
<1>5. ASSUME NEW s, Goto(c, s),
             s \notin {"account", "link", "drop", "count", "tenant", "admin", "find", "off", "delete"}
      PROVE  HoldsOwn(c)'
  BY <1>4, <1>5 DEF HoldsOwn
<1>6. ~Over(c)
  BY Gone DEF Over, Busy
<1>7. CASE CheckBlocked(c)
  BY <1>5, <1>6, <1>7 DEF CheckBlocked
<1>8. CASE CheckExists(c)
  BY <1>5, <1>6, <1>8 DEF CheckExists, Is, Makers
<1>9. CASE InsertRow(c)
  <2>1. row'[a] = c /\ Goto(c, "account")
    BY <1>2, <1>3, <1>6, <1>9 DEF InsertRow
  <2> QED BY <1>4, <2>1 DEF HoldsOwn
<1>10. CASE CreateAccount(c)
  <2>1. row'[a] = c
    BY <1>2, <1>10 DEF CreateAccount, At, HoldsOwn
  <2>2. CASE Goto(c, "link") /\ account' = [account EXCEPT ![a] = [by |-> c, pw |-> c]]
    BY <1>2, <1>3, <1>4, <2>1, <2>2 DEF HoldsOwn
  <2>3. CASE Goto(c, "drop")
    BY <1>4, <2>1, <2>3 DEF HoldsOwn
  <2> QED BY <1>10, <2>2, <2>3 DEF CreateAccount
<1>11. CASE LinkRow(c)
  <2>1. row'[a] = c /\ account'[a].by = c
    BY <1>2, <1>11 DEF LinkRow, At, HoldsOwn
  <2>2. CASE Goto(c, "count") /\ linked' = linked \cup {c}
    BY <1>4, <2>1, <2>2 DEF HoldsOwn
  <2>3. CASE Goto(c, "drop")
    BY <1>4, <2>1, <2>3 DEF HoldsOwn
  <2> QED BY <1>11, <2>2, <2>3 DEF LinkRow
<1>12. CASE DropRow(c)
  BY <1>6, <1>12 DEF DropRow
<1>13. CASE CountRow(c)
  <2>1. row'[a] = c /\ account'[a].by = c /\ c \in linked'
    BY <1>2, <1>13 DEF CountRow, At, HoldsOwn
  <2> QED BY <1>4, <1>13, <2>1 DEF CountRow, HoldsOwn
<1>14. CASE CreateTenant(c)
  <2>1. row'[a] = c /\ account'[a].by = c /\ c \in linked'
    BY <1>2, <1>14 DEF CreateTenant, At, HoldsOwn
  <2> QED BY <1>4, <1>14, <2>1 DEF CreateTenant, HoldsOwn
<1>15. CASE CreateAdmin(c)
  <2>1. row'[a] = c /\ account'[a].by = c /\ c \in linked'
    BY <1>2, <1>15 DEF CreateAdmin, At, HoldsOwn
  <2>2. Goto(c, "find")
    BY <1>6, <1>15 DEF CreateAdmin, Is, Makers
  <2> QED BY <1>4, <2>1, <2>2 DEF HoldsOwn
<1>16. CASE FindRow(c)
  <2>1. row[a] = c /\ account[a].by = c /\ c \in linked
    BY <1>2, <1>16 DEF FindRow, At, HoldsOwn
  <2>2. op' = [op EXCEPT ![c] = [k EXCEPT !.held = c, !.at = "off"]]
    BY <1>2, <1>16, <2>1 DEF FindRow, Set
  <2>3. op'[c] = [k EXCEPT !.held = c, !.at = "off"]
    BY <2>2 DEF TypeInv, TypeOK
  <2>4. op'[c].at = "off" /\ op'[c].addr = a /\ op'[c].held = c
    BY <1>1, <2>3 DEF Op
  <2>5. row'[a] = c /\ account'[a].by = c /\ c \in linked'
    BY <1>16, <2>1 DEF FindRow, stores
  <2> QED BY <2>4, <2>5 DEF HoldsOwn
<1>17. CASE DeleteAccount(c)
  <2>1. row'[a] = c /\ k.held = c
    BY <1>2, <1>17 DEF DeleteAccount, At, HoldsOwn
  <2> QED BY <1>4, <1>17, <2>1 DEF DeleteAccount, HoldsOwn
<1>18. CASE DeleteRow(c)
  BY <1>5, <1>18 DEF DeleteRow
<1>19. CASE GiveBack(c)
  BY <1>5, <1>6, <1>19 DEF GiveBack, Undone
<1>20. CASE DropTenant(c)
  BY <1>6, <1>20 DEF DropTenant
<1>21. ~PasswordSteps(c) /\ ~PurgeSteps(c) /\ ~Die(c)
  <2>1. ~PasswordSteps(c)
    BY AtStage, KindAt DEF PasswordSteps, SyncFind, Push, Verify, SavePassword, At, Makers, Writers
  <2>2. ~PurgeSteps(c)
    BY AtStage, KindAt DEF PurgeSteps, Bar, ListAdmins, ListRows, EachAccount, RemoveRows,
                           Refund, RemoveAdmins, RemoveTenant, At, Makers
  <2> QED BY <1>6, <2>1, <2>2 DEF Die
<1> QED BY <1>7, <1>8, <1>9, <1>10, <1>11, <1>12, <1>13, <1>14, <1>15, <1>16, <1>17, <1>18,
           <1>19, <1>20, <1>21 DEF Steps, MakeSteps, UndoSteps

\* So every call that makes a mailbox or takes it back still has it.
LEMMA HoldingStep ==
  ASSUME KeptInv, NEW c \in Calls, Steps(c)
  PROVE  Holding'
<1>1. PICK k : c \in Busy /\ Moves(c, k)
  BY StepMoves DEF KeptInv
<1>2. met \subseteq met'
  BY HistoryStep DEF KeptInv
<1>3. ASSUME NEW d \in Busy', op'[d].kind \in Makers, op'[d].addr \notin met'
      PROVE  HoldsOwn(d)'
  <2>1. d \in Busy /\ d \in Calls /\ op[d].kind \in Makers /\ op[d].addr \notin met
    BY <1>1, <1>2, <1>3, MoveFacts DEF KeptInv, Busy
  <2>2. CASE d = c
    BY <1>3, <2>1, <2>2, OwnHolds
  <2>3. CASE d # c
    BY <2>1, <2>3, OtherHolds
  <2> QED BY <2>2, <2>3
<1> QED BY <1>3 DEF Holding

-----------------------------------------------------------------------------
(* Whom a purge takes away. *)

\* A purge has removed the administrators when it comes to the organisation, and
\* ends by deleting that.
LEMMA PurgeEnds ==
  ASSUME TypeInv, NEW c \in Calls, PurgeSteps(c)
  PROVE  /\ op'[c].at = "org" => RemoveAdmins(c)
         /\ op'[c].at = "over" => RemoveTenant(c)
<1> DEFINE k == op[c]
<1>1. k \in Op /\ op \in [Calls -> Op]
  BY DEF TypeInv, TypeOK
<1>2. ASSUME NEW s, Goto(c, s) PROVE op'[c].at = s
  BY <1>2, Gone
<1>3. CASE ListAdmins(c)
  <2> DEFINE listed == AdminsOf(k.org)
             l == [k EXCEPT !.emails = listed, !.at = "rows"]
  <2>1. op' = [op EXCEPT ![c] = l]
    BY <1>3 DEF ListAdmins, Set
  <2>2. op'[c] = l
    BY <1>1, <2>1
  <2> HIDE DEF listed
  <2>3. l.at = "rows"
    BY <1>1 DEF Op
  <2> QED BY <2>2, <2>3
<1>4. CASE ListRows(c)
  <2> DEFINE found == {row[a] : a \in k.emails} \ {None}
             l == [k EXCEPT !.found = found, !.todo = found \cap linked, !.at = "each"]
  <2>1. op' = [op EXCEPT ![c] = l]
    BY <1>4 DEF ListRows, Set
  <2>2. op'[c] = l
    BY <1>1, <2>1
  <2> HIDE DEF found
  <2>3. l.at = "each"
    BY <1>1 DEF Op
  <2> QED BY <2>2, <2>3
<1>5. CASE EachAccount(c)
  <2>1. CASE Goto(c, "remove")
    BY <1>2, <2>1
  <2>2. CASE \E r \in k.todo : Set(c, [k EXCEPT !.todo = @ \ {r}])
    <3>1. PICK r \in k.todo : op' = [op EXCEPT ![c] = [k EXCEPT !.todo = @ \ {r}]]
      BY <2>2 DEF Set
    <3>2. op'[c] = [k EXCEPT !.todo = @ \ {r}]
      BY <1>1, <3>1
    <3>3. op'[c].at = "each"
      BY <1>1, <1>5, <3>2 DEF Op, EachAccount, At
    <3> QED BY <3>3
  <2> QED BY <1>5, <2>1, <2>2 DEF EachAccount
<1>6. CASE Bar(c) \/ RemoveRows(c) \/ Refund(c) \/ RemoveAdmins(c) \/ RemoveTenant(c)
  BY <1>2, <1>6 DEF Bar, RemoveRows, Refund, RemoveAdmins, RemoveTenant, Over
<1> QED BY <1>3, <1>4, <1>5, <1>6 DEF PurgeSteps

\* A purge under way takes the steps of a purge, or dies.
LEMMA PurgeGoesOn ==
  ASSUME TypeInv, NEW c \in Busy, Steps(c), op[c].kind = "purge"
  PROVE  PurgeSteps(c) \/ Die(c)
<1>1. c \in Calls /\ op[c].at \notin {"idle", "over"}
  BY DEF Busy
<1>2. ~MakeSteps(c)
  BY <1>1, AtStage, KindAt
     DEF MakeSteps, CheckBlocked, CheckExists, InsertRow, CreateAccount, LinkRow, DropRow,
         CountRow, CreateTenant, CreateAdmin, At, Makers
<1>3. ~UndoSteps(c)
  BY <1>1, AtStage, KindAt
     DEF UndoSteps, FindRow, DeleteAccount, DeleteRow, GiveBack, DropTenant, At, Makers
<1>4. ~PasswordSteps(c)
  BY <1>1, AtStage, KindAt
     DEF PasswordSteps, SyncFind, Push, Verify, SavePassword, At, Writers
<1> QED BY <1>2, <1>3, <1>4 DEF Steps

\* A purge lists only those of its organisation, and leaves none of them.
LEMMA PurgingStep ==
  ASSUME KeptInv, NEW c \in Calls, Steps(c)
  PROVE  Purging'
<1> USE DEF KeptInv
<1>1. PICK k : c \in Busy /\ Moves(c, k)
  BY StepMoves
<1>2. /\ op'[c] = k /\ \A d \in Calls \ {c} : op'[d] = op[d]
      /\ \A d \in Calls : op'[d].kind = op[d].kind /\ op'[d].org = op[d].org
      /\ Busy' \subseteq Busy /\ met \subseteq met' /\ Busy \subseteq Calls
  BY <1>1, MoveFacts, HistoryStep DEF Busy
<1>3. ASSUME NEW a \in Addresses, SignedUp(a)', a \notin met'
      PROVE  \/ SignedUp(a) /\ admin'[a].org = admin[a].org
             \/ /\ op[c].at = "admin" /\ op[c].kind = "register"
                /\ a = op[c].addr /\ admin'[a].org = c
  <2>1. CASE admin[a] # NoLogin /\ admin'[a].by = admin[a].by /\ admin'[a].org = admin[a].org
    <3>1. admin[a].by \in Calls
      BY <2>1 DEF TypeInv, Named
    <3> QED BY <1>2, <1>3, <2>1, <3>1 DEF SignedUp
  <2>2. CASE op[c].at = "admin" /\ a = op[c].addr /\ admin'[a].by = c /\ admin'[a].org = op[c].org
    <3>1. op[c].kind = "register"
      BY <1>2, <1>3, <2>2 DEF SignedUp
    <3>2. op[c].org = c
      BY <2>2, <3>1 DEF TypeInv, Shape, ShapeOf
    <3> QED BY <2>2, <3>1, <3>2
  <2> QED BY <1>3, <2>1, <2>2, AdminStep DEF SignedUp
<1>4. ASSUME NEW p \in Busy, op[p].kind = "purge", op[c].kind = "register", op[c].addr \notin met
      PROVE  op[c].addr \notin op[p].emails /\ op[p].org # c
  <2>1. op[c].addr \notin WorksOn(op[p]) /\ op[c].addr \in Addresses
    BY <1>1, <1>4, CrossedAt DEF Makers
  <2> QED BY <1>4, <2>1, SetsAssumption DEF WorksOn
<1>5. ASSUME NEW p \in Busy', op'[p].kind = "purge", NEW a \in Addresses, a \notin met', SignedUp(a)'
      PROVE  /\ a \in op'[p].emails => admin'[a].org = op'[p].org
             /\ op'[p].at = "org" => admin'[a].org # op'[p].org
  <2>1. p \in Busy /\ p \in Calls /\ op[p].kind = "purge" /\ a \notin met /\ op'[p].org = op[p].org
    BY <1>2, <1>5
  <2>2. CASE p # c
    <3>1. op'[p] = op[p]
      BY <1>2, <2>1, <2>2
    <3>2. CASE SignedUp(a) /\ admin'[a].org = admin[a].org
      BY <2>1, <3>1, <3>2, <1>5 DEF Purging
    <3>3. CASE op[c].kind = "register" /\ a = op[c].addr /\ admin'[a].org = c
      BY <1>4, <2>1, <3>1, <3>3
    <3> QED BY <1>3, <1>5, <3>2, <3>3
  <2>3. CASE p = c
    <3>1. SignedUp(a) /\ admin'[a].org = admin[a].org
      <4>1. op[c].kind # "register"
        BY <2>1, <2>3
      <4> QED BY <1>3, <1>5, <4>1
    <3>2. a \in op'[c].emails => admin[a].org = op[c].org
      <4>1. CASE k.emails = op[c].emails
        BY <1>2, <2>1, <2>3, <3>1, <4>1 DEF Purging
      <4>2. CASE k.emails = AdminsOf(op[c].org)
        BY <1>2, <4>2 DEF AdminsOf
      <4> QED BY <1>1, <4>1, <4>2 DEF Moves
    <3>3. op'[c].at = "org" => admin'[a].org # op[c].org
      <4>1. PurgeSteps(c)
        <5>1. ~Die(c)
          BY <1>5, <2>3, Gone DEF Die, Over, Busy
        <5> QED BY <1>1, <2>1, <2>3, <5>1, PurgeGoesOn
      <4>2. op'[c].at = "org" => RemoveAdmins(c)
        BY <4>1, PurgeEnds
      <4>3. RemoveAdmins(c) => admin[a].org # op[c].org
        BY <1>5 DEF RemoveAdmins, SignedUp
      <4> QED BY <3>1, <4>2, <4>3
    <3> QED BY <2>1, <2>3, <3>1, <3>2, <3>3
  <2> QED BY <2>2, <2>3
<1>6. \A p \in Busy' : op'[p].emails \subseteq Addresses
  <2>1. op' \in [Calls -> Op]
    BY <1>1, MoveTyped
  <2> QED BY <1>2, <2>1 DEF Op
<1> QED BY <1>5, <1>6 DEF Purging

\* The step that makes an administrator leaves the rest alone.
LEMMA AdminAlone ==
  ASSUME TypeInv, NEW c \in Calls, Steps(c), At(c, "admin")
  PROVE  UNCHANGED <<row, linked, account, tenants>>
<1> QED
  BY DEF Steps, MakeSteps, UndoSteps, PasswordSteps, PurgeSteps, Die, stores, At, CheckBlocked,
         CheckExists, InsertRow, CreateAccount, LinkRow, DropRow, CountRow, CreateTenant,
         CreateAdmin, FindRow, DeleteAccount, DeleteRow, GiveBack, DropTenant, SyncFind, Push,
         Verify, SavePassword, Bar, ListAdmins, ListRows, EachAccount, RemoveRows, Refund,
         RemoveAdmins, RemoveTenant

\* Whoever signed up, and no purge endangers, has all of its identity after a step.
LEMMA KeptStep ==
  ASSUME KeptInv, NEW c \in Calls, Steps(c)
  PROVE  Kept'
<1> USE DEF KeptInv
<1>1. PICK k : c \in Busy /\ Moves(c, k)
  BY StepMoves
<1>2. /\ op'[c] = k /\ \A d \in Calls \ {c} : op'[d] = op[d]
      /\ \A d \in Calls : op'[d].kind = op[d].kind /\ op'[d].org = op[d].org
      /\ Busy' \subseteq Busy /\ met \subseteq met' /\ Busy \subseteq Calls
  BY <1>1, MoveFacts, HistoryStep DEF Busy
<1>3. ASSUME NEW a \in Addresses, a \notin met', SignedUp(a)', ~Endangered(admin[a].org)',
             admin[a] # NoLogin, admin'[a].by = admin[a].by, admin'[a].org = admin[a].org
      PROVE  Has(admin[a].by, a)'
  <2> DEFINE d == admin[a].by
  <2>1. d \in Calls /\ Known(d, a) /\ op[d].at = "over" /\ op[d].addr = a
    BY <1>3 DEF TypeInv, Named, Known
  <2>2. SignedUp(a) /\ admin[a].org = d /\ d # c /\ a \notin met /\ op[d].kind = "register"
    <3>1. op'[d].kind = "register"
      BY <1>3 DEF SignedUp
    <3> QED BY <1>1, <1>2, <1>3, <2>1, <3>1 DEF SignedUp, TypeInv, Named, Busy
  <2>3. CASE ~Endangered(d)
    <3>1. op[c].kind = "purge" => a \notin op[c].emails /\ op[c].org # d
      BY <1>1, <2>2, <2>3 DEF Purging, Endangered
    <3>2. Has(d, a)
      BY <2>2, <2>3 DEF Kept
    <3>3. /\ row'[a] = d /\ account'[a].by = d /\ d \in linked' /\ d \in tenants'
      BY <2>1, <2>2, <3>1, <3>2, StoresSafe DEF Has
    <3> QED BY <1>3, <3>3 DEF Has
  <2>4. CASE Endangered(d)
    <3>1. PICK p \in Busy : op[p].kind = "purge" /\ op[p].org = d
      BY <2>4 DEF Endangered
    <3>2. p \notin Busy'
      BY <1>2, <1>3, <2>2, <3>1 DEF Endangered
    <3>3. p = c /\ op'[c].at = "over"
      <4>1. p = c
        BY <1>2, <3>2 DEF Busy
      <4>2. \A kind \in Kinds : "idle" \notin StagesOf[kind]
        BY DEF Kinds, StagesOf, Making, Undoing
      <4>3. k.kind \in Kinds
        BY <1>1 DEF Moves, TypeInv, Shape, ShapeOf, Busy
      <4> QED BY <1>1, <1>2, <3>2, <4>1, <4>2, <4>3 DEF Busy, Moves
    <3>4. CASE Die(c)
      <4>1. WorksOn(op[c]) \subseteq met'
        BY <3>1, <3>3, <3>4 DEF Die
      <4>2. a \in WorksOn(op[c])
        BY <2>1, <3>1, <3>3, SetsAssumption DEF WorksOn
      <4> QED BY <1>3, <4>1, <4>2
    <3>5. CASE PurgeSteps(c)
      <4>1. op[c].at = "org"
        BY <3>3, <3>5, PurgeEnds DEF RemoveTenant, At
      <4> QED BY <1>1, <1>3, <2>2, <3>1, <3>3, <4>1 DEF Purging
    <3> QED BY <1>1, <3>1, <3>3, <3>4, <3>5, PurgeGoesOn
  <2> QED BY <2>3, <2>4
<1>4. ASSUME NEW a \in Addresses, a \notin met', SignedUp(a)',
             op[c].at = "admin", a = op[c].addr, admin'[a].by = c
      PROVE  Has(admin[a].by, a)'
  <2>1. op[c].kind \in Makers /\ a \notin met
    BY <1>2, <1>4 DEF SignedUp, Makers
  <2>2. row[a] = c /\ account[a].by = c /\ c \in linked /\ c \in tenants
    BY <1>1, <1>4, <2>1 DEF Holding, HoldsOwn
  <2>3. row'[a] = c /\ account'[a].by = c /\ c \in linked' /\ c \in tenants'
    BY <1>4, <2>2, AdminAlone DEF At
  <2> QED BY <1>4, <2>3 DEF Has
<1>5. ASSUME NEW a \in Addresses, a \notin met', SignedUp(a)', ~Endangered(admin[a].org)'
      PROVE  Has(admin[a].by, a)'
  <2>1. admin'[a] # NoLogin
    BY <1>5 DEF SignedUp
  <2> QED BY <1>3, <1>4, <1>5, <2>1, AdminStep
<1> QED BY <1>5 DEF Kept

-----------------------------------------------------------------------------
(* The inductive invariant, and what follows from it. *)

\* A beginning call disturbs nothing.
LEMMA KeptOpen ==
  ASSUME KeptInv, NEW c \in Calls, NEW k, Opens(c, k)
  PROVE  KeptInv'
<1> USE DEF KeptInv
<1>1. /\ op[c].at = "idle" /\ op'[c] = k /\ \A d \in Calls \ {c} : op'[d] = op[d]
      /\ met \subseteq met' /\ UNCHANGED stores
  BY OpenTyped DEF Opens, Begin
<1>2. /\ k.at \in {"check", "exists", "sync", "verify", "bar"} /\ k.emails = {}
      /\ \A d \in Busy : d \in Calls /\ d # c /\ op'[d] = op[d]
      /\ \A d \in Busy' : d # c => d \in Busy
  BY <1>1 DEF Opens, Busy
<1>3. ASSUME NEW a \in Addresses, SignedUp(a)' PROVE SignedUp(a) /\ admin'[a] = admin[a]
  <2>1. admin'[a] = admin[a] /\ admin[a] # NoLogin
    BY <1>1, <1>3 DEF SignedUp, stores
  <2>2. admin[a].by \in Calls /\ op[admin[a].by].at = "over"
    BY <2>1 DEF TypeInv, Named
  <2>3. op'[admin[a].by] = op[admin[a].by]
    BY <1>1, <2>2
  <2> QED BY <1>3, <2>1, <2>3 DEF SignedUp
<1>4. Holding'
  <2>1. ASSUME NEW d \in Busy', op'[d].kind \in Makers, op'[d].addr \notin met'
        PROVE  HoldsOwn(d)'
    <3>1. CASE d = c
      BY <1>1, <1>2, <3>1 DEF HoldsOwn
    <3>2. CASE d # c
      BY <1>1, <1>2, <2>1, <3>2 DEF Holding, HoldsOwn, stores
    <3> QED BY <3>1, <3>2
  <2> QED BY <2>1 DEF Holding
<1>5. Purging'
  <2>1. ASSUME NEW p \in Busy', op'[p].kind = "purge", NEW a \in Addresses, a \notin met',
               SignedUp(a)'
        PROVE  /\ a \in op'[p].emails => admin'[a].org = op'[p].org
               /\ op'[p].at = "org" => admin'[a].org # op'[p].org
    BY <1>1, <1>2, <1>3, <2>1 DEF Purging
  <2>2. \A p \in Busy' : op'[p].emails \subseteq Addresses
    BY OpenTyped DEF Busy, Op
  <2> QED BY <2>1, <2>2 DEF Purging
<1>6. Kept'
  <2>1. ASSUME NEW a \in Addresses, a \notin met', SignedUp(a)', ~Endangered(admin[a].org)'
        PROVE  Has(admin[a].by, a)'
    <3>1. a \notin met /\ SignedUp(a) /\ admin'[a] = admin[a]
      BY <1>1, <1>3, <2>1
    <3>2. ~Endangered(admin[a].org)
      <4>1. \A p \in Busy : p \in Busy'
        BY <1>2 DEF Busy
      <4> QED BY <1>2, <2>1, <3>1, <4>1 DEF Endangered
    <3>3. Has(admin[a].by, a)
      BY <3>1, <3>2 DEF Kept
    <3> QED BY <1>1, <3>1, <3>3 DEF Has, stores
  <2> QED BY <2>1 DEF Kept
<1> QED BY <1>4, <1>5, <1>6, OpenInv, CrossedOpen

\* At first nobody works on anything, and every identity is complete.
LEMMA KeptInit == Init => KeptInv
<1> SUFFICES ASSUME Init PROVE KeptInv
  OBVIOUS
<1>1. TypeInv
  BY TypeInit
<1>2. Busy = {}
  <2>1. ASSUME NEW c \in Calls PROVE op[c].at \in {"idle", "over"}
    <3>1. op[c].at = "idle" \/ op[c].at = "over"
      <4>1. NotBegun.at = "idle" /\ NotBegun \in Op
        BY DEF NotBegun, Op
      <4>2. \A x : [NotBegun EXCEPT !.kind = "register", !.at = "over", !.org = c, !.addr = x].at
                     = "over"
        BY DEF NotBegun
      <4>3. \/ op[c] = NotBegun
            \/ \E x : op[c] = [NotBegun EXCEPT !.kind = "register", !.at = "over", !.org = c,
                                               !.addr = x]
        BY DEF Init
      <4> QED BY <4>1, <4>2, <4>3
    <3> QED BY <3>1
  <2> QED BY <2>1 DEF Busy
<1>3. Kept
  <2>1. ASSUME NEW a \in Addresses, admin[a] # NoLogin PROVE Has(admin[a].by, a)
    <3>1. PICK home \in [Addresses -> Calls \cup {None}] :
            /\ tenants = {home[x] : x \in Addresses} \ {None}
            /\ row = home /\ linked = tenants
            /\ account = [x \in Addresses |-> [by |-> home[x], pw |-> home[x]]]
            /\ admin = [x \in Addresses |-> [by |-> home[x], org |-> home[x], pw |-> home[x]]]
      BY DEF Init
    <3>2. home[a] # None /\ admin[a].by = home[a] /\ account[a].by = home[a]
      BY <2>1, <3>1 DEF NoLogin
    <3> QED BY <3>1, <3>2 DEF Has
  <2> QED BY <2>1 DEF Kept, SignedUp
<1> QED BY <1>1, <1>2, <1>3 DEF KeptInv, Crossed, Holding, Purging

\* Every step keeps the invariant.
LEMMA KeptNext == KeptInv /\ [Next]_vars => KeptInv'
<1> SUFFICES ASSUME KeptInv, [Next]_vars PROVE KeptInv'
  OBVIOUS
<1>1. TypeInv'
  BY TypeStep DEF KeptInv
<1>2. CASE Next
  <2>1. PICK c \in Calls : (\E k : Opens(c, k)) \/ Steps(c)
    BY <1>2, NextIs DEF KeptInv
  <2>2. CASE \E k : Opens(c, k)
    BY <2>2, KeptOpen
  <2>3. CASE Steps(c)
    <3>1. Crossed'
      BY <2>3, StepMoves, HistoryStep, CrossedStep DEF KeptInv
    <3> QED BY <1>1, <2>3, <3>1, HoldingStep, PurgingStep, KeptStep DEF KeptInv
  <2> QED BY <2>1, <2>2, <2>3
<1>3. CASE UNCHANGED vars
  <2>1. Crossed'
    BY <1>3 DEF KeptInv, Crossed, Busy, WorksOn, vars, stores, histories
  <2>2. Holding'
    BY <1>3 DEF KeptInv, Holding, HoldsOwn, Busy, vars, stores, histories
  <2>3. Purging'
    BY <1>3 DEF KeptInv, Purging, SignedUp, Busy, vars, stores, histories
  <2>4. Kept'
    BY <1>3 DEF KeptInv, Kept, SignedUp, Endangered, Has, Busy, vars, stores, histories
  <2> QED BY <1>1, <2>1, <2>2, <2>3, <2>4 DEF KeptInv
<1> QED BY <1>2, <1>3

\* Whoever signed up keeps mailbox, account and organisation until a purge works
\* on the name: no password check, other sign-up, roll-back, reset, failure or
\* death of a call takes one of them away, for any numbers of names and calls.
THEOREM IdentityHeld == Spec => []IdentityKept
<1>1. KeptInv => IdentityKept
  <2> SUFFICES ASSUME KeptInv, NEW a \in Addresses \ met, SignedUp(a), ~Purged(a)
               PROVE  LET c == admin[a].by
                      IN  /\ row[a] = c /\ c \in linked /\ account[a].by = c
                          /\ admin[a].org = c /\ c \in tenants
    BY DEF IdentityKept
  <2> DEFINE c == admin[a].by
  <2>1. c \in Calls /\ op[c].addr = a /\ admin[a].org = c
    BY DEF KeptInv, TypeInv, Named, Known, SignedUp
  <2>2. ~Endangered(c)
    <3>1. ASSUME NEW p \in Busy, op[p].kind = "purge", op[p].org = c PROVE FALSE
      <4>1. a \in WorksOn(op[p])
        BY <2>1, <3>1, SetsAssumption DEF WorksOn
      <4> QED BY <3>1, <4>1 DEF Purged, Workers
    <3> QED BY <3>1 DEF Endangered
  <2>3. Has(c, a)
    BY <2>1, <2>2 DEF KeptInv, Kept
  <2> QED BY <2>1, <2>3 DEF Has
<1> QED BY <1>1, KeptInit, KeptNext, PTL DEF Spec

-----------------------------------------------------------------------------
(* Nothing is left behind. *)

\* The sign-up r made the administrator at an address.
SignedBy(a, r) == admin[a] # NoLogin /\ admin[a].by = r /\ op[r].kind = "register"

\* Whatever is at an address belongs to a call under way or to who signed up there.
Owned ==
    \A a \in Sound :
        /\ row[a] # None => row[a] \in Busy \/ SignedBy(a, row[a])
        /\ account[a].by # None => account[a].by \in Busy \/ SignedBy(a, account[a].by)
        /\ \A t \in tenants : op[t].addr = a => t \in Busy \/ SignedBy(a, t) \/ Endangered(t)

\* Only calls that make mailboxes made them; a reset found one before it pushes; an
\* account that nobody made is none.
MadeByMakers ==
    /\ \A a \in Addresses : /\ row[a] # None => op[row[a]].kind \in Makers
                            /\ account[a].by # None => op[account[a].by].kind \in Makers
                            /\ account[a].by = None => account[a] = NoAccount
    /\ \A c \in Calls : op[c].at = "push" => op[c].held \in Calls

\* What a call that makes a mailbox has not made yet, or has taken back.
LacksOwn(d) ==
    LET k == op[d]
        a == k.addr
    IN  /\ k.at \in {"check", "exists", "row", "uncount", "untenant"} => row[a] # d
        /\ k.at \in {"check", "exists", "row", "account", "drop", "delete", "uncount", "untenant"}
              => account[a].by # d
        /\ k.at \in {"check", "exists", "row", "account", "link", "drop", "count", "tenant"}
              => d \notin tenants
Lacking == \A d \in Busy : op[d].kind \in Makers /\ op[d].addr \in Sound => LacksOwn(d)

\* How far purge p is with an address whose administrator it is to remove.
TakesAway(p, a) ==
    LET k == op[p]
    IN  /\ k.at \in {"bar", "list", "rows"} => Has(k.org, a)
        /\ k.at \in {"rows", "each", "remove", "refund", "admins"} => a \in k.emails
        /\ k.at = "each" => account[a].by \in k.todo \cup {None}
        /\ k.at \in {"remove", "refund", "admins"} => account[a].by = None
        /\ k.at \in {"refund", "admins"} => row[a] = None
Taking ==
    \A p \in Busy : op[p].kind = "purge" =>
        \A a \in Sound : SignedBy(a, op[p].org) => TakesAway(p, a)

OwnedInv == KeptInv /\ Owned /\ MadeByMakers /\ Lacking /\ Taking

\* Nothing becomes sound again, and what calls know stays known.
LEMMA StillSound ==
  ASSUME TypeInv, NEW c \in Calls, Steps(c)
  PROVE  Sound' \subseteq Sound /\ Sound \subseteq Addresses
  BY HistoryStep DEF Sound

\* A call that makes a mailbox makes it, takes it back or dies.
LEMMA MakerGoesOn ==
  ASSUME TypeInv, NEW c \in Busy, Steps(c), op[c].kind \in Makers
  PROVE  MakeSteps(c) \/ UndoSteps(c) \/ Die(c)
<1>1. c \in Calls /\ op[c].at \notin {"idle", "over"}
  BY DEF Busy
<1>2. ~PasswordSteps(c)
  BY <1>1, AtStage, KindAt
     DEF PasswordSteps, SyncFind, Push, Verify, SavePassword, At, Makers, Writers
<1>3. ~PurgeSteps(c)
  BY <1>1, AtStage, KindAt
     DEF PurgeSteps, Bar, ListAdmins, ListRows, EachAccount, RemoveRows, Refund, RemoveAdmins,
         RemoveTenant, At, Makers
<1> QED BY <1>2, <1>3 DEF Steps

\* How such a call ends.
LEMMA MakerEnds ==
  ASSUME TypeInv, NEW c \in Busy, Steps(c), op[c].kind \in Makers, c \notin Busy'
  PROVE  LET a == op[c].addr
         IN  \/ op[c].at \in {"check", "exists"}
             \/ op[c].at = "row" /\ UNCHANGED row
             \/ op[c].at = "uncount" /\ op[c].kind = "probe"
             \/ op[c].at = "untenant" /\ c \notin tenants'
             \/ op[c].at = "drop" /\ row'[a] # c
             \/ op[c].at = "find" /\ row[a] = None
             \/ /\ op[c].at = "admin" /\ op'[c].kind = "register"
                /\ admin'[a] # NoLogin /\ admin'[a].by = c
             \/ a \in hurt'
<1> DEFINE a == op[c].addr
<1>1. c \in Calls /\ op[c].at \notin {"idle", "over"} /\ a \in Addresses /\ c # None
  BY SetsAssumption DEF Busy, TypeInv, Shape, ShapeOf, Makers
<1>2. ASSUME NEW s, Goto(c, s) PROVE op'[c].at = s
  BY <1>1, <1>2, Gone
<1>3. \A s : s \notin {"idle", "over"} => ~Goto(c, s)
  BY <1>1, <1>2 DEF Busy
<1>4. CASE CheckBlocked(c) \/ CheckExists(c)
  BY <1>4 DEF CheckBlocked, CheckExists, At
<1>5. CASE InsertRow(c)
  BY <1>3, <1>5 DEF InsertRow, At
<1>6. CASE CreateAccount(c) \/ LinkRow(c) \/ CountRow(c) \/ CreateTenant(c) \/ DeleteRow(c)
           \/ DeleteAccount(c)
  BY <1>3, <1>6 DEF CreateAccount, LinkRow, CountRow, CreateTenant, DeleteRow, DeleteAccount, Is
<1>7. CASE DropRow(c)
  <2>1. row'[a] # c
    BY <1>1, <1>7 DEF DropRow, RemoveRow, TypeInv, TypeOK
  <2> QED BY <1>7, <2>1 DEF DropRow, At
<1>8. CASE CreateAdmin(c)
  <2>1. op[c].kind = "register"
    BY <1>8, <1>1, AtStage, KindAt DEF CreateAdmin, At, Makers
  <2>2. admin' = [admin EXCEPT ![a] = [by |-> c, org |-> op[c].org, pw |-> c]]
    BY <1>3, <1>8, <2>1 DEF CreateAdmin, Is
  <2>3. admin'[a] = [by |-> c, org |-> op[c].org, pw |-> c]
    BY <1>1, <2>2 DEF TypeInv, TypeOK
  <2>4. admin'[a] # NoLogin /\ admin'[a].by = c
    <3>1. admin'[a].by = c /\ NoLogin.by = None
      BY <2>3 DEF NoLogin
    <3> QED BY <1>1, <3>1
  <2>5. op'[c].kind = "register"
    BY <1>1, <2>1, StepMoves, MoveFacts
  <2> QED BY <1>8, <2>4, <2>5 DEF CreateAdmin, At
<1>9. CASE FindRow(c)
  <2>1. ASSUME row[a] # None PROVE FALSE
    <3> DEFINE stage == IF row[a] \in linked THEN "off" ELSE "delete"
    <3>1. op' = [op EXCEPT ![c] = [op[c] EXCEPT !.held = row[a], !.at = stage]]
      BY <1>9, <2>1 DEF FindRow, Set
    <3>2. op'[c] = [op[c] EXCEPT !.held = row[a], !.at = stage] /\ op[c] \in Op
      BY <1>1, <3>1 DEF TypeInv, TypeOK
    <3>3. op'[c].at = stage
      BY <3>2 DEF Op
    <3> QED BY <1>1, <3>3 DEF Busy
  <2> QED BY <1>9, <2>1 DEF FindRow, At
<1>10. CASE GiveBack(c)
  BY <1>3, <1>10 DEF GiveBack, Undone, Is, At
<1>11. CASE DropTenant(c)
  BY <1>11 DEF DropTenant, At
<1>12. CASE Die(c)
  <2>1. a \in WorksOn(op[c])
    BY <1>1, SetsAssumption DEF WorksOn
  <2> QED BY <1>12, <2>1 DEF Die, Makers
<1> QED BY <1>4, <1>5, <1>6, <1>7, <1>8, <1>9, <1>10, <1>11, <1>12, MakerGoesOn
        DEF MakeSteps, UndoSteps

\* A purge ends by deleting the organisation; cut off, it has met all it works on.
LEMMA PurgeOver ==
  ASSUME TypeInv, NEW c \in Busy, Steps(c), op[c].kind = "purge", c \notin Busy'
  PROVE  RemoveTenant(c) \/ WorksOn(op[c]) \subseteq met'
<1>1. c \in Calls
  BY DEF Busy
<1>2. CASE Die(c)
  BY <1>2 DEF Die
<1>3. CASE PurgeSteps(c)
  <2>1. PICK k : Moves(c, k)
    BY <1>1, StepMoves
  <2>2. op'[c] = k /\ k.at \in StagesOf[k.kind] \cup {"over"} /\ k.kind = "purge"
    BY <1>1, <2>1, MoveFacts DEF Moves
  <2>3. "idle" \notin StagesOf["purge"]
    BY DEF StagesOf
  <2>4. op'[c].at = "over"
    BY <1>1, <2>2, <2>3 DEF Busy
  <2> QED BY <1>1, <1>3, <2>4, PurgeEnds
<1> QED BY <1>1, <1>2, <1>3, PurgeGoesOn

\* Whoever is known by an address works on it while under way.
LEMMA WorksThere ==
  ASSUME TypeInv, NEW c \in Calls, op[c].addr \in Addresses
  PROVE  op[c].addr \in WorksOn(op[c])
  BY SetsAssumption DEF WorksOn

\* A sign-up that made the administrator did so before this step, or does it now.
LEMMA SignedBefore ==
  ASSUME TypeInv, NEW c \in Calls, Steps(c), NEW a \in Addresses, NEW t \in Calls, SignedBy(a, t)'
  PROVE  \/ SignedBy(a, t) /\ t # c
         \/ t = c /\ op[c].at = "admin" /\ a = op[c].addr /\ op[c].kind = "register"
<1>1. \A d \in Calls : op'[d].kind = op[d].kind
  BY StepMoves, MoveFacts
<1>2. c \in Busy
  BY StepMoves
<1>3. admin'[a] # NoLogin /\ admin'[a].by = t /\ op[t].kind = "register"
  BY <1>1 DEF SignedBy
<1>4. ASSUME admin[a] # NoLogin, admin[a].by = t PROVE SignedBy(a, t) /\ t # c
  BY <1>2, <1>3, <1>4 DEF SignedBy, TypeInv, Named, Busy
<1> QED BY <1>3, <1>4, AdminStep

\* It stays so until a purge of its organisation removes the administrator.
LEMMA SignedAfter ==
  ASSUME TypeInv, NEW c \in Calls, Steps(c), NEW a \in Addresses, NEW t \in Calls, SignedBy(a, t)
  PROVE  \/ SignedBy(a, t)'
         \/ op[c].at = "admins" /\ op'[c].at = "org" /\ op[c].org = t
<1>1. \A d \in Calls : op'[d].kind = op[d].kind
  BY StepMoves, MoveFacts
<1>2. admin[a] # NoLogin /\ admin[a].by = t /\ admin[a].org = t /\ t # None
  BY SetsAssumption DEF SignedBy, TypeInv, Named
<1>3. admin'[a].by = t => SignedBy(a, t)'
  <2>1. NoLogin.by = None
    BY DEF NoLogin
  <2> QED BY <1>1, <1>2, <2>1 DEF SignedBy
<1> QED BY <1>2, <1>3, AdminStep

\* Whose account is at an address after a step.
LEMMA AccountBy ==
  ASSUME TypeInv, NEW c \in Calls, Steps(c), NEW a \in Addresses
  PROVE  \/ account'[a].by \in {account[a].by, None}
         \/ op[c].at = "account" /\ a = op[c].addr /\ account'[a].by = c
<1>1. \/ account'[a] \in {account[a], NoAccount}
      \/ /\ op[c].at = "account" /\ a = op[c].addr /\ account[a] = NoAccount
         /\ account'[a] = [by |-> c, pw |-> c]
      \/ /\ op[c].at = "push" /\ a = op[c].addr /\ account[a].by = op[c].held
         /\ account'[a].by = account[a].by /\ account'[a].pw = op[c].pw
  BY AccountStep
<1> QED BY <1>1 DEF NoAccount

\* A reset or a sign-in goes on with the password, or dies.
LEMMA WriterGoesOn ==
  ASSUME TypeInv, NEW c \in Busy, Steps(c), op[c].kind \in Writers
  PROVE  PasswordSteps(c) \/ Die(c)
<1>1. c \in Calls /\ op[c].at \notin {"idle", "over"}
  BY DEF Busy
<1>2. ~MakeSteps(c)
  BY <1>1, AtStage, KindAt
     DEF MakeSteps, CheckBlocked, CheckExists, InsertRow, CreateAccount, LinkRow, DropRow,
         CountRow, CreateTenant, CreateAdmin, At, Makers, Writers
<1>3. ~UndoSteps(c)
  BY <1>1, AtStage, KindAt
     DEF UndoSteps, FindRow, DeleteAccount, DeleteRow, GiveBack, DropTenant, At, Makers, Writers
<1>4. ~PurgeSteps(c)
  BY <1>1, AtStage, KindAt
     DEF PurgeSteps, Bar, ListAdmins, ListRows, EachAccount, RemoveRows, Refund, RemoveAdmins,
         RemoveTenant, At, Writers
<1> QED BY <1>2, <1>3, <1>4 DEF Steps

\* A reset that goes to push has found a mailbox.
LEMMA PushFound ==
  ASSUME TypeInv, MadeByMakers, NEW c \in Calls, Steps(c), op'[c].at = "push"
  PROVE  op'[c].held \in Calls
<1>1. PICK k : c \in Busy /\ Moves(c, k)
  BY StepMoves
<1>2. op'[c] = k /\ k \in Op /\ k.kind = op[c].kind /\ k.kind \in Kinds
  BY <1>1, MoveFacts DEF Moves, TypeInv, Shape, ShapeOf, Busy
<1>3. Staged(k)
  BY <1>1, <1>2, MoveTyped
<1>4. op[c].kind = "reset"
  BY <1>2, <1>3, KindAt
<1>5. CASE SyncFind(c)
  <2>1. op[c].addr \in Addresses /\ op[c] \in Op
    BY <1>4, <1>5, HasAddress DEF SyncFind
  <2>2. row[op[c].addr] \in linked
    <3>1. ~Goto(c, "save")
      BY Gone
    <3> QED BY <1>5, <3>1 DEF SyncFind
  <2>3. op' = [op EXCEPT ![c] = [op[c] EXCEPT !.held = row[op[c].addr], !.at = "push"]]
    BY <1>5, <2>2 DEF SyncFind, Set
  <2>4. op'[c].held = row[op[c].addr]
    BY <2>1, <2>3 DEF TypeInv, TypeOK, Op
  <2> QED BY <2>2, <2>4 DEF TypeInv, TypeOK
<1>6. CASE Push(c) \/ SavePassword(c) \/ Die(c)
  BY <1>6, Gone DEF Push, SavePassword, Die, Over
<1>7. ~Verify(c)
  BY <1>4, AtStage, KindAt DEF Verify, At
<1> QED BY <1>1, <1>4, <1>5, <1>6, <1>7, WriterGoesOn DEF PasswordSteps, Writers

\* A step makes mailboxes and accounts only for calls that make mailboxes.
LEMMA MadeStep ==
  ASSUME TypeInv, MadeByMakers, NEW c \in Calls, Steps(c)
  PROVE  MadeByMakers'
<1>1. PICK k : c \in Busy /\ Moves(c, k)
  BY StepMoves
<1>2. /\ \A d \in Calls \ {c} : op'[d] = op[d]
      /\ \A d \in Calls : op'[d].kind = op[d].kind
  BY <1>1, MoveFacts
<1>3. op[c].at \in {"row", "account"} => op[c].kind \in Makers
  BY AtStage, KindAt DEF At
<1>4. c # None
  BY SetsAssumption
<1>5. \A a \in Addresses : row[a] \in Calls \cup {None} /\ account[a].by \in Calls \cup {None}
  BY DEF TypeInv, TypeOK
<1>6. ASSUME NEW a \in Addresses, row'[a] # None PROVE op'[row'[a]].kind \in Makers
  <2>1. CASE row'[a] = row[a]
    BY <1>2, <1>5, <1>6, <2>1 DEF MadeByMakers
  <2>2. CASE op[c].at = "row" /\ row'[a] = c
    BY <1>2, <1>3, <2>2
  <2> QED BY <1>6, <2>1, <2>2, RowStep
<1>7. ASSUME NEW a \in Addresses
      PROVE  /\ account'[a].by # None => op'[account'[a].by].kind \in Makers
             /\ account'[a].by = None => account'[a] = NoAccount
  <2>1. CASE account'[a] = account[a]
    BY <1>2, <1>5, <2>1 DEF MadeByMakers
  <2>2. CASE account'[a] = NoAccount
    BY <2>2 DEF NoAccount
  <2>3. CASE op[c].at = "account" /\ account'[a] = [by |-> c, pw |-> c]
    BY <1>2, <1>3, <1>4, <2>3
  <2>4. CASE /\ op[c].at = "push" /\ account[a].by = op[c].held
             /\ account'[a].by = account[a].by
    <3>1. account[a].by \in Calls
      BY <2>4 DEF MadeByMakers
    <3>2. account[a].by # None
      BY <3>1, SetsAssumption
    <3> QED BY <1>2, <2>4, <3>1, <3>2 DEF MadeByMakers
  <2> QED BY <2>1, <2>2, <2>3, <2>4, AccountStep
<1>8. ASSUME NEW d \in Calls, op'[d].at = "push" PROVE op'[d].held \in Calls
  BY <1>2, <1>8, PushFound DEF MadeByMakers
<1> QED BY <1>6, <1>7, <1>8 DEF MadeByMakers

\* Whatever is at an address has its owner after a step.
LEMMA OwnedStep ==
  ASSUME OwnedInv, NEW c \in Calls, Steps(c)
  PROVE  Owned'
<1> USE DEF OwnedInv, KeptInv
<1>1. PICK k : c \in Busy /\ Moves(c, k)
  BY StepMoves
<1>2. /\ op'[c] = k /\ \A d \in Calls \ {c} : op'[d] = op[d]
      /\ \A d \in Calls : /\ op'[d].kind = op[d].kind /\ op'[d].org = op[d].org
                          /\ op'[d].addr = op[d].addr
      /\ Sound' \subseteq Sound /\ Sound \subseteq Addresses /\ c # None
  BY <1>1, MoveFacts, StillSound, SetsAssumption
<1>3. \A d \in Busy \ {c} : d \in Busy'
  BY <1>2 DEF Busy
<1>4. ASSUME NEW a \in Sound', NEW t \in Calls, SignedBy(a, t), ~SignedBy(a, t)'
      PROVE  /\ row'[a] # t /\ account'[a].by # t /\ Endangered(t)'
  <2>1. op[c].at = "admins" /\ op'[c].at = "org" /\ op[c].org = t
    BY <1>2, <1>4, SignedAfter
  <2>2. op[c].kind = "purge"
    BY <2>1, AtStage, KindAt DEF At
  <2>3. TakesAway(c, a)
    BY <1>1, <1>2, <1>4, <2>1, <2>2 DEF Taking
  <2>4. row[a] = None /\ account[a].by = None
    BY <2>1, <2>3 DEF TakesAway
  <2>5. row'[a] = None /\ account'[a].by = None
    <3>1. a \in Addresses
      BY <1>2, <1>4
    <3>2. row'[a] = None
      BY <2>1, <2>4, <3>1, RowStep
    <3>3. account'[a] \in {account[a], NoAccount}
      BY <2>1, <3>1, AccountStep
    <3> QED BY <2>4, <3>2, <3>3 DEF NoAccount
  <2>6. Endangered(t)'
    BY <1>2, <2>1, <2>2 DEF Endangered, Busy
  <2> QED BY <2>5, <2>6, SetsAssumption
<1>5. ASSUME NEW a \in Sound', op[c].kind \in Makers, op[c].addr = a, c \notin Busy'
      PROVE  /\ row'[a] = c /\ row[a] = c => SignedBy(a, c)'
             /\ account'[a].by = c /\ account[a].by = c => SignedBy(a, c)'
             /\ c \in tenants' /\ c \in tenants => SignedBy(a, c)'
  <2>1. HoldsOwn(c) /\ LacksOwn(c) /\ a \notin met /\ a \notin hurt'
    BY <1>1, <1>2, <1>5 DEF Holding, Lacking, Sound
  <2>2. CASE op[c].at \in {"check", "exists", "row", "drop"}
    <3>1. row'[a] # c \/ row[a] # c
      BY <1>1, <1>5, <2>1, <2>2, MakerEnds DEF LacksOwn
    <3> QED BY <1>5, <2>1, <2>2, <3>1 DEF LacksOwn
  <2>3. CASE op[c].at \in {"uncount", "untenant"}
    <3>1. op[c].kind = "probe" => c \notin tenants
      BY DEF TypeInv, Named
    <3>2. op[c].kind = "probe" \/ c \notin tenants'
      BY <1>1, <1>5, <2>1, <2>3, MakerEnds
    <3> QED BY <1>5, <2>1, <2>3, <3>1, <3>2 DEF LacksOwn
  <2>4. CASE op[c].at = "find" /\ row[a] = None
    BY <1>2, <1>5, <2>1, <2>4 DEF HoldsOwn
  <2>5. CASE admin'[a] # NoLogin /\ admin'[a].by = c /\ op'[c].kind = "register"
    BY <2>5 DEF SignedBy
  <2> QED BY <1>1, <1>5, <2>1, <2>2, <2>3, <2>4, <2>5, MakerEnds
<1>6. ASSUME NEW a \in Sound', NEW r \in Calls, row'[a] = r PROVE r \in Busy' \/ SignedBy(a, r)'
  <2>1. a \in Sound /\ a \in Addresses /\ r # None
    BY <1>2, SetsAssumption
  <2>2. CASE op[c].at = "row" /\ row'[a] = c /\ op'[c].at = "account"
    BY <1>2, <1>6, <2>2 DEF Busy
  <2>3. CASE row[a] = r
    <3>1. Known(r, a) /\ op[r].kind \in Makers
      BY <2>1, <2>3 DEF TypeInv, Named, MadeByMakers
    <3>2. r \in Busy \/ SignedBy(a, r)
      BY <2>1, <2>3 DEF Owned
    <3>3. CASE SignedBy(a, r)
      BY <1>4, <1>6, <3>3
    <3>4. CASE r \in Busy
      BY <1>3, <1>5, <1>6, <2>3, <3>1, <3>4 DEF Known
    <3> QED BY <3>2, <3>3, <3>4
  <2> QED BY <1>6, <2>1, <2>2, <2>3, RowStep
<1>7. ASSUME NEW a \in Sound', NEW r \in Calls, account'[a].by = r
      PROVE  r \in Busy' \/ SignedBy(a, r)'
  <2>1. a \in Sound /\ a \in Addresses /\ r # None
    BY <1>2, SetsAssumption
  <2>2. CASE op[c].at = "account" /\ a = op[c].addr /\ account'[a] = [by |-> c, pw |-> c]
    <3>1. op[c].kind \in Makers /\ r = c
      BY <1>7, <2>2, AtStage, KindAt DEF At
    <3>2. CASE c \notin Busy'
      <4>1. admin'[a] # NoLogin /\ admin'[a].by = c /\ op'[c].kind = "register"
        BY <1>1, <2>2, <3>1, <3>2, MakerEnds DEF Sound
      <4> QED BY <3>1, <4>1 DEF SignedBy
    <3> QED BY <3>1, <3>2
  <2>3. CASE account[a].by = r
    <3>1. Known(r, a) /\ op[r].kind \in Makers
      BY <2>1, <2>3 DEF TypeInv, Named, MadeByMakers
    <3>2. r \in Busy \/ SignedBy(a, r)
      BY <2>1, <2>3 DEF Owned
    <3>3. CASE SignedBy(a, r)
      BY <1>4, <1>7, <3>3
    <3>4. CASE r \in Busy
      BY <1>3, <1>5, <1>7, <2>3, <3>1, <3>4 DEF Known
    <3> QED BY <3>2, <3>3, <3>4
  <2>4. account'[a] # NoAccount
    BY <1>7, <2>1 DEF NoAccount
  <2> QED BY <1>7, <2>1, <2>2, <2>3, <2>4, AccountStep
<1>8. ASSUME NEW a \in Sound', NEW t \in tenants', op'[t].addr = a
      PROVE  t \in Busy' \/ SignedBy(a, t)' \/ Endangered(t)'
  <2>1. a \in Sound /\ t \in Calls /\ op[t].addr = a
    BY <1>2, <1>8, TenantStep
  <2>2. CASE t = c /\ op'[c].at = "admin"
    BY <2>2 DEF Busy
  <2>3. CASE t \in tenants
    <3>1. op[t].kind = "register"
      BY <2>3 DEF TypeInv, Named
    <3>2. CASE t \in Busy
      BY <1>3, <1>5, <1>8, <2>1, <2>3, <3>1, <3>2 DEF Makers
    <3>3. CASE SignedBy(a, t)
      BY <1>4, <2>1, <3>3
    <3>4. CASE Endangered(t)
      <4>1. PICK p \in Busy : op[p].kind = "purge" /\ op[p].org = t
        BY <3>4 DEF Endangered
      <4>2. p \in Calls
        BY <4>1 DEF Busy
      <4>3. CASE p \in Busy'
        BY <1>2, <4>1, <4>2, <4>3 DEF Endangered
      <4>4. CASE p \notin Busy'
        <5>1. p = c
          BY <1>3, <4>1, <4>4
        <5>2. a \in WorksOn(op[p])
          BY <1>2, <2>1, <4>1, SetsAssumption DEF WorksOn
        <5>3. a \notin met'
          BY DEF Sound
        <5>4. RemoveTenant(c)
          BY <1>1, <4>1, <4>4, <5>1, <5>2, <5>3, PurgeOver
        <5> QED BY <1>8, <4>1, <5>1, <5>4 DEF RemoveTenant
      <4> QED BY <4>3, <4>4
    <3> QED BY <2>1, <2>3, <3>2, <3>3, <3>4 DEF Owned
  <2> QED BY <1>8, <2>2, <2>3, TenantStep
<1>9. \A a \in Sound' : row'[a] \in Calls \cup {None} /\ account'[a].by \in Calls \cup {None}
  BY <1>2, RowStep, AccountStep
<1> QED BY <1>6, <1>7, <1>8, <1>9 DEF Owned

\* What another call does gives a call nothing.
LEMMA OtherLacks ==
  ASSUME OwnedInv, NEW c \in Calls, Steps(c), NEW d \in Busy, d # c, LacksOwn(d),
         op[d].addr \in Addresses
  PROVE  LacksOwn(d)'
<1> USE DEF OwnedInv, KeptInv
<1> DEFINE a == op[d].addr
<1>1. PICK k : c \in Busy /\ Moves(c, k)
  BY StepMoves
<1>2. op'[d] = op[d] /\ d \in Calls /\ d # None
  BY <1>1, MoveFacts, SetsAssumption DEF Busy
<1>3. row'[a] = d => row[a] = d
  BY <1>2, RowStep
<1>4. account'[a].by = d => account[a].by = d
  BY <1>2, AccountBy
<1>5. d \in tenants' => d \in tenants
  BY TenantStep
<1> QED BY <1>2, <1>3, <1>4, <1>5 DEF LacksOwn

\* Nor does a call get what it lacks but by making it.
LEMMA OwnLacks ==
  ASSUME OwnedInv, NEW c \in Calls, Steps(c), c \in Busy', op[c].kind \in Makers,
         op[c].addr \in Sound'
  PROVE  LacksOwn(c)'
<1> USE DEF OwnedInv, KeptInv
<1> DEFINE k == op[c]
           a == k.addr
<1>1. /\ c \in Busy /\ k \in Op /\ a \in Sound /\ a \in Addresses /\ c # None
      /\ a \notin hurt' /\ a \notin met
  BY StepMoves, StillSound, SetsAssumption DEF TypeInv, TypeOK, Sound
<1>2. HoldsOwn(c) /\ LacksOwn(c)
  BY <1>1 DEF Holding, Lacking
<1>3. /\ row \in [Addresses -> Calls \cup {None}]
      /\ account \in [Addresses -> [by : Calls \cup {None}, pw : Calls \cup {None}]]
  BY DEF TypeInv, TypeOK
<1>4. ASSUME NEW s, Goto(c, s) PROVE op'[c].at = s /\ op'[c].addr = a /\ op'[c].held = k.held
  BY <1>4, Gone
<1>5. ~Over(c)
  BY Gone DEF Over, Busy
<1>6. CASE CheckBlocked(c)
  <2>1. row[a] # c /\ account[a].by # c /\ c \notin tenants /\ UNCHANGED stores
    BY <1>2, <1>6 DEF CheckBlocked, At, LacksOwn
  <2> QED BY <1>4, <1>5, <1>6, <2>1 DEF CheckBlocked, LacksOwn, stores
<1>7. CASE CheckExists(c)
  <2>1. row[a] # c /\ account[a].by # c /\ c \notin tenants /\ UNCHANGED stores
    BY <1>2, <1>7 DEF CheckExists, At, LacksOwn
  <2>2. Goto(c, "row")
    BY <1>5, <1>7 DEF CheckExists, Is, Makers
  <2> QED BY <1>4, <2>1, <2>2 DEF LacksOwn, stores
<1>8. CASE InsertRow(c)
  <2>1. account[a].by # c /\ c \notin tenants /\ UNCHANGED <<account, tenants>>
    BY <1>2, <1>8 DEF InsertRow, At, LacksOwn
  <2>2. Goto(c, "account")
    BY <1>5, <1>8 DEF InsertRow
  <2> QED BY <1>4, <2>1, <2>2 DEF LacksOwn
<1>9. CASE CreateAccount(c)
  <2>1. account[a].by # c /\ c \notin tenants /\ UNCHANGED tenants
    BY <1>2, <1>9 DEF CreateAccount, At, LacksOwn
  <2>2. \/ Goto(c, "link")
        \/ Goto(c, "drop") /\ (UNCHANGED account \/ Hurts({a}))
    BY <1>9 DEF CreateAccount
  <2>3. ~Hurts({a})
    BY <1>1 DEF Hurts
  <2> QED BY <1>4, <2>1, <2>2, <2>3 DEF LacksOwn
<1>10. CASE LinkRow(c)
  <2>1. row[a] = c /\ c \notin tenants /\ UNCHANGED tenants
    BY <1>2, <1>10 DEF LinkRow, At, LacksOwn, HoldsOwn
  <2>2. Goto(c, "count")
    BY <1>10, <2>1 DEF LinkRow
  <2> QED BY <1>4, <2>1, <2>2 DEF LacksOwn
<1>11. CASE CountRow(c)
  <2>1. c \notin tenants /\ UNCHANGED tenants
    BY <1>2, <1>11 DEF CountRow, At, LacksOwn
  <2>2. Goto(c, "find") \/ Goto(c, "tenant")
    BY <1>11 DEF CountRow
  <2> QED BY <1>4, <2>1, <2>2 DEF LacksOwn
<1>12. CASE CreateTenant(c)
  BY <1>4, <1>12 DEF CreateTenant, LacksOwn
<1>13. CASE CreateAdmin(c)
  <2>1. Goto(c, "find")
    BY <1>5, <1>13 DEF CreateAdmin, Is, Makers
  <2> QED BY <1>4, <2>1 DEF LacksOwn
<1>14. CASE FindRow(c)
  <2>1. row[a] = c /\ c \in linked
    BY <1>2, <1>14 DEF FindRow, At, HoldsOwn
  <2>2. op' = [op EXCEPT ![c] = [k EXCEPT !.held = c, !.at = "off"]]
    BY <1>1, <1>14, <2>1 DEF FindRow, Set
  <2>3. op'[c].at = "off"
    BY <1>1, <2>2 DEF TypeInv, TypeOK, Op
  <2> QED BY <2>3 DEF LacksOwn
<1>15. CASE DeleteAccount(c)
  <2>1. k.held = c
    BY <1>2, <1>15 DEF DeleteAccount, At, HoldsOwn
  <2>2. ~Hurts({a})
    BY <1>1 DEF Hurts
  <2>3. account'[a].by # c
    BY <1>1, <1>15, <2>1, <2>2 DEF DeleteAccount, RemoveAccount, NoAccount
  <2> QED BY <1>4, <1>15, <2>3 DEF DeleteAccount, LacksOwn
<1>16. CASE DeleteRow(c)
  <2>1. k.held = c /\ account[a].by # c /\ UNCHANGED account
    BY <1>2, <1>16 DEF DeleteRow, At, HoldsOwn, LacksOwn
  <2>2. row'[a] # c
    BY <1>1, <1>3, <1>16, <2>1 DEF DeleteRow, RemoveRow
  <2> QED BY <1>4, <1>16, <2>1, <2>2 DEF DeleteRow, LacksOwn
<1>17. CASE GiveBack(c)
  <2>1. row[a] # c /\ account[a].by # c /\ UNCHANGED <<row, account>>
    BY <1>2, <1>17 DEF GiveBack, At, LacksOwn
  <2>2. Goto(c, "untenant")
    BY <1>5, <1>17 DEF GiveBack, Undone
  <2> QED BY <1>4, <2>1, <2>2 DEF LacksOwn
<1>18. CASE DropRow(c) \/ DropTenant(c) \/ Die(c)
  BY <1>5, <1>18 DEF DropRow, DropTenant, Die
<1> QED BY <1>1, <1>6, <1>7, <1>8, <1>9, <1>10, <1>11, <1>12, <1>13, <1>14, <1>15, <1>16, <1>17,
           <1>18, MakerGoesOn DEF MakeSteps, UndoSteps

\* So every call that makes a mailbox lacks what it has not made.
LEMMA LackingStep ==
  ASSUME OwnedInv, NEW c \in Calls, Steps(c)
  PROVE  Lacking'
<1> USE DEF OwnedInv, KeptInv
<1>1. PICK k : c \in Busy /\ Moves(c, k)
  BY StepMoves
<1>2. ASSUME NEW d \in Busy', op'[d].kind \in Makers, op'[d].addr \in Sound'
      PROVE  LacksOwn(d)'
  <2>1. /\ d \in Busy /\ d \in Calls /\ op[d].kind \in Makers /\ op'[d].addr = op[d].addr
        /\ op[d].addr \in Sound /\ op[d].addr \in Addresses
    BY <1>1, <1>2, MoveFacts, StillSound DEF Busy
  <2>2. CASE d = c
    BY <1>2, <2>1, <2>2, OwnLacks
  <2>3. CASE d # c
    BY <2>1, <2>3, OtherLacks DEF Lacking
  <2> QED BY <2>2, <2>3
<1> QED BY <1>2 DEF Lacking

\* A purge that is to remove an administrator has the address to itself.
LEMMA TakesAlone ==
  ASSUME KeptInv, NEW p \in Busy, op[p].kind = "purge", NEW a \in Sound,
         op[op[p].org].addr = a, NEW c \in Busy, c # p, op[c].kind \in Disturbing
  PROVE  a \notin WorksOn(op[c]) /\ op[c].addr # a
<1>1. a \in Addresses /\ a \notin met
  BY DEF Sound
<1>2. a \in WorksOn(op[p])
  BY <1>1, SetsAssumption DEF WorksOn
<1>3. a \notin WorksOn(op[c])
  BY <1>1, <1>2 DEF KeptInv, Crossed, Disturbing
<1> QED BY <1>1, <1>3, SetsAssumption DEF WorksOn

\* Another's step leaves a purge as far as it is.
LEMMA OtherTakes ==
  ASSUME OwnedInv, NEW c \in Calls, Steps(c), NEW p \in Busy, p # c, op[p].kind = "purge",
         NEW a \in Sound', NEW t \in Calls, op[p].org = t, SignedBy(a, t), TakesAway(p, a)
  PROVE  TakesAway(p, a)'
<1> USE DEF OwnedInv, KeptInv
<1>1. PICK k : c \in Busy /\ Moves(c, k)
  BY StepMoves
<1>2. op'[p] = op[p] /\ p \in Calls /\ a \in Sound /\ a \in Addresses /\ a \notin met
  BY <1>1, MoveFacts, StillSound DEF Busy, Sound
<1>3. Known(t, a) /\ op[t].at = "over" /\ t # c /\ op[t].addr = a /\ t # None
  BY <1>1, <1>2, SetsAssumption DEF SignedBy, TypeInv, Named, Busy, Known
<1>4. op[c].kind \in Disturbing => op[c].addr # a /\ a \notin WorksOn(op[c])
  BY <1>1, <1>2, <1>3, TakesAlone
<1>5. op[c].at \in {"row", "account"} => op[c].addr # a
  <2>1. op[c].at \in {"row", "account"} => op[c].kind \in Makers
    BY AtStage, KindAt DEF At
  <2> QED BY <1>4, <2>1 DEF Makers, Disturbing
<1>6. row[a] = None => row'[a] = None
  BY <1>2, <1>5, RowStep
<1>7. account'[a].by \in {account[a].by, None}
  BY <1>2, <1>5, AccountBy
<1>8. Has(t, a) => Has(t, a)'
  <2>1. op[c].kind = "purge" => a \notin op[c].emails /\ op[c].org # t
    BY <1>2, <1>3, <1>4, SetsAssumption DEF WorksOn, Disturbing
  <2> QED BY <1>2, <1>3, <2>1, StoresSafe DEF Has
<1>9. /\ op[p].at \in {"bar", "list", "rows"} => Has(t, a)'
      /\ op[p].at \in {"rows", "each", "remove", "refund", "admins"} => a \in op[p].emails
      /\ op[p].at = "each" => account'[a].by \in op[p].todo \cup {None}
      /\ op[p].at \in {"remove", "refund", "admins"} => account'[a].by = None
      /\ op[p].at \in {"refund", "admins"} => row'[a] = None
  BY <1>6, <1>7, <1>8 DEF TakesAway
<1> QED BY <1>2, <1>9 DEF TakesAway

\* A purge takes mailbox, account and administrator away one after another.
LEMMA OwnTakes ==
  ASSUME OwnedInv, NEW c \in Calls, Steps(c), c \in Busy', op[c].kind = "purge",
         NEW a \in Sound', NEW t \in Calls, op[c].org = t, SignedBy(a, t), SignedBy(a, t)',
         TakesAway(c, a)
  PROVE  TakesAway(c, a)'
<1> USE DEF OwnedInv, KeptInv
<1> DEFINE k == op[c]
<1>1. c \in Busy /\ k \in Op /\ a \in Addresses /\ a \notin hurt' /\ op \in [Calls -> Op]
  BY StepMoves, StillSound DEF TypeInv, TypeOK, Sound
<1>2. admin[a].org = t /\ admin[a] # NoLogin /\ admin'[a].org = t /\ t # None
  <2>1. admin[a].org = t /\ admin[a] # NoLogin
    BY <1>1 DEF SignedBy, TypeInv, Named
  <2>2. admin'[a].org = t
    <3>1. TypeInv'
      BY StepInv
    <3> QED BY <1>1, <3>1 DEF SignedBy, TypeInv, Named
  <2> QED BY <2>1, <2>2, SetsAssumption
<1>3. ASSUME NEW s, Goto(c, s)
      PROVE  /\ op'[c].at = s
             /\ op'[c].emails = k.emails /\ op'[c].todo = k.todo /\ op'[c].org = t
  <2>1. op'[c] = [k EXCEPT !.at = s]
    BY <1>1, <1>3 DEF Goto, Set
  <2> QED BY <1>1, <2>1 DEF Op
<1>4. ~Over(c)
  BY Gone DEF Over, Busy
<1>5. CASE Bar(c)
  <2>1. Has(t, a) /\ UNCHANGED <<row, linked, account, tenants>>
    BY <1>5 DEF Bar, At, TakesAway
  <2> QED BY <1>3, <1>5, <2>1 DEF Bar, TakesAway, Has
<1>6. CASE ListAdmins(c)
  <2> DEFINE listed == AdminsOf(k.org)
             l == [k EXCEPT !.emails = listed, !.at = "rows"]
  <2>1. Has(t, a) /\ UNCHANGED <<row, linked, account, tenants>> /\ a \in listed
    BY <1>1, <1>2, <1>6 DEF ListAdmins, At, TakesAway, stores, AdminsOf
  <2>2. op' = [op EXCEPT ![c] = l]
    BY <1>6 DEF ListAdmins, Set
  <2>3. op'[c] = l
    BY <1>1, <2>2
  <2> HIDE DEF listed
  <2>4. l.at = "rows" /\ l.emails = listed /\ l.org = t
    BY <1>1 DEF Op
  <2> HIDE DEF l
  <2> QED BY <2>1, <2>3, <2>4 DEF TakesAway, Has
<1>7. CASE ListRows(c)
  <2> DEFINE found == {row[x] : x \in k.emails} \ {None}
             l == [k EXCEPT !.found = found, !.todo = found \cap linked, !.at = "each"]
  <2>1. Has(t, a) /\ UNCHANGED account /\ a \in k.emails
    BY <1>7 DEF ListRows, At, TakesAway, stores
  <2>2. t \in found \cap linked
    BY <1>2, <2>1 DEF Has
  <2>3. op' = [op EXCEPT ![c] = l]
    BY <1>7 DEF ListRows, Set
  <2>4. op'[c] = l
    BY <1>1, <2>3
  <2> HIDE DEF found
  <2>5. l.at = "each" /\ l.emails = k.emails /\ l.todo = found \cap linked
    BY <1>1 DEF Op
  <2> HIDE DEF l
  <2> QED BY <2>1, <2>2, <2>4, <2>5 DEF TakesAway, Has
<1>8. CASE EachAccount(c)
  <2>1. k.at = "each" /\ a \in k.emails /\ account[a].by \in k.todo \cup {None}
    BY <1>8 DEF EachAccount, At, TakesAway
  <2>2. CASE k.todo = {} /\ Goto(c, "remove") /\ UNCHANGED account
    BY <1>3, <2>1, <2>2 DEF TakesAway
  <2>3. ASSUME NEW r \in k.todo, Set(c, [k EXCEPT !.todo = @ \ {r}]),
               RemoveAccount(r) \/ (UNCHANGED account /\ account[a].by # r)
        PROVE  TakesAway(c, a)'
    <3>1. op'[c] = [k EXCEPT !.todo = @ \ {r}]
      BY <1>1, <2>3 DEF Set
    <3>2. op'[c].at = "each" /\ op'[c].emails = k.emails /\ op'[c].todo = k.todo \ {r}
      BY <1>1, <2>1, <3>1 DEF Op
    <3>3. CASE RemoveAccount(r)
      <4>1. account'[a].by \in (k.todo \ {r}) \cup {None}
        BY <1>1, <2>1, <3>3 DEF RemoveAccount, NoAccount
      <4> QED BY <2>1, <3>2, <4>1 DEF TakesAway
    <3>4. CASE UNCHANGED account /\ account[a].by # r
      BY <2>1, <3>2, <3>4 DEF TakesAway
    <3> QED BY <2>3, <3>3, <3>4
  <2> QED BY <1>1, <1>8, <2>1, <2>2, <2>3 DEF EachAccount, Hurts
<1>9. CASE RemoveRows(c)
  <2>1. a \in k.emails /\ account[a].by = None /\ UNCHANGED account
    BY <1>9 DEF RemoveRows, At, TakesAway
  <2>2. row'[a] = None
    BY <1>1, <1>9, <2>1 DEF RemoveRows
  <2> QED BY <1>3, <1>9, <2>1, <2>2 DEF RemoveRows, TakesAway
<1>10. CASE Refund(c)
  <2>1. a \in k.emails /\ account[a].by = None /\ row[a] = None /\ UNCHANGED <<row, account>>
    BY <1>10 DEF Refund, At, TakesAway
  <2> QED BY <1>3, <1>10, <2>1 DEF Refund, TakesAway
<1>11. CASE RemoveAdmins(c)
  BY <1>3, <1>11 DEF RemoveAdmins, TakesAway
<1>12. CASE RemoveTenant(c) \/ Die(c)
  BY <1>4, <1>12 DEF RemoveTenant, Die
<1> QED BY <1>1, <1>5, <1>6, <1>7, <1>8, <1>9, <1>10, <1>11, <1>12, PurgeGoesOn DEF PurgeSteps

\* So every purge is as far as its stage says.
LEMMA TakingStep ==
  ASSUME OwnedInv, NEW c \in Calls, Steps(c)
  PROVE  Taking'
<1> USE DEF OwnedInv, KeptInv
<1>1. PICK k : c \in Busy /\ Moves(c, k)
  BY StepMoves
<1>2. ASSUME NEW p \in Busy', op'[p].kind = "purge", NEW a \in Sound', NEW t \in Calls,
             op'[p].org = t, SignedBy(a, t)'
      PROVE  TakesAway(p, a)'
  <2>1. /\ p \in Busy /\ p \in Calls /\ op[p].kind = "purge" /\ op[p].org = t
        /\ a \in Sound /\ a \in Addresses
    BY <1>1, <1>2, MoveFacts, StillSound DEF Busy
  <2>2. CASE SignedBy(a, t)
    <3>1. TakesAway(p, a)
      BY <2>1, <2>2 DEF Taking
    <3> QED BY <1>2, <2>1, <2>2, <3>1, OtherTakes, OwnTakes
  <2>3. CASE t = c /\ a = op[c].addr /\ op[c].kind = "register"
    <3>1. p # c
      BY <2>1, <2>3
    <3> QED BY <1>1, <2>1, <2>3, <3>1, TakesAlone DEF Disturbing
  <2> QED BY <1>2, <2>1, <2>2, <2>3, SignedBefore
<1>3. \A p \in Busy' : op'[p].kind = "purge" => op'[p].org \in Calls
  <2>1. TypeInv'
    BY StepInv
  <2> QED BY <2>1 DEF TypeInv, Shape, ShapeOf, Busy
<1> QED BY <1>2, <1>3 DEF Taking

\* A beginning call owns nothing yet and takes nothing away.
LEMMA OwnedOpen ==
  ASSUME OwnedInv, NEW c \in Calls, NEW k, Opens(c, k)
  PROVE  OwnedInv'
<1> USE DEF OwnedInv, KeptInv
<1>1. /\ op[c].at = "idle" /\ op'[c] = k /\ \A d \in Calls \ {c} : op'[d] = op[d]
      /\ met \subseteq met' /\ hurt' = hurt /\ UNCHANGED stores /\ Meets(c, k) \subseteq met'
  BY OpenTyped DEF Opens, Begin
<1>2. /\ k.at \in {"check", "exists", "sync", "verify", "bar"} /\ k.emails = {}
      /\ \A d \in Busy : d \in Calls /\ d # c /\ op'[d] = op[d] /\ d \in Busy'
      /\ \A d \in Busy' : d # c => d \in Busy
  BY <1>1 DEF Opens, Busy
<1>3. /\ Sound' \subseteq Sound /\ Sound \subseteq Addresses /\ Sound' \cap met' = {}
  BY <1>1 DEF Sound
<1>4. \A a \in Addresses, r \in Calls : Known(r, a) => r # c /\ op'[r] = op[r]
  BY <1>1 DEF Known
<1>5. ASSUME NEW a \in Addresses, NEW t \in Calls PROVE SignedBy(a, t)' <=> SignedBy(a, t)
  <2>1. admin[a] # NoLogin /\ admin[a].by = t => t # c /\ op'[t] = op[t]
    BY <1>4 DEF TypeInv, Named
  <2> QED BY <1>1, <2>1 DEF SignedBy, stores
<1>6. ASSUME NEW a \in Sound', NEW r \in Calls
      PROVE  /\ row'[a] = r => r \in Busy' \/ SignedBy(a, r)'
             /\ account'[a].by = r => r \in Busy' \/ SignedBy(a, r)'
  <2>1. a \in Sound /\ a \in Addresses /\ r # None
    BY <1>3, SetsAssumption
  <2> QED BY <1>1, <1>2, <1>5, <2>1 DEF Owned, stores
<1>7. ASSUME NEW t \in tenants', NEW a \in Sound', op'[t].addr = a
      PROVE  t \in Busy' \/ SignedBy(a, t)' \/ Endangered(t)'
  <2>1. t \in Calls /\ t \in tenants /\ t # c /\ op'[t] = op[t] /\ a \in Sound /\ a \in Addresses
    BY <1>1, <1>3 DEF stores, TypeInv, TypeOK, Named
  <2>2. Endangered(t) => Endangered(t)'
    BY <1>2 DEF Endangered
  <2> QED BY <1>2, <1>5, <1>7, <2>1, <2>2 DEF Owned
<1>8. Owned'
  <2>1. \A a \in Sound' : row'[a] \in Calls \cup {None} /\ account'[a].by \in Calls \cup {None}
    BY <1>1, <1>3 DEF stores, TypeInv, TypeOK
  <2> QED BY <1>6, <1>7, <2>1 DEF Owned
<1>9. MadeByMakers'
  <2>1. ASSUME NEW a \in Addresses, NEW r \in Calls, row[a] = r \/ account[a].by = r
        PROVE  op'[r] = op[r]
    BY <1>4, <2>1, SetsAssumption DEF TypeInv, Named
  <2>2. \A a \in Addresses : row[a] \in Calls \cup {None} /\ account[a].by \in Calls \cup {None}
    BY DEF TypeInv, TypeOK
  <2>3. k.at # "push"
    BY <1>2
  <2> QED BY <1>1, <2>1, <2>2, <2>3 DEF MadeByMakers, stores
<1>10. Lacking'
  <2>1. ASSUME NEW d \in Busy', op'[d].kind \in Makers, op'[d].addr \in Sound'
        PROVE  LacksOwn(d)'
    <3>1. CASE d = c
      <4>1. \A a \in Addresses : row[a] # c /\ account[a].by # c
        BY <1>1, SetsAssumption DEF TypeInv, Named, Known
      <4>2. c \notin tenants
        BY <1>1 DEF TypeInv, Named
      <4> QED BY <1>1, <1>3, <2>1, <3>1, <4>1, <4>2 DEF LacksOwn, stores
    <3>2. CASE d # c
      BY <1>1, <1>2, <1>3, <2>1, <3>2 DEF Lacking, LacksOwn, stores
    <3> QED BY <3>1, <3>2
  <2> QED BY <2>1 DEF Lacking
<1>11. Taking'
  <2>1. ASSUME NEW p \in Busy', op'[p].kind = "purge", NEW a \in Sound', NEW t \in Calls,
               op'[p].org = t, SignedBy(a, t)'
        PROVE  TakesAway(p, a)'
    <3>1. a \in Sound /\ a \in Addresses /\ SignedBy(a, t)
      BY <1>3, <1>5, <2>1
    <3>2. CASE p = c
      <4>1. k.kind = "purge" /\ k.org = t /\ k.at = "bar"
        <5>1. k.at \in StagesOf["purge"] /\ k.kind = "purge"
          BY <1>1, <2>1, <3>2 DEF Opens
        <5>2. k.at = "bar"
          BY <1>2, <5>1 DEF StagesOf
        <5> QED BY <1>1, <2>1, <3>2, <5>1, <5>2
      <4>2. admin[a].by = t /\ admin[a].org = t /\ op[t].addr = a /\ SignedUp(a)
        BY <3>1 DEF SignedBy, SignedUp, TypeInv, Named, Known
      <4>3. ~Endangered(t)
        <5>1. ASSUME NEW q \in Busy, op[q].kind = "purge", op[q].org = t PROVE FALSE
          <6>1. a \in WorksOn(k) /\ a \in WorksOn(op[q])
            BY <3>1, <4>1, <4>2, <5>1, SetsAssumption DEF WorksOn
          <6>2. q \in Workers(a) \ {c}
            BY <1>2, <6>1 DEF Workers
          <6>3. a \in Meets(c, k)
            BY <4>1, <5>1, <6>1, <6>2 DEF Meets, Disturbing
          <6> QED BY <1>1, <1>3, <6>3
        <5> QED BY <5>1 DEF Endangered
      <4>4. Has(t, a)
        BY <3>1, <4>2, <4>3 DEF Kept, Sound
      <4> QED BY <1>1, <3>2, <4>1, <4>4 DEF TakesAway, Has, stores
    <3>3. CASE p # c
      <4>1. p \in Busy /\ op'[p] = op[p] /\ TakesAway(p, a)
        BY <1>2, <2>1, <3>1, <3>3 DEF Taking
      <4> QED BY <1>1, <4>1 DEF TakesAway, Has, stores
    <3> QED BY <3>2, <3>3
  <2>2. \A p \in Busy' : op'[p].kind = "purge" => op'[p].org \in Calls
    <3>1. TypeInv'
      BY OpenInv
    <3> QED BY <3>1 DEF TypeInv, Shape, ShapeOf, Busy
  <2> QED BY <2>1, <2>2 DEF Taking
<1> QED BY <1>8, <1>9, <1>10, <1>11, KeptOpen

\* At first whatever is there belongs to who registered it.
LEMMA OwnedInit == Init => OwnedInv
<1> SUFFICES ASSUME Init PROVE OwnedInv
  OBVIOUS
<1>1. KeptInv
  BY KeptInit
<1>2. PICK home \in [Addresses -> Calls \cup {None}] :
        /\ \A a, b \in Addresses : home[a] = home[b] => a = b \/ home[a] = None
        /\ tenants = {home[a] : a \in Addresses} \ {None}
        /\ row = home /\ linked = tenants
        /\ account = [a \in Addresses |-> [by |-> home[a], pw |-> home[a]]]
        /\ admin = [a \in Addresses |-> [by |-> home[a], org |-> home[a], pw |-> home[a]]]
        /\ op = [c \in Calls |->
                    IF c \notin tenants THEN NotBegun
                    ELSE [NotBegun EXCEPT !.kind = "register", !.at = "over", !.org = c,
                                          !.addr = CHOOSE a \in Addresses : home[a] = c]]
  BY DEF Init
<1>3. ASSUME NEW c \in Calls
      PROVE  op[c].at \in {"idle", "over"} /\ (c \in tenants => op[c].kind = "register")
  <2>1. CASE c \notin tenants
    BY <1>2, <2>1 DEF NotBegun
  <2>2. CASE c \in tenants
    <3> DEFINE x == CHOOSE a \in Addresses : home[a] = c
    <3>1. op[c] = [NotBegun EXCEPT !.kind = "register", !.at = "over", !.org = c, !.addr = x]
      BY <1>2, <2>2
    <3> HIDE DEF x
    <3> QED BY <3>1 DEF NotBegun
  <2> QED BY <2>1, <2>2
<1>4. Busy = {}
  BY <1>3 DEF Busy
<1>5. ASSUME NEW a \in Addresses, home[a] # None
      PROVE  SignedBy(a, home[a])
  <2>1. home[a] \in Calls /\ home[a] \in tenants
    BY <1>2, <1>5
  <2>2. admin[a].by = home[a]
    BY <1>2
  <2>3. admin[a] # NoLogin
    BY <1>5, <2>2 DEF NoLogin
  <2> QED BY <1>3, <2>1, <2>2, <2>3 DEF SignedBy
<1>6. \A a \in Addresses : /\ row[a] = home[a] /\ account[a].by = home[a]
                          /\ account[a] = [by |-> home[a], pw |-> home[a]]
  BY <1>2
<1>7. Owned
  <2>1. ASSUME NEW t \in tenants, NEW a \in Addresses, op[t].addr = a PROVE SignedBy(a, t)
    <3>1. t \in Calls /\ t # None /\ \E x \in Addresses : home[x] = t
      BY <1>2
    <3> DEFINE y == CHOOSE x \in Addresses : home[x] = t
    <3>2. y \in Addresses /\ home[y] = t
      BY <3>1
    <3>3. op[t] = [NotBegun EXCEPT !.kind = "register", !.at = "over", !.org = t, !.addr = y]
      BY <1>2, <3>1
    <3> HIDE DEF y
    <3>4. op[t].addr = y
      BY <3>3 DEF NotBegun
    <3> QED BY <1>5, <2>1, <3>1, <3>2, <3>4
  <2>2. Sound \subseteq Addresses
    BY DEF Sound
  <2>3. ASSUME NEW a \in Addresses
        PROVE  /\ row[a] # None => SignedBy(a, row[a])
               /\ account[a].by # None => SignedBy(a, account[a].by)
    BY <1>5, <1>6
  <2> QED BY <2>1, <2>2, <2>3 DEF Owned
<1>8. MadeByMakers
  <2>1. ASSUME NEW a \in Addresses
        PROVE  /\ row[a] # None => op[row[a]].kind \in Makers
               /\ account[a].by # None => op[account[a].by].kind \in Makers
    BY <1>5, <1>6 DEF SignedBy, Makers
  <2>2. \A c \in Calls : op[c].at # "push"
    BY <1>3
  <2>3. ASSUME NEW a \in Addresses, account[a].by = None PROVE account[a] = NoAccount
    BY <1>6, <2>3 DEF NoAccount
  <2> QED BY <2>1, <2>2, <2>3 DEF MadeByMakers
<1> QED BY <1>1, <1>4, <1>7, <1>8 DEF OwnedInv, Lacking, Taking

\* Every step keeps it.
LEMMA OwnedNext == OwnedInv /\ [Next]_vars => OwnedInv'
<1> SUFFICES ASSUME OwnedInv, [Next]_vars PROVE OwnedInv'
  OBVIOUS
<1>1. KeptInv'
  BY KeptNext DEF OwnedInv
<1>2. CASE Next
  <2>1. PICK c \in Calls : (\E k : Opens(c, k)) \/ Steps(c)
    BY <1>2, NextIs DEF OwnedInv, KeptInv
  <2>2. CASE Steps(c)
    BY <1>1, <2>2, OwnedStep, MadeStep, LackingStep, TakingStep DEF OwnedInv, KeptInv
  <2> QED BY <2>1, <2>2, OwnedOpen
<1>3. CASE UNCHANGED vars
  <2>1. Owned'
    BY <1>3 DEF OwnedInv, Owned, Sound, SignedBy, Endangered, Busy, vars, stores, histories
  <2>2. MadeByMakers'
    BY <1>3 DEF OwnedInv, MadeByMakers, vars, stores
  <2>3. Lacking'
    BY <1>3 DEF OwnedInv, Lacking, LacksOwn, Sound, Busy, vars, stores, histories
  <2>4. Taking'
    BY <1>3 DEF OwnedInv, Taking, TakesAway, Has, SignedBy, Sound, Busy, vars, stores, histories
  <2> QED BY <1>1, <2>1, <2>2, <2>3, <2>4 DEF OwnedInv
<1> QED BY <1>2, <1>3

\* Once nobody works on a name that nobody signed up with, no mailbox, no account
\* and no organisation of a failed or purged sign-up is left of it, wherever no
\* fault left something and no purge met another call: for any numbers of names
\* and calls, however sign-ups, password checks, roll-backs and purges interleave.
THEOREM NamesComeFree == Spec => []NothingStranded
<1>1. OwnedInv => NothingStranded
  <2> SUFFICES ASSUME OwnedInv, NEW a \in Sound, Workers(a) = {}
               PROVE  /\ ~SignedUp(a) => row[a] = None /\ account[a] = NoAccount
                      /\ \A c \in tenants : op[c].addr = a => admin[a].by = c
    BY DEF NothingStranded
  <2> USE DEF OwnedInv, KeptInv
  <2>1. a \in Addresses
    BY DEF Sound
  <2>2. ASSUME NEW r \in Calls, op[r].addr = a PROVE r \notin Busy
    BY <2>1, <2>2, WorksThere DEF Workers
  <2>3. ASSUME NEW r \in Calls, row[a] = r \/ account[a].by = r PROVE SignedUp(a)
    <3>1. op[r].addr = a
      BY <2>1, <2>3, SetsAssumption DEF TypeInv, Named, Known
    <3>2. SignedBy(a, r)
      BY <2>2, <2>3, <3>1, SetsAssumption DEF Owned
    <3> QED BY <3>2 DEF SignedBy, SignedUp
  <2>4. ~SignedUp(a) => row[a] = None /\ account[a] = NoAccount
    BY <2>1, <2>3 DEF TypeInv, TypeOK, MadeByMakers
  <2>5. ASSUME NEW t \in tenants, op[t].addr = a PROVE admin[a].by = t
    <3>1. t \in Calls /\ t \notin Busy
      BY <2>2, <2>5 DEF TypeInv, TypeOK
    <3>2. ~Endangered(t)
      <4>1. ASSUME NEW p \in Busy, op[p].kind = "purge", op[p].org = t PROVE FALSE
        <5>1. a \in WorksOn(op[p])
          BY <2>1, <2>5, <4>1, SetsAssumption DEF WorksOn
        <5> QED BY <5>1 DEF Workers
      <4> QED BY <4>1 DEF Endangered
    <3> QED BY <2>5, <3>1, <3>2 DEF Owned, SignedBy
  <2> QED BY <2>4, <2>5
<1> QED BY <1>1, OwnedInit, OwnedNext, PTL DEF Spec

-----------------------------------------------------------------------------
(* The seats. *)

\* The call holds a seat: its row is counted, or not refunded yet.
Sits(r) ==
    \/ /\ \E a \in Addresses : row[a] = r
       /\ op[r].at \notin {"account", "link", "drop", "count"}
    \/ op[r].at = "uncount"
    \/ \E p \in Busy : op[p].at = "refund" /\ r \in op[p].found
Seated == {r \in Calls : Sits(r)}
\* What a purge has found is what it will remove, or has removed.
ListedBy(p) ==
    LET k == op[p]
    IN  /\ k.at \in {"each", "remove", "refund"} =>
              \A r \in k.found : op[r].at = "over" /\ op[r].addr \in k.emails
        /\ k.at \in {"each", "remove"} =>
              /\ \A r \in k.found : \E a \in k.emails : row[a] = r
              /\ \A a \in k.emails : row[a] # None => row[a] \in k.found
        /\ k.at = "refund" => \A a \in k.emails : row[a] = None
Listing == \A p \in Busy : ListedBy(p)

Clean == hurt \cup met = {}
CountInv == OwnedInv /\ (Clean => Listing /\ seats = Cardinality(Seated))

\* What was clean before a step that leaves it so.
LEMMA CleanBefore ==
  ASSUME TypeInv, NEW c \in Calls, Steps(c), Clean'
  PROVE  Clean /\ Sound = Addresses /\ Sound' = Addresses /\ met = {} /\ hurt' = {} /\ met' = {}
  BY HistoryStep DEF Clean, Sound

\* Where nothing has met, a purge shares no address with a call that disturbs it.
LEMMA NeverCrossed ==
  ASSUME KeptInv, met = {}, NEW p \in Busy, op[p].kind = "purge",
         NEW c \in Busy, c # p, op[c].kind \in Disturbing, NEW a \in op[p].emails
  PROVE  a \notin WorksOn(op[c]) /\ op[c].addr # a
<1>1. a \in Addresses
  BY DEF KeptInv, TypeInv, TypeOK, Busy, Op
<1>2. a \in WorksOn(op[p])
  BY <1>1, SetsAssumption DEF WorksOn
<1>3. a \notin WorksOn(op[c])
  BY <1>2 DEF KeptInv, Crossed, Disturbing
<1> QED BY <1>1, <1>3, SetsAssumption DEF WorksOn

\* Who changes the mailbox at an address works on it.
LEMMA RowChange ==
  ASSUME TypeInv, NEW c \in Calls, Steps(c), NEW a \in Addresses, row'[a] # row[a]
  PROVE  a \in WorksOn(op[c]) /\ op[c].kind \in Disturbing
<1>1. CASE InsertRow(c)
  <2>1. op[c].kind \in Makers /\ op[c].addr = a
    BY <1>1, AtStage, KindAt DEF InsertRow, At, TypeInv, TypeOK
  <2> QED BY <2>1, SetsAssumption DEF WorksOn, Makers, Disturbing
<1>2. CASE DropRow(c) \/ DeleteRow(c)
  <2>1. op[c].kind \in Makers
    BY <1>2, AtStage, KindAt DEF DropRow, DeleteRow, At
  <2>2. op[c].addr = a
    BY <1>2, RowGone DEF DropRow, DeleteRow
  <2> QED BY <2>1, <2>2, SetsAssumption DEF WorksOn, Makers, Disturbing
<1>3. CASE RemoveRows(c)
  <2>1. op[c].kind = "purge"
    BY <1>3, AtStage, KindAt DEF RemoveRows, At
  <2>2. a \in op[c].emails
    BY <1>3 DEF RemoveRows
  <2> QED BY <2>1, <2>2, SetsAssumption DEF WorksOn, Disturbing
<1>4. CASE UNCHANGED row
  BY <1>4
<1> QED BY <1>1, <1>2, <1>3, <1>4
    DEF Steps, MakeSteps, UndoSteps, PasswordSteps, PurgeSteps, Die, stores, CheckBlocked,
        CheckExists, CreateAccount, LinkRow, CountRow, CreateTenant, CreateAdmin, FindRow,
        DeleteAccount, GiveBack, DropTenant, SyncFind, Push, Verify, SavePassword, Bar,
        ListAdmins, ListRows, EachAccount, Refund, RemoveAdmins, RemoveTenant

\* Where a step of a purge leads, and what it leaves of its lists.
LEMMA PurgeStage ==
  ASSUME TypeInv, NEW c \in Calls, PurgeSteps(c)
  PROVE  /\ op'[c].at = "refund" => RemoveRows(c)
         /\ op'[c].at \in {"each", "remove"} => ListRows(c) \/ EachAccount(c)
         /\ ~ListAdmins(c) => op'[c].emails = op[c].emails
         /\ ~ListRows(c) => op'[c].found = op[c].found
         /\ ListRows(c) => op'[c].found = {row[a] : a \in op[c].emails} \ {None}
<1> DEFINE k == op[c]
<1>1. k \in Op /\ op \in [Calls -> Op]
  BY DEF TypeInv, TypeOK
<1>2. ASSUME NEW s, Goto(c, s)
      PROVE  op'[c].at = s /\ op'[c].emails = k.emails /\ op'[c].found = k.found
  <2>1. op'[c] = [k EXCEPT !.at = s]
    BY <1>1, <1>2 DEF Goto, Set
  <2> QED BY <1>1, <2>1 DEF Op
<1>3. CASE ListAdmins(c)
  <2> DEFINE listed == AdminsOf(k.org)
             l == [k EXCEPT !.emails = listed, !.at = "rows"]
  <2>1. op' = [op EXCEPT ![c] = l] /\ ~ListRows(c)
    BY <1>3 DEF ListAdmins, ListRows, Set, At
  <2>2. op'[c] = l
    BY <1>1, <2>1
  <2> HIDE DEF listed
  <2>3. l.at = "rows" /\ l.found = k.found
    BY <1>1 DEF Op
  <2> QED BY <1>3, <2>1, <2>2, <2>3
<1>4. CASE ListRows(c)
  <2> DEFINE found == {row[a] : a \in k.emails} \ {None}
             l == [k EXCEPT !.found = found, !.todo = found \cap linked, !.at = "each"]
  <2>1. op' = [op EXCEPT ![c] = l]
    BY <1>4 DEF ListRows, Set
  <2>2. op'[c] = l
    BY <1>1, <2>1
  <2> HIDE DEF found
  <2>3. l.at = "each" /\ l.emails = k.emails /\ l.found = found
    BY <1>1 DEF Op
  <2> QED BY <1>4, <2>2, <2>3 DEF found
<1>5. CASE EachAccount(c)
  <2>1. k.at = "each" /\ ~ListRows(c)
    BY <1>5 DEF EachAccount, ListRows, At
  <2>2. CASE Goto(c, "remove")
    BY <1>2, <1>5, <2>1, <2>2
  <2>3. CASE \E r \in k.todo : Set(c, [k EXCEPT !.todo = @ \ {r}])
    <3>1. PICK r \in k.todo : op' = [op EXCEPT ![c] = [k EXCEPT !.todo = @ \ {r}]]
      BY <2>3 DEF Set
    <3>2. op'[c] = [k EXCEPT !.todo = @ \ {r}]
      BY <1>1, <3>1
    <3>3. op'[c].at = "each" /\ op'[c].emails = k.emails /\ op'[c].found = k.found
      BY <1>1, <2>1, <3>2 DEF Op
    <3> QED BY <1>5, <2>1, <3>3
  <2> QED BY <1>5, <2>2, <2>3 DEF EachAccount
<1>6. CASE Bar(c) \/ RemoveRows(c) \/ Refund(c) \/ RemoveAdmins(c) \/ RemoveTenant(c)
  <2>1. ~ListRows(c) /\ ~ListAdmins(c)
    BY <1>6 DEF Bar, RemoveRows, Refund, RemoveAdmins, RemoveTenant, ListRows, ListAdmins, At
  <2>2. \E s : Goto(c, s) /\ (s = "refund" => RemoveRows(c)) /\ s \notin {"each", "remove"}
    BY <1>6 DEF Bar, RemoveRows, Refund, RemoveAdmins, RemoveTenant, Over
  <2> QED BY <1>2, <2>1, <2>2
<1> QED BY <1>3, <1>4, <1>5, <1>6 DEF PurgeSteps

\* The lists of purges stay true where nothing meets.
LEMMA ListingStep ==
  ASSUME OwnedInv, NEW c \in Calls, Steps(c), Clean', Listing
  PROVE  Listing'
<1> USE DEF OwnedInv, KeptInv
<1>1. PICK k : c \in Busy /\ Moves(c, k)
  BY StepMoves
<1>2. /\ \A d \in Calls \ {c} : op'[d] = op[d]
      /\ \A d \in Calls : op'[d].kind = op[d].kind /\ op'[d].addr = op[d].addr
      /\ \A r \in Calls : op[r].at = "over" => op'[r] = op[r]
      /\ op \in [Calls -> Op] /\ Sound = Addresses /\ met = {}
  <2>1. /\ \A d \in Calls \ {c} : op'[d] = op[d]
        /\ \A d \in Calls : op'[d].kind = op[d].kind /\ op'[d].addr = op[d].addr
    BY <1>1, MoveFacts
  <2> QED BY <1>1, <2>1, CleanBefore DEF Busy, TypeInv, TypeOK
<1>3. \A p \in Calls : op[p].emails \subseteq Addresses /\ op[p].found \subseteq Calls
  BY <1>2 DEF Op
<1>4. ASSUME NEW p \in Busy', p # c PROVE ListedBy(p)'
  <2>1. p \in Busy /\ p \in Calls /\ op'[p] = op[p] /\ ListedBy(p)
    BY <1>2, <1>4 DEF Busy, Listing
  <2>2. ASSUME op[p].kind = "purge", NEW a \in op[p].emails PROVE row'[a] = row[a]
    <3>1. a \in Addresses
      BY <1>3, <2>1, <2>2
    <3> QED BY <1>1, <1>2, <1>4, <2>1, <2>2, <3>1, NeverCrossed, RowChange
  <2>3. op[p].at \in {"each", "remove", "refund"} => op[p].kind = "purge"
    BY <2>1, AtStage, KindAt DEF At
  <2>4. \A r \in op[p].found : op[r].at = "over" => op'[r] = op[r]
    BY <1>2, <1>3, <2>1
  <2> QED BY <2>1, <2>2, <2>3, <2>4 DEF ListedBy
<1>5. ASSUME c \in Busy', op'[c].at \in {"each", "remove", "refund"} PROVE ListedBy(c)'
  <2>1. op[c].kind = "purge"
    <3>1. TypeInv'
      BY StepInv
    <3>2. op'[c] \in Op /\ op'[c].kind \in Kinds /\ Staged(op'[c])
      BY <1>5, <3>1 DEF TypeInv, TypeOK, Shape, ShapeOf, Staged
    <3> QED BY <1>2, <1>5, <3>2, KindAt
  <2>2. PurgeSteps(c)
    <3>1. ~Die(c)
      BY <1>5, Gone DEF Die, Over, Busy
    <3> QED BY <1>1, <2>1, <3>1, PurgeGoesOn
  <2>3. ListedBy(c)
    BY <1>1 DEF Listing
  <2>4. CASE ListRows(c)
    <3> DEFINE found == {row[a] : a \in op[c].emails} \ {None}
    <3>1. UNCHANGED row /\ op'[c].found = found /\ op'[c].emails = op[c].emails
      BY <2>2, <2>4, PurgeStage DEF ListRows, ListAdmins, stores, At
    <3>2. ASSUME NEW a \in op[c].emails, NEW r \in Calls, row[a] = r
          PROVE  op'[r].at = "over" /\ op'[r].addr = a
      <4>1. a \in Addresses /\ r # None
        BY <1>3, <3>2, SetsAssumption
      <4>2. op[r].addr = a /\ op[r].kind \in Makers
        BY <3>2, <4>1 DEF TypeInv, Named, Known, MadeByMakers
      <4>3. r \notin Busy
        <5>1. r # c
          BY <2>1, <4>2 DEF Makers
        <5> QED BY <1>1, <1>2, <2>1, <3>2, <4>2, <5>1, NeverCrossed DEF Makers, Disturbing
      <4>4. SignedBy(a, r)
        BY <1>2, <3>2, <4>1, <4>3 DEF Owned
      <4>5. op[r].at = "over"
        BY <4>1, <4>4 DEF SignedBy, TypeInv, Named
      <4> QED BY <1>2, <4>2, <4>5
    <3>3. \A a \in op[c].emails : row[a] \in Calls \cup {None}
      BY <1>3 DEF TypeInv, TypeOK
    <3>4. op'[c].at = "each"
      <4>1. op[c] \in Op
        BY <1>2
      <4>2. op' = [op EXCEPT ![c] = [op[c] EXCEPT !.found = found, !.todo = found \cap linked,
                                                  !.at = "each"]]
        BY <2>4 DEF ListRows, Set
      <4>3. op'[c] = [op[c] EXCEPT !.found = found, !.todo = found \cap linked, !.at = "each"]
        BY <1>2, <4>2
      <4> HIDE DEF found
      <4> QED BY <4>1, <4>3 DEF Op
    <3>5. ASSUME NEW r \in found PROVE /\ op'[r].at = "over" /\ op'[r].addr \in op[c].emails
                                       /\ \E a \in op[c].emails : row[a] = r
      <4>1. PICK a \in op[c].emails : row[a] = r /\ r # None
        BY <3>5
      <4> QED BY <3>2, <3>3, <4>1
    <3>6. \A a \in op[c].emails : row[a] # None => row[a] \in found
      OBVIOUS
    <3> HIDE DEF found
    <3> QED BY <3>1, <3>4, <3>5, <3>6 DEF ListedBy
  <2>5. CASE EachAccount(c)
    <3>1. op[c].at = "each" /\ UNCHANGED row /\ ~ListRows(c) /\ ~ListAdmins(c) /\ ~RemoveRows(c)
      BY <2>5 DEF EachAccount, At, ListRows, ListAdmins, RemoveRows
    <3>2. /\ op'[c].found = op[c].found /\ op'[c].emails = op[c].emails
          /\ op'[c].at \in {"each", "remove"}
      BY <1>5, <2>2, <3>1, PurgeStage
    <3>3. \A r \in op[c].found : op'[r] = op[r]
      BY <1>2, <1>3, <2>3, <3>1 DEF ListedBy
    <3> QED BY <2>3, <3>1, <3>2, <3>3 DEF ListedBy
  <2>6. CASE RemoveRows(c)
    <3>1. op[c].at = "remove" /\ ~ListRows(c) /\ ~ListAdmins(c) /\ Goto(c, "refund")
      BY <2>6 DEF RemoveRows, At, ListRows, ListAdmins
    <3>2. op'[c].found = op[c].found /\ op'[c].emails = op[c].emails /\ op'[c].at = "refund"
      BY <2>2, <3>1, Gone, PurgeStage
    <3>3. \A r \in op[c].found : op'[r] = op[r] /\ op[r].at = "over" /\ op[r].addr \in op[c].emails
      BY <1>2, <1>3, <2>3, <3>1 DEF ListedBy
    <3>4. \A a \in op[c].emails : row'[a] = None
      BY <1>3, <2>6 DEF RemoveRows
    <3> QED BY <3>2, <3>3, <3>4 DEF ListedBy
  <2> QED BY <1>5, <2>2, <2>4, <2>5, <2>6, PurgeStage
<1>6. op'[c].at \notin {"each", "remove", "refund"} => ListedBy(c)'
  BY DEF ListedBy
<1> QED BY <1>4, <1>5, <1>6 DEF Listing

\* The seats are finitely many.
LEMMA SeatsFinite == IsFiniteSet(Seated) /\ Cardinality(Seated) \in Nat
<1>1. IsFiniteSet(Seated)
  BY SetsAssumption, FS_Subset DEF Seated
<1> QED BY <1>1, FS_CardinalityType

\* Of a call under way, only its own row and its stage count.
LEMMA BusySits ==
  ASSUME TypeInv, Listing, NEW c \in Busy
  PROVE  Sits(c) <=> \/ /\ row[op[c].addr] = c /\ op[c].addr \in Addresses
                        /\ op[c].at \notin {"account", "link", "drop", "count"}
                     \/ op[c].at = "uncount"
<1>1. c \in Calls /\ op[c].at # "over" /\ c # None
  BY SetsAssumption DEF Busy
<1>2. \A a \in Addresses : row[a] = c => op[c].addr = a
  BY <1>1 DEF TypeInv, Named, Known
<1>3. \A p \in Busy : op[p].at = "refund" => c \notin op[p].found
  BY <1>1 DEF Listing, ListedBy
<1> QED BY <1>2, <1>3 DEF Sits

\* Calls that do not move keep their seat, but for the rows and the refunds of purges.
LEMMA OthersSit ==
  ASSUME KeptInv, met = {}, NEW c \in Calls, Steps(c), ~RemoveRows(c), ~Refund(c),
         Die(c) => op[c].kind # "purge", NEW r \in Calls, r # c
  PROVE  Sits(r)' <=> Sits(r)
<1> USE DEF KeptInv
<1>1. PICK k : c \in Busy /\ Moves(c, k)
  BY StepMoves
<1>2. \A d \in Calls \ {c} : op'[d] = op[d]
  BY <1>1, MoveFacts
<1>3. r # None /\ c # None
  BY SetsAssumption
<1>4. ASSUME NEW a \in Addresses PROVE row'[a] = r <=> row[a] = r
  <2>1. CASE InsertRow(c)
    BY <1>2, <1>3, <2>1 DEF InsertRow, TypeInv, TypeOK
  <2>2. CASE DropRow(c)
    BY <1>3, <2>2, RowGone DEF DropRow
  <2>3. CASE DeleteRow(c)
    <3>1. op[c].kind \in Makers /\ op[c].at = "delete"
      BY <2>3, AtStage, KindAt DEF DeleteRow, At
    <3>2. op[c].held = c
      BY <1>1, <3>1 DEF Holding, HoldsOwn
    <3> QED BY <1>3, <2>3, <3>2, RowGone DEF DeleteRow
  <2>4. CASE UNCHANGED row
    BY <2>4
  <2> QED BY <2>1, <2>2, <2>3, <2>4
      DEF Steps, MakeSteps, UndoSteps, PasswordSteps, PurgeSteps, Die, stores, CheckBlocked,
          CheckExists, CreateAccount, LinkRow, CountRow, CreateTenant, CreateAdmin, FindRow,
          DeleteAccount, GiveBack, DropTenant, SyncFind, Push, Verify, SavePassword, Bar,
          ListAdmins, ListRows, EachAccount, RemoveAdmins, RemoveTenant
<1>5. op[c].at # "refund" /\ op'[c].at # "refund"
  <2>1. op[c].kind = "purge" => PurgeSteps(c)
    BY <1>1, PurgeGoesOn
  <2>2. op[c].at = "refund" => op[c].kind = "purge"
    BY AtStage, KindAt DEF At
  <2>3. op'[c].at = "refund" => op[c].kind = "purge"
    <3>1. TypeInv' /\ op'[c].kind = op[c].kind
      BY <1>1, StepInv, MoveFacts
    <3>2. At(c, "refund")' => op'[c] \in Op /\ op'[c].kind \in Kinds /\ Staged(op'[c])
      BY <3>1 DEF TypeInv, TypeOK, Shape, ShapeOf, Staged, At
    <3> QED BY <3>1, <3>2, KindAt DEF At
  <2>4. PurgeSteps(c) => op[c].at # "refund"
    BY DEF PurgeSteps, Bar, ListAdmins, ListRows, EachAccount, RemoveRows, Refund, RemoveAdmins,
           RemoveTenant, At
  <2> QED BY <2>1, <2>2, <2>3, <2>4, PurgeStage
<1>6. (\E p \in Busy : op[p].at = "refund" /\ r \in op[p].found)'
        <=> \E p \in Busy : op[p].at = "refund" /\ r \in op[p].found
  <2>1. \A p \in Calls \ {c} : (p \in Busy)' <=> p \in Busy
    BY <1>2 DEF Busy
  <2> QED BY <1>2, <1>5, <2>1 DEF Busy
<1> QED BY <1>2, <1>4, <1>6 DEF Sits

\* A call that neither makes mailboxes nor purges has no seat and counts none.
LEMMA BystanderSits ==
  ASSUME OwnedInv, Listing, NEW c \in Busy, Steps(c), Listing',
         op[c].kind \notin Makers \cup {"purge"}
  PROVE  ~Sits(c) /\ ~Sits(c)' /\ UNCHANGED seats
<1> USE DEF OwnedInv, KeptInv
<1>1. c \in Calls /\ op[c].kind \in {"add", "reset", "signIn"} /\ op[c].at \notin {"idle", "over"}
      /\ c # None
  BY SetsAssumption DEF Busy, TypeInv, Shape, ShapeOf, Kinds, StagesOf, Makers
<1>2. TypeInv' /\ MadeByMakers' /\ op'[c].kind = op[c].kind
  BY <1>1, StepInv, MadeStep, StepMoves, MoveFacts
<1>3. \A a \in Addresses : row[a] # c /\ row'[a] # c
  BY <1>1, <1>2 DEF MadeByMakers
<1>4. op[c].at # "uncount"
  BY <1>1, AtStage, KindAt DEF At, Makers
<1>5. op'[c].at # "uncount"
  <2>1. op'[c].at = "uncount" => op'[c] \in Op /\ op'[c].kind \in Kinds /\ Staged(op'[c])
    BY <1>1, <1>2 DEF TypeInv, TypeOK, Shape, ShapeOf, Staged
  <2> QED BY <1>1, <1>2, <2>1, KindAt DEF Makers
<1>6. UNCHANGED seats
  <2>1. ~CountRow(c) /\ ~GiveBack(c) /\ ~Refund(c)
    BY <1>1, AtStage, KindAt DEF CountRow, GiveBack, Refund, At, Makers
  <2> QED BY <2>1
      DEF Steps, MakeSteps, UndoSteps, PasswordSteps, PurgeSteps, Die, stores, CheckBlocked,
          CheckExists, InsertRow, CreateAccount, LinkRow, DropRow, CreateTenant, CreateAdmin,
          FindRow, DeleteAccount, DeleteRow, DropTenant, SyncFind, Push, Verify, SavePassword,
          Bar, ListAdmins, ListRows, EachAccount, RemoveRows, RemoveAdmins, RemoveTenant
<1>7. \A p \in Busy : op[p].at = "refund" => c \notin op[p].found
  BY <1>1 DEF Listing, ListedBy
<1>8. \A p \in Busy' : op'[p].at = "refund" => c \notin op'[p].found
  <2>1. ASSUME NEW p \in Busy', op'[p].at = "refund" PROVE p # c /\ op'[p] = op[p] /\ p \in Busy
    <3>1. p # c
      <4>1. op'[c].at = "refund" => op'[c] \in Op /\ op'[c].kind \in Kinds /\ Staged(op'[c])
        BY <1>1, <1>2 DEF TypeInv, TypeOK, Shape, ShapeOf, Staged
      <4> QED BY <1>1, <1>2, <2>1, <4>1, KindAt
    <3> QED BY <1>1, <2>1, <3>1, StepMoves, MoveFacts DEF Busy
  <2> QED BY <1>7, <2>1
<1> QED BY <1>3, <1>4, <1>5, <1>6, <1>7, <1>8 DEF Sits

\* A purge is no seat; only its refund moves the counter.
LEMMA PurgeSits ==
  ASSUME OwnedInv, Listing, NEW c \in Busy, Steps(c), Listing', ~Die(c), op[c].kind = "purge"
  PROVE  ~Sits(c) /\ ~Sits(c)' /\ (~Refund(c) => UNCHANGED seats)
<1> USE DEF OwnedInv, KeptInv
<1>1. c \in Calls /\ op[c].at \notin {"idle", "over"} /\ c # None
  BY SetsAssumption DEF Busy
<1>2. TypeInv' /\ MadeByMakers' /\ op'[c].kind = "purge" /\ PurgeSteps(c)
  BY <1>1, StepInv, MadeStep, StepMoves, MoveFacts, PurgeGoesOn
<1>3. \A a \in Addresses : row[a] # c /\ row'[a] # c
  BY <1>1, <1>2 DEF MadeByMakers, Makers
<1>4. op[c].at # "uncount"
  BY <1>1, AtStage, KindAt DEF At, Makers
<1>5. op'[c].at # "uncount"
  <2>1. op'[c].at = "uncount" => op'[c] \in Op /\ op'[c].kind \in Kinds /\ Staged(op'[c])
    BY <1>1, <1>2 DEF TypeInv, TypeOK, Shape, ShapeOf, Staged
  <2> QED BY <1>2, <2>1, KindAt DEF Makers
<1>6. ~Refund(c) => UNCHANGED seats
  BY <1>2 DEF PurgeSteps, stores, Bar, ListAdmins, ListRows, EachAccount, RemoveRows, RemoveAdmins,
              RemoveTenant
<1>7. \A p \in Busy : op[p].at = "refund" => c \notin op[p].found
  BY <1>1 DEF Listing, ListedBy
<1>8. \A p \in Busy' : op'[p].at = "refund" => c \notin op'[p].found
  <2>1. ASSUME NEW p \in Busy', op'[p].at = "refund", c \in op'[p].found PROVE FALSE
    <3>1. CASE p = c
      <4>1. RemoveRows(c)
        BY <1>1, <1>2, <2>1, <3>1, PurgeStage
      <4>2. op[c].at = "remove" /\ ~ListRows(c)
        BY <4>1 DEF RemoveRows, ListRows, At
      <4>3. c \in op[c].found
        BY <1>1, <1>2, <2>1, <3>1, <4>2, PurgeStage
      <4> QED BY <1>1, <4>2, <4>3 DEF Listing, ListedBy
    <3>2. CASE p # c
      <4>1. op'[p] = op[p] /\ p \in Busy
        BY <1>1, <2>1, <3>2, StepMoves, MoveFacts DEF Busy
      <4> QED BY <1>7, <2>1, <4>1
    <3> QED BY <3>1, <3>2
  <2> QED BY <2>1
<1> QED BY <1>3, <1>4, <1>5, <1>6, <1>7, <1>8 DEF Sits

\* A call that makes a mailbox takes a seat when it counts its row, and leaves it
\* when it gives that back.
LEMMA MakerSits ==
  ASSUME OwnedInv, OwnedInv', Listing, Listing', NEW c \in Busy, Steps(c), Clean',
         op[c].kind \in Makers
  PROVE  \/ ~Sits(c) /\ Sits(c)' /\ seats' = seats + 1
         \/ Sits(c) /\ ~Sits(c)' /\ seats' = IF seats > 0 THEN seats - 1 ELSE seats
         \/ (Sits(c)' <=> Sits(c)) /\ UNCHANGED seats
<1> USE DEF OwnedInv, KeptInv
<1> DEFINE a == op[c].addr
           four == {"account", "link", "drop", "count"}
<1>1. /\ c \in Calls /\ op[c].at \notin {"idle", "over"} /\ c # None
      /\ a \in Addresses /\ a \in Sound /\ a \in Sound' /\ a \notin met /\ a \notin hurt'
  <2>1. c \in Calls /\ op[c].at \notin {"idle", "over"} /\ c # None /\ a \in Addresses
    BY SetsAssumption DEF Busy, TypeInv, Shape, ShapeOf, Makers
  <2> QED BY <2>1, CleanBefore
<1>2. HoldsOwn(c) /\ LacksOwn(c)
  BY <1>1 DEF Holding, Lacking
<1>3. op'[c].kind = op[c].kind /\ op'[c].addr = a
  BY <1>1, StepMoves, MoveFacts
<1>4. Sits(c) <=> (row[a] = c /\ op[c].at \notin four) \/ op[c].at = "uncount"
  BY <1>1, BusySits
<1>5. Sits(c)' <=> (row'[a] = c /\ op'[c].at \notin four) \/ op'[c].at = "uncount"
  <2>1. TypeInv' /\ \A x \in Addresses : row'[x] = c => op'[c].addr = x
    BY <1>1 DEF TypeInv, Named, Known
  <2>2. \A p \in Busy' : op'[p].at = "refund" => c \notin op'[p].found
    <3>1. ASSUME NEW p \in Busy', op'[p].at = "refund", c \in op'[p].found PROVE FALSE
      <4>1. p # c
        <5>1. op'[c] \in Op /\ op'[c].kind \in Kinds /\ (p = c => Staged(op'[c]))
          BY <1>1, <1>3, <2>1, <3>1 DEF TypeInv, TypeOK, Shape, ShapeOf, Staged, Busy
        <5> QED BY <1>3, <3>1, <5>1, KindAt DEF Makers
      <4>2. op'[p] = op[p] /\ p \in Busy
        BY <1>1, <3>1, <4>1, StepMoves, MoveFacts DEF Busy
      <4> QED BY <1>1, <3>1, <4>2 DEF Listing, ListedBy
    <3> QED BY <3>1
  <2> QED BY <1>1, <1>3, <2>1, <2>2 DEF Sits
<1>6. ASSUME NEW s, Goto(c, s) PROVE op'[c].at = s
  BY <1>1, <1>6, Gone
<1> HIDE DEF a
<1>7. CASE CheckBlocked(c) \/ CheckExists(c)
  <2>1. row[a] # c /\ UNCHANGED <<row, seats>> /\ op[c].at # "uncount"
    BY <1>2, <1>7 DEF CheckBlocked, CheckExists, At, LacksOwn, a, stores
  <2>2. op'[c].at # "uncount"
    BY <1>6, <1>7 DEF CheckBlocked, CheckExists, Over
  <2> QED BY <1>4, <1>5, <2>1, <2>2
<1>8. CASE InsertRow(c)
  <2>1. row[a] # c /\ UNCHANGED seats /\ op[c].at = "row"
    BY <1>2, <1>8 DEF InsertRow, At, LacksOwn, a
  <2>2. (op'[c].at = "over" /\ UNCHANGED row) \/ op'[c].at = "account"
    BY <1>6, <1>8 DEF InsertRow, Over
  <2> QED BY <1>4, <1>5, <2>1, <2>2
<1>9. CASE CreateAccount(c) \/ LinkRow(c)
  <2>1. op[c].at \in four /\ UNCHANGED seats
    BY <1>9 DEF CreateAccount, LinkRow, At
  <2>2. op'[c].at \in four
    BY <1>6, <1>9 DEF CreateAccount, LinkRow
  <2> QED BY <1>4, <1>5, <2>1, <2>2
<1>10. CASE DropRow(c)
  <2>1. op[c].at \in four /\ UNCHANGED seats /\ op'[c].at = "over"
    BY <1>6, <1>10 DEF DropRow, At, Over
  <2>2. row'[a] # c
    BY <1>1, <1>10 DEF DropRow, RemoveRow, TypeInv, TypeOK, a
  <2> QED BY <1>4, <1>5, <2>1, <2>2
<1>11. CASE CountRow(c)
  <2>1. op[c].at \in four /\ row[a] = c /\ UNCHANGED row /\ seats' = seats + 1
    BY <1>2, <1>11 DEF CountRow, At, HoldsOwn, a
  <2>2. op'[c].at \in {"find", "tenant"}
    BY <1>6, <1>11 DEF CountRow
  <2> QED BY <1>4, <1>5, <2>1, <2>2
<1>12. CASE CreateTenant(c) \/ CreateAdmin(c)
  <2>1. row[a] = c /\ UNCHANGED <<row, seats>> /\ op[c].at \notin four
    BY <1>2, <1>12 DEF CreateTenant, CreateAdmin, At, HoldsOwn, a
  <2>2. op'[c].at \in {"admin", "find", "over"}
    BY <1>6, <1>12 DEF CreateTenant, CreateAdmin, Over
  <2> QED BY <1>4, <1>5, <2>1, <2>2
<1>13. CASE FindRow(c)
  <2>1. row[a] = c /\ c \in linked /\ UNCHANGED <<row, seats>> /\ op[c].at \notin four
    BY <1>2, <1>13 DEF FindRow, At, HoldsOwn, a, stores
  <2>2. op' = [op EXCEPT ![c] = [op[c] EXCEPT !.held = c, !.at = "off"]]
    BY <1>1, <1>13, <2>1 DEF FindRow, Set, a
  <2>3. op'[c].at = "off"
    BY <1>1, <2>2 DEF TypeInv, TypeOK, Op
  <2> QED BY <1>4, <1>5, <2>1, <2>3
<1>14. CASE DeleteAccount(c)
  <2>1. row[a] = c /\ UNCHANGED <<row, seats>> /\ op[c].at \notin four
    BY <1>2, <1>14 DEF DeleteAccount, At, HoldsOwn, a
  <2> QED BY <1>4, <1>5, <1>6, <1>14, <2>1 DEF DeleteAccount
<1>15. CASE DeleteRow(c)
  <2>1. row[a] = c /\ UNCHANGED seats /\ op[c].at \notin four
    BY <1>2, <1>15 DEF DeleteRow, At, HoldsOwn, a
  <2> QED BY <1>4, <1>5, <1>6, <1>15, <2>1 DEF DeleteRow
<1>16. CASE GiveBack(c)
  <2>1. /\ op[c].at = "uncount" /\ row[a] # c /\ UNCHANGED row
        /\ seats' = IF seats > 0 THEN seats - 1 ELSE seats
    BY <1>2, <1>16 DEF GiveBack, At, LacksOwn, a
  <2>2. op'[c].at # "uncount"
    BY <1>6, <1>16 DEF GiveBack, Undone, Over
  <2> QED BY <1>4, <1>5, <2>1, <2>2
<1>17. CASE DropTenant(c)
  <2>1. op[c].at = "untenant" /\ row[a] # c /\ UNCHANGED <<row, seats>>
    BY <1>2, <1>17 DEF DropTenant, At, LacksOwn, a
  <2>2. op'[c].at = "over"
    BY <1>6, <1>17 DEF DropTenant, Over
  <2> QED BY <1>4, <1>5, <2>1, <2>2
<1>18. ~Die(c)
  <2>1. a \in WorksOn(op[c])
    BY <1>1, SetsAssumption DEF WorksOn, a
  <2> QED BY <1>1, <2>1 DEF Die, Makers
<1> QED BY <1>7, <1>8, <1>9, <1>10, <1>11, <1>12, <1>13, <1>14, <1>15, <1>16, <1>17, <1>18,
           MakerGoesOn DEF MakeSteps, UndoSteps

\* The rows a purge removes stay seats until it refunds them.
LEMMA RemovedSit ==
  ASSUME TypeInv, Listing, NEW c \in Busy, RemoveRows(c), NEW r \in Calls, r # c
  PROVE  Sits(r)' <=> Sits(r)
<1>1. /\ c \in Calls /\ op[c].at = "remove" /\ Goto(c, "refund")
      /\ row' = [a \in Addresses |-> IF a \in op[c].emails THEN None ELSE row[a]]
  BY DEF RemoveRows, At, Busy
<1>2. op'[c].at = "refund" /\ op'[c].found = op[c].found /\ \A d \in Calls \ {c} : op'[d] = op[d]
  <2>1. op \in [Calls -> Op] /\ op' = [op EXCEPT ![c] = [op[c] EXCEPT !.at = "refund"]]
    BY <1>1 DEF TypeInv, TypeOK, Goto, Set
  <2>2. op'[c] = [op[c] EXCEPT !.at = "refund"] /\ op[c] \in Op
    BY <1>1, <2>1
  <2> QED BY <2>1, <2>2 DEF Op
<1>3. /\ \A x \in op[c].found : op[x].at = "over" /\ \E a \in op[c].emails : row[a] = x
      /\ \A a \in op[c].emails : row[a] # None => row[a] \in op[c].found
      /\ op[c].emails \subseteq Addresses
  BY <1>1 DEF Listing, ListedBy, TypeInv, TypeOK, Op
<1>4. r # None
  BY SetsAssumption
<1>5. \A p \in Calls \ {c} : (p \in Busy)' <=> p \in Busy
  BY <1>2 DEF Busy
<1>6. c \in Busy'
  BY <1>1, <1>2 DEF Busy
<1>7. op'[r] = op[r]
  BY <1>2
<1>8. ASSUME Sits(r) PROVE Sits(r)'
  <2>1. CASE op[r].at = "uncount"
    BY <1>7, <2>1 DEF Sits
  <2>2. CASE \E p \in Busy : op[p].at = "refund" /\ r \in op[p].found
    <3>1. PICK p \in Busy : op[p].at = "refund" /\ r \in op[p].found
      BY <2>2
    <3>2. p \in Busy' /\ op'[p] = op[p]
      BY <1>1, <1>2, <1>5, <3>1 DEF Busy
    <3> QED BY <3>1, <3>2 DEF Sits
  <2>3. ASSUME NEW a \in Addresses, row[a] = r, op[r].at \notin {"account", "link", "drop", "count"}
        PROVE  Sits(r)'
    <3>1. CASE a \in op[c].emails
      BY <1>2, <1>3, <1>4, <1>6, <2>3, <3>1 DEF Sits
    <3>2. CASE a \notin op[c].emails
      BY <1>1, <1>7, <2>3, <3>2 DEF Sits
    <3> QED BY <3>1, <3>2
  <2> QED BY <1>8, <2>1, <2>2, <2>3 DEF Sits
<1>9. ASSUME Sits(r)' PROVE Sits(r)
  <2>1. CASE op'[r].at = "uncount"
    BY <1>7, <2>1 DEF Sits
  <2>2. ASSUME NEW p \in Busy', op'[p].at = "refund", r \in op'[p].found PROVE Sits(r)
    <3>1. CASE p = c
      <4>1. op[r].at = "over" /\ \E a \in Addresses : row[a] = r
        BY <1>2, <1>3, <2>2, <3>1
      <4> QED BY <4>1 DEF Sits
    <3>2. CASE p # c
      <4>1. p \in Busy /\ op'[p] = op[p]
        BY <1>2, <2>2, <3>2 DEF Busy
      <4> QED BY <2>2, <4>1 DEF Sits
    <3> QED BY <3>1, <3>2
  <2>3. ASSUME NEW a \in Addresses, row'[a] = r, op'[r].at \notin {"account", "link", "drop", "count"}
        PROVE  Sits(r)
    BY <1>1, <1>4, <1>7, <2>3 DEF Sits
  <2> QED BY <1>9, <2>1, <2>2, <2>3 DEF Sits
<1> QED BY <1>8, <1>9

\* What a purge refunds were seats, and are none afterwards.
LEMMA RefundedSit ==
  ASSUME KeptInv, met = {}, Listing, NEW c \in Busy, Refund(c), NEW r \in Calls, r # c
  PROVE  /\ r \in op[c].found => Sits(r) /\ ~Sits(r)'
         /\ r \notin op[c].found => (Sits(r)' <=> Sits(r))
<1> USE DEF KeptInv
<1>1. c \in Calls /\ op[c].at = "refund" /\ Goto(c, "admins") /\ row' = row
  BY DEF Refund, At, Busy
<1>2. op'[c].at = "admins" /\ \A d \in Calls \ {c} : op'[d] = op[d]
  BY <1>1, Gone DEF TypeInv, TypeOK, Goto, Set
<1>3. /\ \A x \in op[c].found : op[x].at = "over" /\ op[x].addr \in op[c].emails
      /\ \A a \in op[c].emails : row[a] = None
      /\ op[c].emails \subseteq Addresses /\ op[c].kind = "purge"
  BY <1>1, AtStage, KindAt DEF Listing, ListedBy, TypeInv, TypeOK, Op, At
<1>4. r # None /\ op'[r] = op[r]
  BY <1>2, SetsAssumption
<1>5. \A p \in Calls \ {c} : (p \in Busy)' <=> p \in Busy
  BY <1>2 DEF Busy
<1>6. ASSUME r \in op[c].found PROVE ~Sits(r)'
  <2>1. \A a \in Addresses : row'[a] # r
    BY <1>1, <1>3, <1>4, <1>6 DEF TypeInv, Named, Known
  <2>2. op'[r].at # "uncount"
    BY <1>3, <1>4, <1>6
  <2>3. ASSUME NEW p \in Busy', op'[p].at = "refund", r \in op'[p].found PROVE FALSE
    <3>1. p # c /\ p \in Busy /\ op'[p] = op[p] /\ p \in Calls
      BY <1>2, <2>3 DEF Busy
    <3>2. op[r].addr \in op[p].emails /\ op[p].kind = "purge"
      BY <2>3, <3>1, AtStage, KindAt DEF Listing, ListedBy, At
    <3>3. op[r].addr \in op[c].emails /\ op[r].addr \in Addresses
      BY <1>3, <1>6
    <3>4. op[r].addr \in WorksOn(op[p])
      BY <3>2, <3>3, SetsAssumption DEF WorksOn
    <3> QED BY <1>3, <3>1, <3>2, <3>3, <3>4, NeverCrossed DEF Disturbing
  <2> QED BY <2>1, <2>2, <2>3 DEF Sits
<1>7. ASSUME NEW p \in Busy, op[p].at = "refund", r \in op[p].found, r \notin op[c].found
      PROVE  p \in Busy' /\ op'[p] = op[p]
  <2>1. p # c /\ p \in Calls
    BY <1>7 DEF Busy
  <2> QED BY <1>2, <1>5, <1>7, <2>1
<1>8. ASSUME NEW p \in Busy', op'[p].at = "refund" PROVE p \in Busy /\ op'[p] = op[p]
  <2>1. p # c /\ p \in Calls
    BY <1>2, <1>8 DEF Busy
  <2> QED BY <1>2, <1>5, <1>8, <2>1
<1>9. r \in op[c].found => Sits(r)
  BY <1>1 DEF Sits
<1>10. r \notin op[c].found => (Sits(r)' <=> Sits(r))
  BY <1>1, <1>4, <1>7, <1>8 DEF Sits
<1> QED BY <1>6, <1>9, <1>10

\* Every step counts the seats it takes and leaves.
LEMMA SeatsStep ==
  ASSUME OwnedInv, OwnedInv', Listing, Listing', NEW c \in Calls, Steps(c), Clean',
         seats = Cardinality(Seated)
  PROVE  seats' = Cardinality(Seated')
<1> USE DEF OwnedInv, KeptInv
<1>1. c \in Busy /\ met = {} /\ IsFiniteSet(Seated) /\ Cardinality(Seated) \in Nat
  BY StepMoves, CleanBefore, SeatsFinite
<1>2. Seated' = {r \in Calls : Sits(r)'}
  BY DEF Seated
<1>3. Die(c) => op[c].kind \notin Makers \cup {"purge"}
  <2>1. WorksOn(op[c]) # {} \/ op[c].kind \notin Makers \cup {"purge"}
    <3>1. op[c].kind \in Makers => op[c].addr \in Addresses
      BY <1>1 DEF TypeInv, Shape, ShapeOf, Busy, Makers
    <3>2. op[c].kind = "purge" => op[op[c].org].addr \in Addresses
      BY <1>1 DEF TypeInv, Shape, ShapeOf, Busy
    <3> QED BY <3>1, <3>2, SetsAssumption DEF WorksOn
  <2>2. hurt' = {} /\ met' = {}
    BY CleanBefore
  <2> QED BY <2>1, <2>2 DEF Die, Makers
<1>4. CASE op[c].kind = "purge"
  <2>1. ~Sits(c) /\ ~Sits(c)' /\ (~Refund(c) => UNCHANGED seats)
    BY <1>1, <1>3, <1>4, PurgeSits
  <2>2. CASE Refund(c)
    <3> DEFINE found == op[c].found
    <3>1. found \subseteq Seated /\ Seated' = Seated \ found
      <4>1. found \subseteq Calls /\ op[c].at = "refund"
        BY <2>2 DEF TypeInv, TypeOK, Op, Refund, At
      <4>2. c \notin found
        BY <1>1, <4>1 DEF Listing, ListedBy
      <4> QED BY <1>1, <1>2, <2>1, <2>2, <4>1, <4>2, RefundedSit DEF Seated
    <3>2. IsFiniteSet(found)
      BY <1>1, <3>1, FS_Subset
    <3>3. Seated \cap found = found
      BY <3>1
    <3>4. Cardinality(Seated') = Cardinality(Seated) - Cardinality(found)
      BY <1>1, <3>1, <3>2, <3>3, FS_Difference
    <3>5. seats' = seats - Cardinality(found)
      BY <2>2 DEF Refund
    <3> QED BY <3>4, <3>5
  <2>3. CASE RemoveRows(c)
    <3>1. Seated' = Seated
      BY <1>1, <1>2, <2>1, <2>3, RemovedSit DEF Seated
    <3>2. ~Refund(c)
      BY <2>3 DEF RemoveRows, Refund, At
    <3> QED BY <2>1, <3>1, <3>2
  <2>4. CASE ~Refund(c) /\ ~RemoveRows(c)
    <3>1. Seated' = Seated
      BY <1>1, <1>2, <1>3, <1>4, <2>1, <2>4, OthersSit DEF Seated
    <3> QED BY <2>1, <2>4, <3>1
  <2> QED BY <2>2, <2>3, <2>4
<1>5. ASSUME op[c].kind # "purge"
      PROVE  \A r \in Calls \ {c} : Sits(r)' <=> Sits(r)
  <2>1. ~RemoveRows(c) /\ ~Refund(c)
    BY <1>1, <1>5, AtStage, KindAt DEF RemoveRows, Refund, At
  <2> QED BY <1>1, <1>5, <2>1, OthersSit
<1>6. CASE op[c].kind \in Makers
  <2>1. \A r \in Calls \ {c} : Sits(r)' <=> Sits(r)
    BY <1>5, <1>6 DEF Makers
  <2>2. CASE ~Sits(c) /\ Sits(c)' /\ seats' = seats + 1
    <3>1. Seated' = Seated \cup {c} /\ c \notin Seated
      BY <1>2, <2>1, <2>2 DEF Seated
    <3> QED BY <1>1, <2>2, <3>1, FS_AddElement
  <2>3. CASE Sits(c) /\ ~Sits(c)' /\ seats' = IF seats > 0 THEN seats - 1 ELSE seats
    <3>1. Seated' = Seated \ {c} /\ c \in Seated
      BY <1>2, <2>1, <2>3 DEF Seated
    <3>2. Cardinality(Seated') = Cardinality(Seated) - 1
      BY <1>1, <3>1, FS_RemoveElement
    <3>3. seats > 0
      BY <1>1, <3>1, FS_EmptySet
    <3> QED BY <2>3, <3>2, <3>3
  <2>4. CASE (Sits(c)' <=> Sits(c)) /\ UNCHANGED seats
    <3>1. Seated' = Seated
      BY <1>2, <2>1, <2>4 DEF Seated
    <3> QED BY <2>4, <3>1
  <2> QED BY <1>1, <1>6, <2>2, <2>3, <2>4, MakerSits
<1>7. CASE op[c].kind \notin Makers \cup {"purge"}
  <2>1. ~Sits(c) /\ ~Sits(c)' /\ UNCHANGED seats
    BY <1>1, <1>7, BystanderSits
  <2>2. Seated' = Seated
    BY <1>2, <1>5, <1>7, <2>1 DEF Seated
  <2> QED BY <2>1, <2>2
<1> QED BY <1>4, <1>6, <1>7

\* A call that begins has no seat, and takes none from another.
LEMMA CountOpen ==
  ASSUME CountInv, NEW c \in Calls, NEW k, Opens(c, k)
  PROVE  CountInv'
<1> USE DEF CountInv
<1>1. OwnedInv' /\ TypeInv /\ TypeInv'
  BY OwnedOpen DEF OwnedInv, KeptInv
<1>2. /\ op[c].at = "idle" /\ op'[c] = k /\ \A d \in Calls \ {c} : op'[d] = op[d]
      /\ met \subseteq met' /\ hurt' = hurt /\ UNCHANGED stores /\ c # None
      /\ k.at \in {"check", "exists", "sync", "verify", "bar"}
  BY <1>1, OpenTyped, SetsAssumption DEF Opens, Begin
<1>3. Busy' = Busy \cup {c} /\ c \notin Busy
  BY <1>2 DEF Busy
<1>4. \A p \in Busy : op'[p] = op[p] /\ p # c
  BY <1>2, <1>3 DEF Busy
<1>5. ASSUME Clean' PROVE Listing' /\ seats' = Cardinality(Seated')
  <2>1. Clean /\ Listing /\ seats = Cardinality(Seated)
    BY <1>2, <1>5 DEF Clean
  <2>2. ASSUME NEW p \in Busy PROVE ListedBy(p)'
    <3>1. ListedBy(p) /\ op'[p] = op[p]
      BY <1>4, <2>1 DEF Listing
    <3>2. op[p].at \in {"each", "remove", "refund"} =>
             \A r \in op[p].found : op[r].at = "over" /\ r \in Calls /\ op'[r] = op[r]
      BY <1>1, <1>2, <3>1 DEF ListedBy, Busy, TypeInv, TypeOK, Op
    <3> QED BY <1>2, <3>1, <3>2 DEF ListedBy, stores
  <2>3. Listing'
    BY <1>2, <1>3, <2>2 DEF Listing, ListedBy
  <2>4. ~Sits(c) /\ ~Sits(c)'
    <3>1. \A a \in Addresses : row[a] # c
      BY <1>1, <1>2 DEF TypeInv, Named, Known
    <3>2. \A p \in Busy : op[p].at = "refund" => c \notin op[p].found
      BY <1>2, <2>1 DEF Listing, ListedBy
    <3> QED BY <1>2, <1>3, <1>4, <3>1, <3>2 DEF Sits, stores
  <2>5. ASSUME NEW r \in Calls, r # c PROVE Sits(r)' <=> Sits(r)
    BY <1>2, <1>3, <1>4, <2>5 DEF Sits, stores
  <2>6. Seated' = Seated
    BY <2>4, <2>5 DEF Seated
  <2> QED BY <1>2, <2>1, <2>3, <2>6 DEF stores
<1> QED BY <1>1, <1>5

\* At first every mailbox has its seat.
LEMMA CountInit == Init => CountInv
<1> SUFFICES ASSUME Init PROVE CountInv
  OBVIOUS
<1>1. OwnedInv
  BY OwnedInit
<1>2. PICK home \in [Addresses -> Calls \cup {None}] :
        /\ tenants = {home[a] : a \in Addresses} \ {None}
        /\ row = home /\ seats = Cardinality(tenants)
        /\ op = [c \in Calls |->
                    IF c \notin tenants THEN NotBegun
                    ELSE [NotBegun EXCEPT !.kind = "register", !.at = "over", !.org = c,
                                          !.addr = CHOOSE a \in Addresses : home[a] = c]]
  BY DEF Init
<1>3. ASSUME NEW c \in Calls
      PROVE  op[c].at \in {"idle", "over"}
  <2>1. CASE c \notin tenants
    BY <1>2, <2>1 DEF NotBegun
  <2>2. CASE c \in tenants
    <3> DEFINE x == CHOOSE a \in Addresses : home[a] = c
    <3>1. op[c] = [NotBegun EXCEPT !.kind = "register", !.at = "over", !.org = c, !.addr = x]
      BY <1>2, <2>2
    <3> HIDE DEF x
    <3> QED BY <3>1 DEF NotBegun
  <2> QED BY <2>1, <2>2
<1>4. Busy = {}
  BY <1>3 DEF Busy
<1>5. \A r \in Calls : Sits(r) <=> \E a \in Addresses : row[a] = r
  BY <1>3, <1>4 DEF Sits
<1>6. Seated = tenants
  <2>1. ASSUME NEW r \in Seated PROVE r \in tenants
    BY <1>2, <1>5, <2>1, SetsAssumption DEF Seated
  <2>2. ASSUME NEW r \in tenants PROVE r \in Seated
    <3>1. PICK a \in Addresses : home[a] = r /\ r # None
      BY <1>2
    <3>2. row[a] = r /\ r \in Calls
      BY <1>2, <3>1
    <3> QED BY <1>5, <3>2 DEF Seated
  <2> QED BY <2>1, <2>2
<1> QED BY <1>1, <1>2, <1>4, <1>6 DEF CountInv, Listing

\* Every step keeps the count.
LEMMA CountNext == CountInv /\ [Next]_vars => CountInv'
<1> SUFFICES ASSUME CountInv, [Next]_vars PROVE CountInv'
  OBVIOUS
<1>1. OwnedInv /\ OwnedInv' /\ TypeInv
  BY OwnedNext DEF CountInv, OwnedInv, KeptInv
<1>2. CASE Next
  <2>1. PICK c \in Calls : (\E k : Opens(c, k)) \/ Steps(c)
    BY <1>1, <1>2, NextIs
  <2>2. CASE Steps(c)
    <3>1. Clean' => Clean
      BY <1>1, <2>2, CleanBefore
    <3>2. Clean' => Listing'
      BY <1>1, <2>2, <3>1, ListingStep DEF CountInv
    <3> QED BY <1>1, <2>2, <3>1, <3>2, SeatsStep DEF CountInv
  <2> QED BY <2>1, <2>2, CountOpen
<1>3. CASE UNCHANGED vars
  <2>1. (Clean' <=> Clean) /\ (Listing' <=> Listing)
    BY <1>3 DEF Clean, Listing, ListedBy, Busy, vars, stores, histories
  <2>2. Seated' = Seated /\ seats' = seats
    BY <1>3 DEF Seated, Sits, Busy, vars, stores
  <2> QED BY <1>1, <2>1, <2>2 DEF CountInv
<1> QED BY <1>2, <1>3

\* When all is quiet the platform's counter is the number of its mailboxes, where
\* no fault left anything and no purge met another call: for any numbers of names
\* and calls, however the counting of new mailboxes, its undoing and the refunds of
\* purges interleave.
THEOREM SeatsAreCounted == Spec => []PlatformCount
<1>1. CountInv => PlatformCount
  <2> DEFINE Held == {a \in Addresses : row[a] # None}
             f == [a \in Held |-> row[a]]
  <2> SUFFICES ASSUME CountInv, Busy = {}, Clean PROVE seats = Cardinality(Held)
    BY DEF PlatformCount, Clean
  <2>1. TypeInv /\ seats = Cardinality(Seated)
    BY DEF CountInv, OwnedInv, KeptInv
  <2>2. ASSUME NEW r \in Calls PROVE Sits(r) <=> \E a \in Addresses : row[a] = r
    <3>1. op[r].at \in {"idle", "over"}
      BY DEF Busy
    <3> QED BY <3>1 DEF Sits
  <2>3. f \in [Held -> Seated]
    <3>1. \A a \in Held : row[a] \in Calls /\ a \in Addresses
      BY <2>1 DEF TypeInv, TypeOK
    <3> QED BY <2>2, <3>1 DEF Seated
  <2>4. \A a, b \in Held : f[a] = f[b] => a = b
    BY <2>1 DEF TypeInv, Named, Known
  <2>5. \A r \in Seated : \E a \in Held : f[a] = r
    BY <2>2, SetsAssumption DEF Seated
  <2>6. IsFiniteSet(Held)
    BY SetsAssumption, FS_Subset
  <2>7. ExistsBijection(Held, Seated)
    BY <2>3, <2>4, <2>5 DEF ExistsBijection, Bijection, Injection, Surjection, IsInjective
  <2> HIDE DEF f
  <2> QED BY <2>1, <2>6, <2>7, FS_Bijection
<1> QED BY <1>1, CountInit, CountNext, PTL DEF Spec

-----------------------------------------------------------------------------
(* The passwords. *)

\* An identity that no purge is about to take away.
Standing(a) == a \in Addresses \ met /\ SignedUp(a) /\ ~Endangered(admin[a].org)
Changes(w, a) == w \in Busy /\ op[w].kind \in Writers /\ op[w].addr = a

\* A change that was not overlapped is alone at its address, but for sign-ins.
Alone ==
    /\ \A w \in sole : op[w].at # "idle"
    /\ \A w, d \in Busy :
          /\ {op[w].kind, op[d].kind} \subseteq Writers /\ "reset" \in {op[w].kind, op[d].kind}
          /\ op[w].addr = op[d].addr /\ w # d
          => w \notin sole
    /\ \A a \in Addresses \ mixed, w \in Busy : Changes(w, a) => w \in sole
\* It is about an administrator made before, and once it saves, it knows the
\* mailbox's password.
Knowing ==
    /\ \A w \in Busy : op[w].kind \in Writers => op[op[w].who].at = "over"
    /\ \A w \in Busy \cap sole : \A a \in Addresses :
          op[w].at = "save" /\ op[w].addr = a /\ Standing(a) /\ admin[a].by = op[w].who
             => account[a].pw = op[w].pw
\* A sign-up gives the login the password it gave the mailbox.
MadeAlike ==
    \A d \in Busy : \A a \in Addresses \ (met \cup mixed) :
        op[d].kind = "register" /\ op[d].addr = a /\ op[d].at \in {"link", "count", "tenant", "admin"}
           => account[a] = [by |-> d, pw |-> d]
\* The passwords are one, or a reset is about to save the mailbox's.
Agreed ==
    \A a \in Addresses \ mixed :
        Standing(a) => \/ admin[a].pw = account[a].pw
                       \/ \E w \in Busy : /\ Changes(w, a) /\ op[w].kind = "reset"
                                          /\ op[w].at = "save" /\ op[w].who = admin[a].by

PasswordInv == OwnedInv /\ Alone /\ Knowing /\ MadeAlike /\ Agreed

\* What pushing a password does: it ends there; or leaves two of them; or sets that
\* of the mailbox the call found, which is its administrator's.
LEMMA PushStep ==
  ASSUME TypeInv, NEW c \in Calls, Push(c)
  PROVE  /\ op[c].at = "push" /\ op[c].kind = "reset" /\ op[c].addr \in Addresses
         /\ op'[c].at \in {"save", "over"} /\ op'[c].pw = op[c].pw
         /\ \/ op'[c].at = "over" /\ UNCHANGED account
            \/ op[c].addr \in mixed' /\ c \notin sole'
            \/ /\ op'[c].at = "save" /\ op[c].held = op[c].who
               /\ account[op[c].addr].by = op[c].who
               /\ account' = [account EXCEPT ![op[c].addr].pw = op[c].pw]
<1>1. op[c].at = "push" /\ op[c].kind = "reset" /\ op[c].addr \in Addresses
  BY HasAddress, AtStage, KindAt DEF Push, At
<1>2. op[c] \in Op /\ op \in [Calls -> Op]
  BY DEF TypeInv, TypeOK
<1>3. ASSUME NEW s, Goto(c, s) PROVE op'[c].at = s /\ op'[c].pw = op[c].pw
  <2>1. op'[c] = [op[c] EXCEPT !.at = s]
    BY <1>2, <1>3 DEF Goto, Set
  <2> QED BY <1>2, <2>1 DEF Op
<1>4. CASE UNCHANGED account /\ Over(c)
  BY <1>1, <1>3, <1>4 DEF Over
<1>5. CASE UNCHANGED account /\ Goto(c, "save") /\ Mixing(c)
  BY <1>1, <1>3, <1>5 DEF Mixing
<1>6. CASE /\ account[op[c].addr].by = op[c].held /\ Goto(c, "save")
           /\ account' = [account EXCEPT ![op[c].addr].pw = op[c].pw]
           /\ op[c].held = op[c].who
  BY <1>1, <1>3, <1>6
<1>7. CASE Goto(c, "save") /\ Mixing(c)
  BY <1>1, <1>3, <1>7 DEF Mixing
<1> QED BY <1>4, <1>5, <1>6, <1>7 DEF Push

\* What a step makes of the changes that were not overlapped, and which one
\* makes two passwords one again.
LEMMA SoleStep ==
  ASSUME TypeInv, NEW c \in Calls, Steps(c)
  PROVE  /\ sole' \subseteq sole
         /\ \A w \in sole : w \notin sole' => w = c /\ Push(c) /\ op[c].addr \in mixed'
         /\ \A a \in mixed : a \notin mixed' =>
               /\ SavePassword(c) /\ a = op[c].addr /\ admin[a].by = op[c].who
               /\ account[a].by = op[c].who /\ Changing(a) \subseteq sole
<1>1. CASE Push(c)
  <2>1. mixed \subseteq mixed' /\ (sole' = sole \/ (sole' = sole \ {c} /\ op[c].addr \in mixed'))
    BY <1>1 DEF Push, Fine, histories, Mixing
  <2> QED BY <1>1, <2>1
<1>2. CASE SavePassword(c)
  <2>1. UNCHANGED sole
    BY <1>2 DEF SavePassword
  <2>2. ASSUME NEW a \in mixed, a \notin mixed'
        PROVE  /\ a = op[c].addr /\ admin[a].by = op[c].who
               /\ account[a].by = op[c].who /\ Changing(a) \subseteq sole
    <3>1. mixed' \in {mixed, mixed \ {op[c].addr}}
      BY <1>2 DEF SavePassword
    <3>2. a = op[c].addr /\ mixed' # mixed
      BY <2>2, <3>1
    <3> QED BY <1>2, <3>2 DEF SavePassword
  <2> QED BY <1>2, <2>1, <2>2
<1>3. CASE UNCHANGED <<mixed, sole>>
  BY <1>3
<1>4. CASE Die(c)
  <2>1. mixed \subseteq mixed' /\ sole' = sole
    BY <1>4 DEF Die
  <2> QED BY <2>1
<1> QED BY <1>1, <1>2, <1>3, <1>4
    DEF Steps, MakeSteps, UndoSteps, PasswordSteps, PurgeSteps, Fine, Hurts, histories, stores,
        CheckBlocked, CheckExists, InsertRow, CreateAccount, LinkRow, DropRow, CountRow,
        CreateTenant, CreateAdmin, FindRow, DeleteAccount, DeleteRow, GiveBack, DropTenant,
        SyncFind, Verify, Bar, ListAdmins, ListRows, EachAccount, RemoveRows, Refund,
        RemoveAdmins, RemoveTenant

\* An identity that stands stood before, or is made by this step.
LEMMA StoodBefore ==
  ASSUME KeptInv, NEW c \in Calls, Steps(c), NEW a \in Addresses, Standing(a)'
  PROVE  \/ /\ Standing(a) /\ admin'[a].by = admin[a].by /\ admin[a].by \in Calls \ {c}
            /\ admin[a] # NoLogin /\ Has(admin[a].by, a) /\ Has(admin[a].by, a)'
         \/ op[c].at = "admin" /\ a = op[c].addr /\ op[c].kind = "register" /\ a \notin met
            /\ admin'[a].by = c /\ admin'[a].pw = c
<1> USE DEF KeptInv
<1>1. PICK k : c \in Busy /\ Moves(c, k)
  BY StepMoves
<1>2. /\ op'[c] = k /\ \A d \in Calls \ {c} : op'[d] = op[d]
      /\ \A d \in Calls : op'[d].kind = op[d].kind /\ op'[d].org = op[d].org
      /\ Busy' \subseteq Busy /\ met \subseteq met' /\ Busy \subseteq Calls
  BY <1>1, MoveFacts, HistoryStep DEF Busy
<1>3. a \notin met' /\ a \notin met /\ SignedUp(a)' /\ ~Endangered(admin[a].org)'
  BY <1>2 DEF Standing
<1>4. ASSUME admin[a] # NoLogin, admin'[a].by = admin[a].by, admin'[a].org = admin[a].org
      PROVE  Standing(a) /\ admin[a].by \in Calls \ {c}
  <2> DEFINE d == admin[a].by
  <2>1. d \in Calls /\ Known(d, a) /\ op[d].at = "over" /\ op[d].addr = a
    BY <1>4 DEF TypeInv, Named, Known
  <2>2. SignedUp(a) /\ admin[a].org = d /\ d # c /\ op[d].kind = "register"
    <3>1. op'[d].kind = "register"
      BY <1>3, <1>4 DEF SignedUp
    <3> QED BY <1>1, <1>2, <1>4, <2>1, <3>1 DEF SignedUp, TypeInv, Named, Busy
  <2>3. ASSUME Endangered(d) PROVE FALSE
    <3>1. PICK p \in Busy : op[p].kind = "purge" /\ op[p].org = d
      BY <2>3 DEF Endangered
    <3>2. p \notin Busy'
      BY <1>2, <1>3, <1>4, <2>2, <3>1 DEF Endangered
    <3>3. p = c /\ op'[c].at = "over"
      <4>1. p = c
        BY <1>2, <3>2 DEF Busy
      <4>2. \A kind \in Kinds : "idle" \notin StagesOf[kind]
        BY DEF Kinds, StagesOf, Making, Undoing
      <4>3. k.kind \in Kinds
        BY <1>1 DEF Moves, TypeInv, Shape, ShapeOf, Busy
      <4> QED BY <1>1, <1>2, <3>2, <4>1, <4>2, <4>3 DEF Busy, Moves
    <3>4. CASE Die(c)
      <4>1. WorksOn(op[c]) \subseteq met'
        BY <3>1, <3>3, <3>4 DEF Die
      <4>2. a \in WorksOn(op[c])
        BY <2>1, <3>1, <3>3, SetsAssumption DEF WorksOn
      <4> QED BY <1>3, <4>1, <4>2
    <3>5. CASE PurgeSteps(c)
      <4>1. op[c].at = "org"
        BY <3>3, <3>5, PurgeEnds DEF RemoveTenant, At
      <4> QED BY <1>1, <1>3, <2>2, <3>1, <3>3, <4>1 DEF Purging
    <3> QED BY <1>1, <3>1, <3>3, <3>4, <3>5, PurgeGoesOn
  <2> QED BY <1>3, <2>1, <2>2, <2>3 DEF Standing
<1>5. ASSUME op[c].at = "admin", a = op[c].addr, admin'[a].by = c, admin'[a].pw = c
      PROVE  op[c].kind = "register"
  BY <1>2, <1>3, <1>5 DEF SignedUp
<1>6. admin'[a] # NoLogin
  BY <1>3 DEF SignedUp
<1>7. Kept' /\ (Standing(a) => Has(admin[a].by, a))
  BY KeptStep DEF Kept, Standing
<1>8. Has(admin[a].by, a)'
  BY <1>3, <1>7 DEF Kept
<1> QED BY <1>3, <1>4, <1>5, <1>6, <1>7, <1>8, AdminStep

\* The account of an identity that stands changes with a password pushed only.
LEMMA AccountStays ==
  ASSUME KeptInv, NEW c \in Calls, Steps(c), NEW a \in Addresses, NEW r \in Calls,
         account[a].by = r, account'[a].by = r
  PROVE  account'[a] = account[a] \/ (Push(c) /\ op[c].addr = a)
<1> USE DEF KeptInv
<1>1. r # None
  BY SetsAssumption
<1>2. CASE Push(c)
  <2>1. op[c].addr # a => account'[a] = account[a]
    BY <1>2 DEF Push, TypeInv, TypeOK
  <2> QED BY <1>2, <2>1
<1>4. CASE Die(c)
  BY <1>4 DEF Die, stores
<1>3. CASE ~Push(c) /\ ~Die(c)
  <2>1. op[c].at # "push"
    <3>1. op[c].at = "push" => c \in Busy /\ op[c].kind \in Writers
      BY StepMoves, AtStage, KindAt DEF At, Writers
    <3>2. PasswordSteps(c) => op[c].at # "push"
      BY <1>3 DEF PasswordSteps, SyncFind, Verify, SavePassword, At
    <3> QED BY <1>3, <3>1, <3>2, WriterGoesOn
  <2>2. account[a] # NoAccount /\ account'[a] # NoAccount
    BY <1>1 DEF NoAccount
  <2>3. \/ account'[a] \in {account[a], NoAccount}
        \/ account[a] = NoAccount
        \/ op[c].at = "push"
    BY AccountStep
  <2> QED BY <2>1, <2>2, <2>3
<1> QED BY <1>2, <1>3, <1>4

\* What a step leaves of every call.
LEMMA CallsGoOn ==
  ASSUME TypeInv, NEW c \in Calls, Steps(c)
  PROVE  /\ c \in Busy /\ Busy' \subseteq Busy /\ \A d \in Calls \ {c} : op'[d] = op[d]
         /\ \A d \in Calls : /\ op'[d].kind = op[d].kind /\ op'[d].addr = op[d].addr
                             /\ op'[d].who = op[d].who
                             /\ op[d].at # "idle" => op'[d].at # "idle"
                             /\ op[d].at = "over" => d # c
<1>1. PICK k : c \in Busy /\ Moves(c, k)
  BY StepMoves
<1>2. /\ op'[c] = k /\ \A d \in Calls \ {c} : op'[d] = op[d]
      /\ \A d \in Calls : op'[d].kind = op[d].kind /\ op'[d].addr = op[d].addr
      /\ Busy' \subseteq Busy /\ k.who = op[c].who
  BY <1>1, MoveFacts DEF Moves
<1>3. k.at # "idle"
  <2>1. \A kind \in Kinds : "idle" \notin StagesOf[kind]
    BY DEF Kinds, StagesOf, Making, Undoing
  <2>2. k.kind \in Kinds
    BY <1>1 DEF Moves, TypeInv, Shape, ShapeOf, Busy
  <2> QED BY <1>1, <2>1, <2>2 DEF Moves
<1> QED BY <1>1, <1>2, <1>3 DEF Busy

\* Changes that were not overlapped stay alone.
LEMMA AloneStep ==
  ASSUME TypeInv, Alone, NEW c \in Calls, Steps(c)
  PROVE  Alone'
<1>1. /\ c \in Busy /\ Busy' \subseteq Busy /\ Busy \subseteq Calls
      /\ \A d \in Calls : /\ op'[d].kind = op[d].kind /\ op'[d].addr = op[d].addr
                          /\ op[d].at # "idle" => op'[d].at # "idle"
      /\ sole' \subseteq sole /\ sole \subseteq Calls
  BY CallsGoOn, SoleStep DEF Busy, TypeInv, TypeOK
<1>2. \A w \in sole' : op'[w].at # "idle"
  BY <1>1 DEF Alone
<1>3. ASSUME NEW w \in Busy', NEW d \in Busy', {op'[w].kind, op'[d].kind} \subseteq Writers,
             "reset" \in {op'[w].kind, op'[d].kind}, op'[w].addr = op'[d].addr, w # d
      PROVE  w \notin sole'
  BY <1>1, <1>3 DEF Alone
<1>4. ASSUME NEW a \in Addresses, a \notin mixed', NEW w \in Busy', Changes(w, a)'
      PROVE  w \in sole'
  <2>1. w \in Busy /\ w \in Calls /\ Changes(w, a) /\ op[w].addr = a
    BY <1>1, <1>4 DEF Changes
  <2>2. w \in sole
    <3>1. CASE a \in mixed
      <4>1. Changing(a) \subseteq sole
        BY <1>4, <3>1, SoleStep
      <4> QED BY <2>1, <4>1, WorksThere DEF Changes, Changing, Workers
    <3>2. CASE a \notin mixed
      BY <2>1, <3>2 DEF Alone
    <3> QED BY <3>1, <3>2
  <2>3. w \notin sole' => a \in mixed'
    BY <2>1, <2>2, SoleStep
  <2> QED BY <1>4, <2>3
<1> QED BY <1>2, <1>3, <1>4 DEF Alone

\* A change that was not overlapped knows the password when it saves it.
LEMMA KnowingStep ==
  ASSUME KeptInv, Alone, Knowing, NEW c \in Calls, Steps(c)
  PROVE  Knowing'
<1> USE DEF KeptInv
<1>1. /\ c \in Busy /\ Busy' \subseteq Busy /\ Busy \subseteq Calls
      /\ \A d \in Calls \ {c} : op'[d] = op[d]
      /\ \A d \in Calls : /\ op'[d].kind = op[d].kind /\ op'[d].addr = op[d].addr
                          /\ op'[d].who = op[d].who
                          /\ op[d].at = "over" => d # c
      /\ sole' \subseteq sole /\ sole \subseteq Calls /\ op \in [Calls -> Op]
  BY CallsGoOn, SoleStep DEF Busy, TypeInv, TypeOK
<1>2. ASSUME NEW w \in Busy', op'[w].kind \in Writers PROVE op'[op'[w].who].at = "over"
  <2>1. w \in Busy /\ w \in Calls /\ op[w].kind \in Writers
    BY <1>1, <1>2
  <2>2. op[w].who \in Calls /\ op[op[w].who].at = "over"
    BY <2>1 DEF Knowing, TypeInv, Shape, ShapeOf, Busy
  <2>3. op'[op[w].who] = op[op[w].who]
    BY <1>1, <2>2
  <2> QED BY <1>1, <2>1, <2>2, <2>3
<1>3. ASSUME NEW w \in Busy', w \in sole', NEW a \in Addresses, op'[w].at = "save",
             op'[w].addr = a, Standing(a)', admin'[a].by = op'[w].who
      PROVE  account'[a].pw = op'[w].pw
  <2>1. w \in Busy /\ w \in sole /\ w \in Calls /\ op[w].addr = a /\ admin'[a].by = op[w].who
    BY <1>1, <1>3
  <2>2. op[w].kind \in Writers
    <3>1. op'[w] \in Op /\ op'[w].kind \in Kinds /\ Staged(op'[w])
      BY <1>1, <1>3, <2>1, StepInv DEF TypeInv, TypeOK, Shape, ShapeOf, Staged
    <3> QED BY <1>1, <1>3, <2>1, <3>1, KindAt
  <2>3. op[w].who \in Calls \ {c}
    <3>1. op[w].who \in Calls /\ op[op[w].who].at = "over"
      BY <2>1, <2>2 DEF Knowing, TypeInv, Shape, ShapeOf, Busy
    <3> QED BY <1>1, <3>1
  <2>4. /\ Standing(a) /\ admin[a].by = op[w].who /\ Has(op[w].who, a) /\ Has(op[w].who, a)'
        /\ admin[a] # NoLogin
    BY <1>3, <2>1, <2>3, StoodBefore DEF Has
  <2>5. account[a].by = op[w].who /\ account'[a].by = op[w].who
    BY <1>1, <2>1, <2>4 DEF Has
  <2>6. CASE w = c
    <3>1. PasswordSteps(c)
      <4>1. ~Die(c)
        BY <1>3, <2>6, Gone DEF Die, Over
      <4> QED BY <1>1, <2>2, <2>6, <4>1, WriterGoesOn
    <3>2. CASE SyncFind(c)
      <4>1. row[a] \in linked
        BY <2>4 DEF Has
      <4>2. op' = [op EXCEPT ![c] = [op[c] EXCEPT !.held = row[a], !.at = "push"]]
        BY <2>1, <2>6, <3>2, <4>1 DEF SyncFind, Set
      <4>3. op'[c] = [op[c] EXCEPT !.held = row[a], !.at = "push"]
        BY <1>1, <4>2
      <4>4. op'[c].at = "push"
        BY <1>1, <4>3 DEF Op
      <4> QED BY <1>3, <2>6, <4>4
    <3>3. CASE Push(c)
      <4>1. /\ op'[c].pw = op[c].pw
            /\ account' = [account EXCEPT ![op[c].addr].pw = op[c].pw]
        BY <1>3, <2>6, <3>3, PushStep
      <4> QED BY <2>1, <2>6, <4>1 DEF TypeInv, TypeOK
    <3>4. CASE Verify(c)
      <4>1. ~Over(c)
        BY <1>3, <2>6, Gone DEF Over
      <4>2. /\ op' = [op EXCEPT ![c] = [op[c] EXCEPT !.pw = account[a].pw, !.at = "save"]]
            /\ UNCHANGED account
        BY <2>1, <2>6, <3>4, <4>1 DEF Verify, Set, stores
      <4>3. op'[c] = [op[c] EXCEPT !.pw = account[a].pw, !.at = "save"]
        BY <1>1, <4>2
      <4>4. op'[c].pw = account[a].pw
        BY <1>1, <4>3 DEF Op
      <4> QED BY <2>6, <4>2, <4>4
    <3>5. CASE SavePassword(c)
      BY <1>3, <2>6, <3>5, Gone DEF SavePassword, Over
    <3> QED BY <3>1, <3>2, <3>3, <3>4, <3>5 DEF PasswordSteps
  <2>7. CASE w # c
    <3>1. op'[w] = op[w] /\ account[a].pw = op[w].pw
      BY <1>1, <1>3, <2>1, <2>4, <2>7 DEF Knowing
    <3>2. ~(Push(c) /\ op[c].addr = a)
      <4>1. Push(c) => op[c].kind = "reset"
        BY PushStep
      <4> QED BY <1>1, <2>1, <2>2, <2>7, <4>1 DEF Alone, Writers
    <3>3. account'[a] = account[a]
      BY <2>3, <2>5, <3>2, AccountStays
    <3> QED BY <3>1, <3>3
  <2> QED BY <2>6, <2>7
<1> QED BY <1>2, <1>3 DEF Knowing

\* A sign-up's mailbox keeps the password it was made with until the login has it.
LEMMA MadeAlikeStep ==
  ASSUME KeptInv, Knowing, MadeAlike, NEW c \in Calls, Steps(c)
  PROVE  MadeAlike'
<1> USE DEF KeptInv
<1>1. /\ c \in Busy /\ Busy' \subseteq Busy /\ Busy \subseteq Calls
      /\ \A d \in Calls \ {c} : op'[d] = op[d]
      /\ \A d \in Calls : /\ op'[d].kind = op[d].kind /\ op'[d].addr = op[d].addr
                          /\ op'[d].who = op[d].who
                          /\ op[d].at = "over" => d # c
      /\ met \subseteq met' /\ op \in [Calls -> Op]
  BY CallsGoOn, HistoryStep DEF Busy, TypeInv, TypeOK
<1> DEFINE made == {"link", "count", "tenant", "admin"}
<1>2. ASSUME NEW d \in Busy', NEW a \in Addresses, a \notin met', a \notin mixed',
             op'[d].kind = "register", op'[d].addr = a, op'[d].at \in made
      PROVE  account'[a] = [by |-> d, pw |-> d]
  <2>1. /\ d \in Busy /\ d \in Calls /\ op[d].kind = "register" /\ op[d].addr = a /\ a \notin met
        /\ d # None /\ op[d].at # "over"
    BY <1>1, <1>2, SetsAssumption DEF Busy
  <2>2. HoldsOwn(d) /\ HoldsOwn(d)'
    <3>1. Holding'
      BY HoldingStep
    <3> QED BY <1>2, <2>1, <3>1 DEF Holding, Makers
  <2>3. account'[a].by = d
    BY <1>2, <2>2 DEF HoldsOwn
  <2>4. ASSUME op[d].at \in made PROVE account'[a] = account[a] /\ account[a] = [by |-> d, pw |-> d]
    <3>1. account[a].by = d
      BY <2>1, <2>2, <2>4 DEF HoldsOwn
    <3>2. a \notin mixed
      <4>1. ASSUME a \in mixed PROVE FALSE
        <5>1. SavePassword(c) /\ account[a].by = op[c].who
          BY <1>2, <4>1, SoleStep
        <5>2. op[c].kind \in Writers
          BY <5>1, AtStage, KindAt DEF SavePassword, At
        <5>3. op[op[c].who].at = "over"
          BY <1>1, <5>2 DEF Knowing
        <5> QED BY <2>1, <3>1, <5>1, <5>3
      <4> QED BY <4>1
    <3>3. ASSUME Push(c), op[c].addr = a PROVE account'[a] = account[a]
      <4>1. \/ UNCHANGED account
            \/ a \in mixed'
            \/ account[a].by = op[c].who
        BY <3>3, PushStep
      <4>2. op[op[c].who].at = "over"
        BY <1>1, <3>3, PushStep DEF Knowing, Writers
      <4> QED BY <1>2, <2>1, <3>1, <4>1, <4>2
    <3>4. account'[a] = account[a]
      BY <2>1, <2>3, <3>1, <3>3, AccountStays
    <3> QED BY <2>1, <2>4, <1>2, <3>2, <3>4 DEF MadeAlike
  <2>5. CASE d # c
    BY <1>1, <1>2, <2>1, <2>4, <2>5
  <2>6. CASE d = c /\ op[c].at \notin made
    <3>1. MakeSteps(c) \/ UndoSteps(c)
      <4>1. ~Die(c)
        BY <1>2, <2>6, Gone DEF Die, Over
      <4> QED BY <1>1, <2>1, <2>6, <4>1, MakerGoesOn DEF Makers
    <3>2. ASSUME NEW s, Goto(c, s) PROVE s \in made
      BY <1>2, <2>6, <3>2, Gone
    <3>3. ~FindRow(c)
      <4>1. ASSUME FindRow(c) PROVE FALSE
        <5>1. row[a] = c /\ c \in linked
          BY <2>1, <2>2, <2>6, <4>1 DEF FindRow, At, HoldsOwn
        <5>2. op' = [op EXCEPT ![c] = [op[c] EXCEPT !.held = c, !.at = "off"]]
          BY <2>1, <2>6, <4>1, <5>1 DEF FindRow, Set
        <5>3. op'[c] = [op[c] EXCEPT !.held = c, !.at = "off"]
          BY <1>1, <5>2
        <5>4. op'[c].at = "off"
          BY <1>1, <5>3 DEF Op
        <5> QED BY <1>2, <2>6, <5>4
      <4> QED BY <4>1
    <3>4. CreateAccount(c)
      <4>1. ~CheckBlocked(c)
        BY <3>2 DEF CheckBlocked, Over
      <4>2. ~CheckExists(c)
        BY <2>1, <2>6, <3>2 DEF CheckExists, Over, Is
      <4>3. ~InsertRow(c) /\ ~DropRow(c)
        BY <3>2 DEF InsertRow, DropRow, Over
      <4>4. ~LinkRow(c) /\ ~CountRow(c) /\ ~CreateTenant(c) /\ ~CreateAdmin(c)
        BY <2>6 DEF LinkRow, CountRow, CreateTenant, CreateAdmin, At
      <4>5. ~DeleteAccount(c) /\ ~DeleteRow(c) /\ ~GiveBack(c) /\ ~DropTenant(c)
        BY <3>2 DEF DeleteAccount, DeleteRow, GiveBack, DropTenant, Undone, Over
      <4> QED BY <3>1, <3>3, <4>1, <4>2, <4>3, <4>4, <4>5 DEF MakeSteps, UndoSteps
    <3>5. account' = [account EXCEPT ![a] = [by |-> c, pw |-> c]]
      BY <2>1, <2>6, <3>2, <3>4 DEF CreateAccount
    <3> QED BY <2>6, <3>5 DEF TypeInv, TypeOK
  <2> QED BY <2>4, <2>5, <2>6
<1> QED BY <1>2 DEF MadeAlike

\* Saving a password gives the login the one the call has, if it is its administrator's.
LEMMA SaveStep ==
  ASSUME TypeInv, NEW c \in Calls, SavePassword(c), NEW a \in Addresses
  PROVE  /\ UNCHANGED account /\ op[c].at = "save" /\ op[c].kind \in Writers
         /\ a = op[c].addr /\ admin[a].by = op[c].who => admin'[a].pw = op[c].pw
         /\ a # op[c].addr \/ admin[a].by # op[c].who => admin'[a] = admin[a]
  BY AtStage, KindAt DEF SavePassword, At, TypeInv, TypeOK

\* The passwords of an identity that stands stay one, or a reset goes on to save.
LEMMA AgreedStep ==
  ASSUME KeptInv, Alone, Knowing, MadeAlike, Agreed, NEW c \in Calls, Steps(c)
  PROVE  Agreed'
<1> USE DEF KeptInv
<1>1. /\ c \in Busy /\ Busy' \subseteq Busy /\ Busy \subseteq Calls
      /\ \A d \in Calls \ {c} : op'[d] = op[d]
      /\ \A d \in Calls : /\ op'[d].kind = op[d].kind /\ op'[d].addr = op[d].addr
                          /\ op'[d].who = op[d].who
      /\ met \subseteq met'
  BY CallsGoOn, HistoryStep DEF Busy
<1>2. ASSUME NEW a \in Addresses, a \notin mixed', Standing(a)',
             op[c].at = "admin", a = op[c].addr, op[c].kind = "register", a \notin met,
             admin'[a].by = c, admin'[a].pw = c
      PROVE  admin'[a].pw = account'[a].pw
  <2>1. UNCHANGED account
    BY <1>2, AdminAlone DEF At
  <2>2. ~SavePassword(c)
    BY <1>2 DEF SavePassword, At
  <2>3. a \notin mixed
    BY <1>2, <2>2, SoleStep
  <2>4. account[a] = [by |-> c, pw |-> c]
    BY <1>1, <1>2, <2>3 DEF MadeAlike
  <2> QED BY <1>2, <2>1, <2>4
<1>3. ASSUME NEW a \in Addresses, a \notin mixed', Standing(a), NEW d \in Calls \ {c},
             admin[a].by = d, admin'[a].by = d, Has(d, a), Has(d, a)', admin[a] # NoLogin
      PROVE  \/ admin'[a].pw = account'[a].pw
             \/ \E w \in Busy' : /\ Changes(w, a)' /\ op'[w].kind = "reset"
                                 /\ op'[w].at = "save" /\ op'[w].who = d
  <2>1. account[a].by = d /\ account'[a].by = d
    BY <1>3 DEF Has
  <2>2. CASE SavePassword(c) /\ op[c].addr = a /\ op[c].who = d
    <3>1. UNCHANGED account /\ admin'[a].pw = op[c].pw /\ op[c].at = "save" /\ op[c].kind \in Writers
      BY <1>3, <2>2, SaveStep
    <3>2. c \in sole
      <4>1. CASE a \in mixed
        <5>1. Changing(a) \subseteq sole
          BY <1>3, <4>1, SoleStep
        <5> QED BY <1>1, <2>2, <3>1, <5>1, WorksThere DEF Changing, Workers
      <4>2. CASE a \notin mixed
        BY <1>1, <2>2, <3>1, <4>2 DEF Alone, Changes
      <4> QED BY <4>1, <4>2
    <3>3. account[a].pw = op[c].pw
      BY <1>1, <1>3, <2>2, <3>1, <3>2 DEF Knowing
    <3> QED BY <3>1, <3>3
  <2>3. CASE ~(SavePassword(c) /\ op[c].addr = a /\ op[c].who = d)
    <3>1. a \notin mixed
      BY <1>3, <2>1, <2>3, SoleStep
    <3>2. admin'[a].pw = admin[a].pw
      <4>1. CASE SavePassword(c)
        BY <1>3, <2>3, <4>1, SaveStep
      <4>2. CASE ~SavePassword(c)
        <5>1. op[c].at = "save" => op[c].kind \in Writers
          BY AtStage, KindAt DEF At
        <5>2. op[c].at = "save" => Die(c)
          <6>1. PasswordSteps(c) => op[c].at # "save"
            BY <4>2 DEF PasswordSteps, SyncFind, Push, Verify, At
          <6> QED BY <1>1, <5>1, <6>1, WriterGoesOn
        <5>3. Die(c) => UNCHANGED admin
          BY DEF Die, stores
        <5>4. admin'[a] # NoLogin /\ admin'[a].by # c
          BY <1>3, SetsAssumption DEF NoLogin
        <5> QED BY <5>2, <5>3, <5>4, AdminStep
      <4> QED BY <4>1, <4>2
    <3>4. CASE Push(c) /\ op[c].addr = a
      <4>1. CASE UNCHANGED account
        <5>1. CASE admin[a].pw = account[a].pw
          BY <3>2, <4>1, <5>1
        <5>2. ASSUME NEW w \in Busy, Changes(w, a), op[w].kind = "reset", op[w].at = "save",
                     op[w].who = d
              PROVE  w \in Busy' /\ op'[w] = op[w] /\ Changes(w, a)'
          <6>1. w # c /\ w \in Calls
            BY <1>1, <3>4, <5>2, PushStep
          <6> QED BY <1>1, <5>2, <6>1 DEF Busy, Changes
        <5> QED BY <1>3, <3>1, <5>1, <5>2 DEF Agreed
      <4>2. CASE op'[c].at = "save" /\ account[a].by = op[c].who
        <5>1. op[c].kind = "reset" /\ op[c].who = d
          BY <2>1, <3>4, <4>2, PushStep
        <5>2. c \in Busy'
          BY <1>1, <4>2 DEF Busy
        <5> QED BY <1>1, <3>4, <4>2, <5>1, <5>2 DEF Changes, Writers
      <4> QED BY <1>3, <3>4, <4>1, <4>2, PushStep
    <3>5. CASE ~(Push(c) /\ op[c].addr = a)
      <4>1. account'[a] = account[a]
        BY <2>1, <3>5, AccountStays
      <4>2. ASSUME NEW w \in Busy, Changes(w, a), op[w].kind = "reset", op[w].at = "save",
                   op[w].who = d
            PROVE  w \in Busy' /\ op'[w] = op[w] /\ Changes(w, a)'
        <5>1. w # c
          <6>1. ASSUME w = c PROVE FALSE
            <7>1. ~SavePassword(c)
              BY <2>3, <4>2, <6>1 DEF Changes
            <7>2. PasswordSteps(c) => op[c].at # "save"
              BY <7>1 DEF PasswordSteps, SyncFind, Push, Verify, At
            <7>3. Die(c)
              BY <1>1, <4>2, <6>1, <7>2, WriterGoesOn DEF Writers
            <7>4. a \in WorksOn(op[c])
              BY <1>1, <4>2, <6>1, WorksThere DEF Changes
            <7> QED BY <1>3, <4>2, <6>1, <7>3, <7>4 DEF Die
          <6> QED BY <6>1
        <5> QED BY <1>1, <4>2, <5>1 DEF Busy, Changes
      <4> QED BY <1>3, <3>1, <3>2, <4>1, <4>2 DEF Agreed
    <3> QED BY <3>4, <3>5
  <2> QED BY <2>2, <2>3
<1>4. ASSUME NEW a \in Addresses, a \notin mixed', Standing(a)'
      PROVE  \/ admin'[a].pw = account'[a].pw
             \/ \E w \in Busy' : /\ Changes(w, a)' /\ op'[w].kind = "reset"
                                 /\ op'[w].at = "save" /\ op'[w].who = admin'[a].by
  <2>1. CASE /\ Standing(a) /\ admin'[a].by = admin[a].by /\ admin[a].by \in Calls \ {c}
             /\ admin[a] # NoLogin /\ Has(admin[a].by, a) /\ Has(admin[a].by, a)'
    <3> DEFINE d == admin[a].by
    <3>1. d \in Calls \ {c} /\ admin'[a].by = d /\ Has(d, a)
      BY <2>1
    <3>2. row'[a] = d /\ account'[a].by = d /\ d \in linked' /\ d \in tenants'
      BY <2>1 DEF Has
    <3>3. PICK e \in Calls \ {c} : /\ e = d /\ admin[a].by = e /\ admin'[a].by = e /\ Has(e, a)
                                   /\ row'[a] = e /\ account'[a].by = e /\ e \in linked'
                                   /\ e \in tenants'
      BY <3>1, <3>2
    <3> HIDE DEF d
    <3>4. Has(e, a)'
      BY <3>3 DEF Has
    <3> QED BY <1>3, <1>4, <2>1, <3>3, <3>4
  <2> QED BY <1>2, <1>4, <2>1, StoodBefore
<1> QED BY <1>4 DEF Agreed

\* A call that begins takes what it overlaps out of those that were alone.
LEMMA PasswordOpen ==
  ASSUME PasswordInv, NEW c \in Calls, NEW k, Opens(c, k)
  PROVE  PasswordInv'
<1> USE DEF PasswordInv
<1>1. /\ OwnedInv /\ OwnedInv' /\ TypeInv /\ TypeInv'
      /\ Alone /\ Knowing /\ MadeAlike /\ Agreed
  BY OwnedOpen DEF OwnedInv, KeptInv
<1>2. /\ op[c].at = "idle" /\ op'[c] = k /\ \A d \in Calls \ {c} : op'[d] = op[d]
      /\ met \subseteq met' /\ UNCHANGED stores /\ mixed \subseteq mixed'
      /\ k.at \in {"check", "exists", "sync", "verify", "bar"}
      /\ k.kind \in Writers => op[k.who].at = "over" /\ k.who \in Calls
      /\ sole \subseteq Calls /\ c \notin sole
  BY <1>1, OpenTyped DEF Opens, Begin, ShapeOf, Alone, TypeInv, TypeOK
<1>3. Busy' = Busy \cup {c} /\ c \notin Busy /\ Busy \subseteq Calls
  BY <1>2 DEF Busy
<1>4. \A d \in Busy : op'[d] = op[d] /\ d # c
  BY <1>2, <1>3
<1>5. /\ sole' \subseteq sole \cup {c}
      /\ c \in sole' => k.kind \in Writers /\ Rivals(k) = {}
      /\ \A w \in sole : w \notin sole' => w \in Rivals(k) /\ k.addr \in mixed'
      /\ k.kind \in Writers /\ c \notin sole' => k.addr \in mixed'
  BY <1>2 DEF Opens, Begin
<1>6. \A d \in Calls : op[d].at = "over" => op'[d] = op[d]
  BY <1>2
<1>7. ASSUME NEW a \in Addresses, Standing(a)'
      PROVE  Standing(a) /\ admin'[a] = admin[a] /\ account'[a] = account[a]
  <2>1. /\ admin'[a] = admin[a] /\ account'[a] = account[a] /\ admin[a] # NoLogin
        /\ a \notin met /\ op'[admin'[a].by].kind = "register"
    BY <1>2, <1>7 DEF Standing, SignedUp, stores
  <2>2. admin[a].by \in Calls /\ op[admin[a].by].at = "over"
    BY <1>1, <2>1 DEF TypeInv, Named
  <2>3. op'[admin[a].by] = op[admin[a].by]
    BY <1>6, <2>2
  <2>4. ~Endangered(admin[a].org)
    BY <1>3, <1>4, <1>7, <2>1 DEF Standing, Endangered
  <2> QED BY <2>1, <2>2, <2>3, <2>4 DEF Standing, SignedUp
<1>8. Alone'
  <2>1. \A w \in sole' : op'[w].at # "idle"
    BY <1>1, <1>2, <1>5 DEF Alone
  <2>2. ASSUME NEW w \in Busy', NEW d \in Busy', {op'[w].kind, op'[d].kind} \subseteq Writers,
               "reset" \in {op'[w].kind, op'[d].kind}, op'[w].addr = op'[d].addr, w # d
        PROVE  w \notin sole'
    <3>1. CASE w = c
      <4>1. d \in Busy /\ op'[d] = op[d] /\ op'[c] = k
        BY <1>2, <1>3, <1>4, <2>2, <3>1
      <4>2. d \in Rivals(k)
        BY <2>2, <3>1, <4>1 DEF Rivals
      <4> QED BY <1>5, <3>1, <4>2
    <3>2. CASE d = c
      <4>1. w \in Busy /\ op'[w] = op[w] /\ op'[c] = k
        BY <1>2, <1>3, <1>4, <2>2, <3>2
      <4>2. w \in Rivals(k)
        BY <2>2, <3>2, <4>1 DEF Rivals
      <4>3. sole' = sole \ Rivals(k)
        BY <4>2 DEF Opens, Begin
      <4> QED BY <4>2, <4>3
    <3>3. CASE w # c /\ d # c
      <4>1. w \in Busy /\ d \in Busy /\ op'[w] = op[w] /\ op'[d] = op[d]
        BY <1>3, <1>4, <2>2, <3>3
      <4>2. w \notin sole
        BY <1>1, <2>2, <4>1 DEF Alone
      <4> QED BY <1>5, <3>3, <4>2
    <3> QED BY <3>1, <3>2, <3>3
  <2>3. ASSUME NEW a \in Addresses, a \notin mixed', NEW w \in Busy', Changes(w, a)'
        PROVE  w \in sole'
    <3>1. CASE w = c
      BY <1>2, <1>5, <2>3, <3>1 DEF Changes
    <3>2. CASE w # c
      <4>1. w \in Busy /\ op'[w] = op[w] /\ Changes(w, a) /\ a \notin mixed
        BY <1>2, <1>3, <1>4, <2>3, <3>2 DEF Changes
      <4>2. w \in sole
        BY <1>1, <4>1 DEF Alone
      <4> QED BY <1>5, <2>3, <4>1, <4>2 DEF Rivals, Changes
    <3> QED BY <3>1, <3>2
  <2> QED BY <2>1, <2>2, <2>3 DEF Alone
<1>9. Knowing'
  <2>1. ASSUME NEW w \in Busy', op'[w].kind \in Writers PROVE op'[op'[w].who].at = "over"
    <3>1. CASE w = c
      BY <1>2, <1>6, <2>1, <3>1
    <3>2. CASE w # c
      <4>1. w \in Busy /\ op'[w] = op[w]
        BY <1>3, <1>4, <2>1, <3>2
      <4>2. op[w].who \in Calls /\ op[op[w].who].at = "over"
        BY <1>1, <2>1, <4>1 DEF Knowing, TypeInv, Shape, ShapeOf, Busy
      <4> QED BY <1>6, <4>1, <4>2
    <3> QED BY <3>1, <3>2
  <2>2. ASSUME NEW w \in Busy', w \in sole', NEW a \in Addresses, op'[w].at = "save",
               op'[w].addr = a, Standing(a)', admin'[a].by = op'[w].who
        PROVE  account'[a].pw = op'[w].pw
    <3>1. w # c
      BY <1>2, <2>2
    <3>2. w \in Busy /\ op'[w] = op[w] /\ w \in sole
      BY <1>3, <1>4, <1>5, <2>2, <3>1
    <3> QED BY <1>1, <1>7, <2>2, <3>2 DEF Knowing
  <2> QED BY <2>1, <2>2 DEF Knowing
<1>10. MadeAlike'
  <2>1. ASSUME NEW d \in Busy', NEW a \in Addresses, a \notin met', a \notin mixed',
               op'[d].kind = "register", op'[d].addr = a,
               op'[d].at \in {"link", "count", "tenant", "admin"}
        PROVE  account'[a] = [by |-> d, pw |-> d]
    <3>1. d # c
      BY <1>2, <2>1
    <3>2. d \in Busy /\ op'[d] = op[d] /\ a \notin met /\ a \notin mixed
      BY <1>2, <1>3, <1>4, <2>1, <3>1
    <3> QED BY <1>1, <1>2, <2>1, <3>2 DEF MadeAlike, stores
  <2> QED BY <2>1 DEF MadeAlike
<1>11. Agreed'
  <2>1. ASSUME NEW a \in Addresses, a \notin mixed', Standing(a)'
        PROVE  \/ admin'[a].pw = account'[a].pw
               \/ \E w \in Busy' : /\ Changes(w, a)' /\ op'[w].kind = "reset"
                                   /\ op'[w].at = "save" /\ op'[w].who = admin'[a].by
    <3>1. Standing(a) /\ admin'[a] = admin[a] /\ account'[a] = account[a] /\ a \notin mixed
      BY <1>2, <1>7, <2>1
    <3>2. \A w \in Busy : Changes(w, a) => Changes(w, a)' /\ w \in Busy'
      BY <1>3, <1>4 DEF Changes
    <3> QED BY <1>1, <1>4, <3>1, <3>2 DEF Agreed
  <2> QED BY <2>1 DEF Agreed
<1> QED BY <1>1, <1>8, <1>9, <1>10, <1>11

\* At first every login has its mailbox's password, and nobody changes one.
LEMMA PasswordInit == Init => PasswordInv
<1> SUFFICES ASSUME Init PROVE PasswordInv
  OBVIOUS
<1>1. OwnedInv
  BY OwnedInit
<1>2. sole = {} /\ \A a \in Addresses : admin[a].pw = account[a].pw
  <2>1. PICK home \in [Addresses -> Calls \cup {None}] :
           /\ account = [a \in Addresses |-> [by |-> home[a], pw |-> home[a]]]
           /\ admin = [a \in Addresses |-> [by |-> home[a], org |-> home[a], pw |-> home[a]]]
           /\ sole = {}
    BY DEF Init
  <2> QED BY <2>1
<1>3. PICK home \in [Addresses -> Calls \cup {None}] :
        op = [c \in Calls |->
                    IF c \notin tenants THEN NotBegun
                    ELSE [NotBegun EXCEPT !.kind = "register", !.at = "over", !.org = c,
                                          !.addr = CHOOSE a \in Addresses : home[a] = c]]
  BY DEF Init
<1>4. ASSUME NEW c \in Calls
      PROVE  op[c].at \in {"idle", "over"}
  <2>1. CASE c \notin tenants
    BY <1>3, <2>1 DEF NotBegun
  <2>2. CASE c \in tenants
    <3> DEFINE x == CHOOSE a \in Addresses : home[a] = c
    <3>1. op[c] = [NotBegun EXCEPT !.kind = "register", !.at = "over", !.org = c, !.addr = x]
      BY <1>3, <2>2
    <3> HIDE DEF x
    <3> QED BY <3>1 DEF NotBegun
  <2> QED BY <2>1, <2>2
<1>5. Busy = {}
  BY <1>4 DEF Busy
<1>6. Agreed
  BY <1>2 DEF Agreed, Standing
<1> QED BY <1>1, <1>2, <1>5, <1>6 DEF PasswordInv, Alone, Knowing, MadeAlike

\* Every step keeps it.
LEMMA PasswordNext == PasswordInv /\ [Next]_vars => PasswordInv'
<1> SUFFICES ASSUME PasswordInv, [Next]_vars PROVE PasswordInv'
  OBVIOUS
<1>1. OwnedInv /\ OwnedInv' /\ KeptInv /\ TypeInv /\ Alone /\ Knowing /\ MadeAlike /\ Agreed
  BY OwnedNext DEF PasswordInv, OwnedInv, KeptInv
<1>2. CASE Next
  <2>1. PICK c \in Calls : (\E k : Opens(c, k)) \/ Steps(c)
    BY <1>1, <1>2, NextIs
  <2>2. CASE Steps(c)
    BY <1>1, <2>2, AloneStep, KnowingStep, MadeAlikeStep, AgreedStep DEF PasswordInv
  <2> QED BY <2>1, <2>2, PasswordOpen
<1>3. CASE UNCHANGED vars
  <2>1. Alone'
    BY <1>1, <1>3 DEF Alone, Changes, Busy, vars, histories
  <2>2. \A a : Standing(a)' <=> Standing(a)
    BY <1>3 DEF Standing, SignedUp, Endangered, Busy, vars, stores, histories
  <2>3. Knowing'
    BY <1>1, <1>3, <2>2 DEF Knowing, Busy, vars, stores, histories
  <2>4. MadeAlike'
    BY <1>1, <1>3 DEF MadeAlike, Busy, vars, stores, histories
  <2>5. Agreed'
    BY <1>1, <1>3, <2>2 DEF Agreed, Changes, Busy, vars, stores, histories
  <2> QED BY <1>1, <2>1, <2>3, <2>4, <2>5 DEF PasswordInv
<1> QED BY <1>2, <1>3

\* The password of a login and of its mailbox are one whenever nobody works on
\* the name, but where changes of it overlapped, failed, or met a purge: for any
\* numbers of names and calls, however resets, sign-ins, sign-ups and purges
\* interleave.
THEOREM PasswordsAreOne == Spec => []PasswordsAgree
<1>1. PasswordInv => PasswordsAgree
  <2> SUFFICES ASSUME PasswordInv, NEW a \in Addresses, a \notin met, a \notin mixed,
                      SignedUp(a), Workers(a) = {}
               PROVE  admin[a].pw = account[a].pw
    BY DEF PasswordsAgree
  <2>1. TypeInv /\ Agreed
    BY DEF PasswordInv, OwnedInv, KeptInv
  <2>2. admin[a].by \in Calls /\ op[admin[a].by].addr = a /\ admin[a].org = admin[a].by
    BY <2>1 DEF SignedUp, TypeInv, Named, Known
  <2>3. ~Endangered(admin[a].org)
    <3>1. ASSUME NEW p \in Busy, op[p].kind = "purge", op[p].org = admin[a].org PROVE FALSE
      <4>1. a \in WorksOn(op[p])
        BY <2>2, <3>1, SetsAssumption DEF WorksOn
      <4> QED BY <4>1 DEF Workers
    <3> QED BY <3>1 DEF Endangered
  <2>4. \A w \in Busy : ~Changes(w, a)
    BY <2>1, WorksThere DEF Changes, Workers, Busy
  <2> QED BY <2>1, <2>3, <2>4 DEF Agreed, Standing
<1> QED BY <1>1, PasswordInit, PasswordNext, PTL DEF Spec

=============================================================================
