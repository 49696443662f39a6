-------------------------- MODULE MailMigration_proofs --------------------------
(***************************************************************************)
(* Proofs about MailMigration: the states are well typed, and mail is lost  *)
(* only through the gaps the model names, whatever jobs run at once.        *)
(***************************************************************************)
EXTENDS MailMigration, FiniteSetTheorems, TLAPS

-----------------------------------------------------------------------------
(* Types. *)

\* A job's record, at another stage or ended, is a job's record.
LEMMA JobTyped ==
  ASSUME TypeOK, NEW j \in Jobs
  PROVE  /\ job[j] \in Job
         /\ \A a, b \in Accounts : NoJob(a, b) \in Job
<1>1. job[j] \in Job
  BY DEF TypeOK
<1>2. ASSUME NEW a \in Accounts, NEW b \in Accounts
      PROVE  NoJob(a, b) \in Job
  <2>1. Empty \in [Folders -> SUBSET Messages] /\ "inbox" \in Folders
    BY DEF Empty, Folders
  <2> QED BY <2>1 DEF NoJob, Job
<1> QED BY <1>1, <1>2

\* A job that ends or goes on keeps the jobs well typed.
LEMMA StageTyped ==
  ASSUME TypeOK, NEW j \in Jobs
  PROVE  /\ \A status \in {"completed", "failed"} : Ends(j, status) => job' \in [Jobs -> Job]
         /\ \A stage \in {"create", "folder", "verify", "delete"} :
               Goto(j, stage) => job' \in [Jobs -> Job]
<1>1. ASSUME NEW status \in {"completed", "failed"}, Ends(j, status)
      PROVE  job' \in [Jobs -> Job]
  <2> DEFINE k == [NoJob(job[j].src, job[j].dst) EXCEPT !.status = status, !.del = job[j].del]
  <2>1. job[j].src \in Accounts /\ job[j].dst \in Accounts /\ job[j].del \in BOOLEAN
    BY JobTyped DEF Job
  <2>2. k \in Job
    BY <2>1, JobTyped DEF Job
  <2>3. job' = [job EXCEPT ![j] = k]
    BY <1>1 DEF Ends, Set
  <2> HIDE DEF k
  <2> QED BY <2>2, <2>3 DEF TypeOK
<1>2. ASSUME NEW stage \in {"create", "folder", "verify", "delete"}, Goto(j, stage)
      PROVE  job' \in [Jobs -> Job]
  <2>1. [job[j] EXCEPT !.at = stage] \in Job
    BY JobTyped DEF Job
  <2> QED BY <1>2, <2>1 DEF Goto, Set, TypeOK
<1> QED BY <1>1, <1>2

\* A job past its page, and those that listed its destination, stay well typed.
LEMMA AdvanceTyped ==
  ASSUME TypeOK, NEW j \in Jobs, NEW created \in SUBSET Messages,
         NEW failed \in SUBSET Messages, Advance(j, created, failed)
  PROVE  job' \in [Jobs -> Job]
<1>1. \A k \in Jobs : job[k] \in Job
  BY DEF TypeOK
<1> DEFINE more == IF Cardinality(job[j].page) < PageSize THEN "folder" ELSE "query"
           mine == [job[j] EXCEPT !.at = more, !.read = Passed(j), !.page = {},
                                  !.failed = @ \cup failed]
           other(k) == [job[k] EXCEPT !.seen["migrated"] =
                            IF job[k].src = job[j].dst THEN @ \ created ELSE @]
<1>2. mine \in Job
  <2>1. more \in {"folder", "query"}
    OBVIOUS
  <2>2. Passed(j) \in SUBSET Messages /\ job[j].failed \cup failed \in SUBSET Messages
    BY <1>1 DEF Passed, Job
  <2> HIDE DEF more
  <2> QED BY <1>1, <2>1, <2>2 DEF Job
<1>3. \A k \in Jobs : other(k) \in Job
  <2> SUFFICES ASSUME NEW k \in Jobs PROVE other(k) \in Job
    OBVIOUS
  <2>1. job[k].seen \in [Folders -> SUBSET Messages]
    BY <1>1 DEF Job
  <2>2. [job[k].seen EXCEPT !["migrated"] =
            IF job[k].src = job[j].dst THEN @ \ created ELSE @] \in [Folders -> SUBSET Messages]
    BY <2>1 DEF Folders
  <2> QED BY <1>1, <2>2 DEF Job
<1>4. job' = [k \in Jobs |-> IF k = j THEN mine ELSE other(k)]
  BY DEF Advance
<1> HIDE DEF mine, other
<1> QED BY <1>2, <1>3, <1>4

\* Every step of a job keeps every variable in its type.
LEMMA StepTyped ==
  ASSUME TypeOK, NEW j \in Jobs, JobStep(j)
  PROVE  TypeOK'
<1> USE DEF Same, Fault, NoFault
<1> DEFINE src == job[j].src
           dst == job[j].dst
<1>0. /\ job[j] \in Job /\ src \in Accounts /\ dst \in Accounts
      /\ box[src] \in [Folders -> SUBSET Messages] /\ MaxFaults \in Nat
      /\ job[j].todo \in SUBSET Folders
  BY BoundsAssumption, JobTyped DEF TypeOK, Job
<1>1. CASE Run(j)
  <2>1. [job[j] EXCEPT !.status = "running", !.at = "list"] \in Job
    BY <1>0 DEF Job
  <2> QED BY <1>1, <2>1 DEF Run, Set, TypeOK
<1>2. CASE NoAnswer(j)
  <2>1. job' \in [Jobs -> Job]
    BY <1>2, StageTyped DEF NoAnswer, Fails
  <2> QED BY <1>0, <1>2, <2>1 DEF NoAnswer, TypeOK
<1>3. CASE List(j)
  <2>1. [job[j] EXCEPT !.at = "create", !.seen = box[src],
                       !.todo = {f \in Folders : box[src][f] # {}}] \in Job
    BY <1>0 DEF Job
  <2>2. job' \in [Jobs -> Job]
    BY <1>3, <2>1, StageTyped DEF List, Set, TypeOK
  <2>3. slipped' \subseteq Messages
    BY <1>0, <1>3 DEF List, Mail, TypeOK
  <2> QED BY <1>0, <1>3, <2>2, <2>3 DEF List, TypeOK
<1>4. CASE Create(j)
  <2>1. \A made \in SUBSET job[j].todo : [job[j] EXCEPT !.at = "folder", !.todo = made] \in Job
    BY <1>0 DEF Job
  <2>2. job' \in [Jobs -> Job]
    BY <1>4, <2>1, StageTyped DEF Create, Set, Fails, TypeOK
  <2>3. slipped' \subseteq Messages
    <3>1. \A f \in job[j].todo : box[src][f] \subseteq Messages
      BY <1>0
    <3>2. \/ slipped' = slipped
          \/ \E made \in SUBSET job[j].todo :
                slipped' = slipped \cup UNION {box[src][f] : f \in job[j].todo \ made}
      BY <1>4 DEF Create
    <3> QED BY <3>1, <3>2 DEF TypeOK
  <2>4. faults' \in 0..MaxFaults
    <3>1. NoFault \/ Fault
      BY <1>4 DEF Create
    <3> QED BY <1>0, <3>1 DEF TypeOK
  <2> QED BY <1>4, <2>2, <2>3, <2>4 DEF Create, TypeOK
<1>5. CASE NextFolder(j)
  <2>1. \A f \in job[j].todo :
          [job[j] EXCEPT !.at = "query", !.cur = f, !.todo = @ \ {f}, !.read = {}] \in Job
    BY <1>0 DEF Job
  <2>2. job' \in [Jobs -> Job]
    BY <1>5, <2>1, StageTyped DEF NextFolder, Set, TypeOK
  <2> QED BY <1>5, <2>2 DEF NextFolder, TypeOK
<1>6. CASE Query(j)
  <2>0. job[j].cur \in Folders
    BY <1>0 DEF Job
  <2>1. \A page \in SUBSET (box[src][job[j].cur] \ job[j].read) :
          [job[j] EXCEPT !.at = "copy", !.page = page] \in Job
    BY <1>0, <2>0 DEF Job
  <2>2. job' \in [Jobs -> Job]
    BY <1>6, <2>1, StageTyped DEF Query, Set, TypeOK
  <2>3. slipped' \subseteq Messages
    BY <1>0, <1>6, <2>0 DEF Query, TypeOK
  <2>4. NoFault \/ Fault
    BY <1>6 DEF Query
  <2>5. faults' \in 0..MaxFaults
    BY <1>0, <2>4 DEF TypeOK
  <2> QED BY <1>6, <2>2, <2>3, <2>5 DEF Query, TypeOK
<1>7. CASE Copy(j)
  <2>0. job[j].page \in SUBSET Messages
    BY <1>0 DEF Job
  <2>1. job' \in [Jobs -> Job]
    <3>1. \A created \in SUBSET job[j].page :
            Advance(j, created, job[j].page \ created) => job' \in [Jobs -> Job]
      BY <2>0, AdvanceTyped
    <3>2. Advance(j, {}, {}) => job' \in [Jobs -> Job]
      BY AdvanceTyped
    <3> QED BY <1>7, <3>1, <3>2 DEF Copy
  <2>3. ASSUME NEW created \in SUBSET job[j].page, Reachable(j),
               box' = [box EXCEPT ![dst]["migrated"] = @ \cup created]
        PROVE  /\ box' \in [Accounts -> [Folders -> SUBSET Messages]]
               /\ \A a \in Accounts \ alive : box'[a] = Empty
    <3>1. created \in SUBSET Messages /\ dst \in alive
      BY <2>0, <2>3 DEF Reachable
    <3>2. box[dst] \in [Folders -> SUBSET Messages]
      BY <1>0 DEF TypeOK
    <3>3. [box[dst] EXCEPT !["migrated"] = @ \cup created] \in [Folders -> SUBSET Messages]
      BY <3>1, <3>2
    <3>4. box' = [box EXCEPT ![dst] = [box[dst] EXCEPT !["migrated"] = @ \cup created]]
      BY <2>3
    <3> QED BY <3>1, <3>3, <3>4 DEF TypeOK
  <2>4. /\ box' \in [Accounts -> [Folders -> SUBSET Messages]]
        /\ \A a \in Accounts \ alive : box'[a] = Empty
    <3>1. CASE UNCHANGED box
      BY <3>1 DEF TypeOK
    <3> QED BY <1>7, <2>3, <3>1 DEF Copy
  <2>5. slipped' \subseteq Messages
    BY <1>7, <2>0 DEF Copy, TypeOK
  <2>6. NoFault \/ Fault
    BY <1>7 DEF Copy
  <2>7. faults' \in 0..MaxFaults
    BY <1>0, <2>6 DEF TypeOK
  <2> QED BY <1>7, <2>1, <2>4, <2>5, <2>7 DEF Copy, TypeOK
<1>8. CASE Verify(j)
  <2>1. job' \in [Jobs -> Job]
    BY <1>8, StageTyped DEF Verify, Fails
  <2> QED BY <1>8, <2>1 DEF Verify, TypeOK
<1>9. CASE DeleteSource(j)
  <2>1. job' \in [Jobs -> Job]
    BY <1>9, StageTyped DEF DeleteSource, Fails
  <2>2. Empty \in [Folders -> SUBSET Messages]
    BY DEF Empty
  <2>3. /\ box' \in [Accounts -> [Folders -> SUBSET Messages]]
        /\ alive' \subseteq Accounts /\ \A a \in Accounts \ alive' : box'[a] = Empty
    BY <1>0, <1>9, <2>2 DEF DeleteSource, TypeOK
  <2>4. slipped' \subseteq Messages /\ faults' \in 0..MaxFaults
    BY <1>0, <1>9 DEF DeleteSource, Late, TypeOK
  <2> QED BY <1>9, <2>1, <2>3, <2>4 DEF DeleteSource, TypeOK
<1> QED BY <1>1, <1>2, <1>3, <1>4, <1>5, <1>6, <1>7, <1>8, <1>9 DEF JobStep

\* The initial states are well typed.
LEMMA TypeInit == Init => TypeOK
<1> SUFFICES ASSUME Init PROVE TypeOK
  OBVIOUS
<1>1. Empty \in [Folders -> SUBSET Messages]
  BY DEF Empty
<1>2. \A a \in Accounts : NoJob(a, a) \in Job
  BY <1>1 DEF NoJob, Job, Folders
<1>3. job \in [Jobs -> Job]
  BY <1>2 DEF Init
<1> QED BY <1>1, <1>3, BoundsAssumption DEF Init, TypeOK

\* No step takes a variable out of its type.
LEMMA TypeNext == TypeOK /\ [Next]_vars => TypeOK'
<1> SUFFICES ASSUME TypeOK, [Next]_vars PROVE TypeOK'
  OBVIOUS
<1>1. ASSUME NEW j \in Jobs, NEW a \in Accounts, NEW b \in Accounts, NEW del \in BOOLEAN,
             Start(j, a, b, del)
      PROVE  TypeOK'
  <2>1. [NoJob(a, b) EXCEPT !.status = "queued", !.at = "begin", !.del = del] \in Job
    <3>1. NoJob(a, b) \in Job
      BY JobTyped
    <3> QED BY <3>1 DEF Job
  <2> QED BY <1>1, <2>1 DEF Start, Set, TypeOK
<1>2. ASSUME NEW m \in Messages, NEW a \in Accounts, Arrive(m, a) PROVE TypeOK'
  <2>1. box' \in [Accounts -> [Folders -> SUBSET Messages]]
    BY <1>2 DEF Arrive, TypeOK
  <2>2. \A b \in Accounts \ alive' : box'[b] = Empty
    BY <1>2 DEF Arrive, TypeOK
  <2> QED BY <1>2, <2>1, <2>2 DEF Arrive, TypeOK
<1>3. CASE Crash
  <2>1. \A j \in Jobs : [job[j] EXCEPT !.at = "idle"] \in Job
    BY DEF TypeOK, Job
  <2>2. faults' \in 0..MaxFaults
    BY <1>3, BoundsAssumption DEF Crash, Fault, TypeOK
  <2> QED BY <1>3, <2>1, <2>2 DEF Crash, TypeOK
<1>4. CASE UNCHANGED vars
  BY <1>4 DEF vars, TypeOK
<1> QED BY <1>1, <1>2, <1>3, <1>4, StepTyped DEF Next

\* TypeOK: every variable stays in its type, and an account that is gone holds
\* no mail (all steps of the module).
THEOREM TypeCorrect == Spec => []TypeOK
  BY TypeInit, TypeNext, PTL DEF Spec

-----------------------------------------------------------------------------
(* Where a message is safe.                                                 *)

\* A job r that has listed its source, whose account will not be cleared of m
\* unnoticed while the mail is b: m is late, or not read yet, or the job fails.
Listed(r) == r.at \notin {"idle", "begin", "list"}
LateIn(r, b, m) == \E f \in Folders : m \in b[r.src][f] \ r.seen[f]
Unread(r, b, m) ==
    \E f \in Folders :
        /\ m \in b[r.src][f]
        /\ \/ f \in r.todo
           \/ f = r.cur /\ r.at \in {"query", "copy"} /\ m \notin r.read
Covered(r, b, m) == LateIn(r, b, m) \/ Unread(r, b, m) \/ r.failed # {}

\* Some account has the message, and no job that empties it overlooks it.
SafeIn(a, m) ==
    /\ m \in Mail(a)
    /\ \A k \in Jobs : job[k].src = a /\ Listed(job[k]) => Covered(job[k], box, m)
Safe(m) == \E a \in Accounts : SafeIn(a, m)

\* What the jobs know: two accounts, nothing that has not arrived, all that was
\* listed when a page is short, nothing left to do when they verify and delete.
Careful(r, b, new) ==
    /\ r.at # "idle" => r.src # r.dst /\ \A f \in Folders : r.seen[f] \cap new = {}
    /\ r.at = "copy" /\ Cardinality(r.page) < PageSize =>
          b[r.src][r.cur] \cap r.seen[r.cur] \subseteq r.read \cup r.page
    /\ r.at = "copy" => r.page \cap new = {}
    /\ r.at \in {"verify", "delete"} => r.todo = {}
    /\ r.at = "delete" => r.failed = {}

MailInv ==
    /\ TypeOK
    /\ \A a \in Accounts, f \in Folders : box[a][f] \cap fresh = {}
    /\ \A j \in Jobs : Careful(job[j], box, fresh)
    /\ \A m \in Messages \ fresh : m \in slipped \/ Safe(m)

\* More mail in the source and less of it seen leave a message covered.
LEMMA StillCovered ==
  ASSUME NEW r, NEW s, NEW b, NEW c, NEW m, Covered(r, b, m),
         s.src = r.src, s.todo = r.todo, s.cur = r.cur, s.at = r.at, s.read = r.read,
         s.failed = r.failed,
         \A f \in Folders : b[r.src][f] \subseteq c[r.src][f],
         \A f \in Folders : s.seen[f] \subseteq r.seen[f]
  PROVE  Covered(s, c, m)
<1>1. LateIn(r, b, m) => LateIn(s, c, m)
  BY DEF LateIn
<1>2. Unread(r, b, m) => Unread(s, c, m)
  BY DEF Unread
<1> QED BY <1>1, <1>2 DEF Covered

\* A step of job j alone, that moves no mail, leaves a message where it is safe
\* if j does.
LEMMA OneJob ==
  ASSUME NEW j \in Jobs, NEW a \in Accounts, NEW m, SafeIn(a, m), box' = box,
         \A k \in Jobs \ {j} : job'[k] = job[k],
         job'[j].src = a /\ Listed(job'[j]) => Covered(job'[j], box, m)
  PROVE  Safe(m)'
<1>1. (m \in Mail(a))'
  BY DEF SafeIn, Mail
<1>2. \A k \in Jobs : job'[k].src = a /\ Listed(job'[k]) => Covered(job'[k], box', m)
  BY DEF SafeIn
<1> QED BY <1>1, <1>2 DEF Safe, SafeIn, Listed, Covered, LateIn, Unread

\* A step of job j alone, that moves no mail, after which j is careful and each
\* message that was safe is, or has slipped through.
LEMMA OneJobInv ==
  ASSUME MailInv, TypeOK', NEW j \in Jobs, box' = box, fresh' = fresh,
         \A k \in Jobs \ {j} : job'[k] = job[k],
         Careful(job'[j], box, fresh), slipped \subseteq slipped',
         \A m \in Messages \ (fresh \cup slipped') :
            /\ m \in Mail(job'[j].src) /\ Listed(job'[j])
            /\ job'[j].src = job[j].src
            /\ Listed(job[j]) => Covered(job[j], box, m)
            => Covered(job'[j], box, m),
         Listed(job'[j]) => job'[j].src = job[j].src
  PROVE  MailInv'
<1>1. \A k \in Jobs : Careful(job'[k], box', fresh')
  BY DEF MailInv
<1>2. \A a \in Accounts, f \in Folders : box'[a][f] \cap fresh' = {}
  BY DEF MailInv
<1>3. ASSUME NEW m \in Messages \ fresh, m \notin slipped'
      PROVE  Safe(m)'
  <2>1. PICK a \in Accounts : SafeIn(a, m)
    BY <1>3 DEF MailInv, Safe
  <2>2. job'[j].src = a /\ Listed(job'[j]) => Covered(job'[j], box, m)
    BY <1>3, <2>1 DEF SafeIn
  <2> QED BY <2>1, <2>2, OneJob
<1> QED BY <1>1, <1>2, <1>3 DEF MailInv, Careful, Safe, SafeIn, Listed, Covered, LateIn, Unread

\* The same for a job that ends.
LEMMA EndsInv ==
  ASSUME MailInv, TypeOK', NEW j \in Jobs, box' = box, fresh' = fresh,
         NEW status, Ends(j, status), slipped' = slipped
  PROVE  MailInv'
<1>1. job'[j].at = "idle" /\ \A k \in Jobs \ {j} : job'[k] = job[k]
  BY DEF Ends, Set, NoJob, MailInv, TypeOK
<1>2. Careful(job'[j], box, fresh) /\ ~Listed(job'[j])
  BY <1>1 DEF Careful, Listed
<1> QED BY <1>1, <1>2, OneJobInv

\* The steps of a job that move no mail.
LEMMA QuietSteps ==
  ASSUME MailInv, TypeOK', NEW j \in Jobs,
         Run(j) \/ NoAnswer(j) \/ List(j) \/ Create(j) \/ NextFolder(j) \/ Query(j) \/ Verify(j)
  PROVE  MailInv'
<1> USE DEF Same
<1> DEFINE r == job[j]
           src == r.src
<1>0. /\ r \in Job /\ Careful(r, box, fresh) /\ src \in Accounts
      /\ \A f \in Folders : box[src][f] \subseteq Messages /\ box[src][f] \cap fresh = {}
  BY DEF MailInv, TypeOK, Job
<1>a. ASSUME NEW k, Set(j, k)
      PROVE  job'[j] = k /\ \A i \in Jobs \ {j} : job'[i] = job[i]
  BY <1>a DEF Set, MailInv, TypeOK
<1>1. CASE Run(j)
  <2> DEFINE k == [r EXCEPT !.status = "running", !.at = "list"]
  <2>1. k.at = "list" /\ k.src = src /\ k.dst = r.dst /\ k.seen = r.seen /\ r.at = "begin"
    BY <1>0, <1>1 DEF Job, Run, At
  <2>2. Careful(k, box, fresh) /\ ~Listed(k)
    BY <1>0, <2>1 DEF Careful, Listed
  <2>3. Set(j, k)
    BY <1>1 DEF Run
  <2> HIDE DEF k
  <2> QED BY <1>1, <1>a, <2>2, <2>3, OneJobInv DEF Run
<1>2. CASE NoAnswer(j)
  BY <1>2, EndsInv DEF NoAnswer, Fails
<1>3. CASE List(j)
  <2>1. CASE Set(j, [r EXCEPT !.at = "create", !.seen = box[src],
                              !.todo = {f \in Folders : box[src][f] # {}}])
             /\ UNCHANGED slipped
    <3> DEFINE k == [r EXCEPT !.at = "create", !.seen = box[src],
                              !.todo = {f \in Folders : box[src][f] # {}}]
    <3>1. /\ k.at = "create" /\ k.src = src /\ k.dst = r.dst /\ k.seen = box[src]
          /\ k.todo = {f \in Folders : box[src][f] # {}} /\ r.at = "list"
      BY <1>0, <1>3 DEF Job, List, At
    <3> HIDE DEF k
    <3>2. Careful(k, box, fresh)
      BY <1>0, <3>1 DEF Careful
    <3>3. \A m \in Mail(src) : Covered(k, box, m)
      BY <3>1 DEF Mail, Covered, Unread
    <3>4. job'[j] = k /\ \A i \in Jobs \ {j} : job'[i] = job[i]
      BY <1>a, <2>1 DEF k
    <3> QED BY <1>3, <2>1, <3>1, <3>2, <3>3, <3>4, OneJobInv DEF List
  <2>2. CASE Goto(j, "create") /\ slipped' = slipped \cup Mail(src)
    <3> DEFINE k == [r EXCEPT !.at = "create"]
    <3>1. k.at = "create" /\ k.src = src /\ k.dst = r.dst /\ k.seen = r.seen /\ r.at = "list"
      BY <1>0, <1>3 DEF Job, List, At
    <3>2. Set(j, k)
      BY <2>2 DEF Goto
    <3> HIDE DEF k
    <3>3. Careful(k, box, fresh)
      BY <1>0, <3>1 DEF Careful
    <3> QED BY <1>3, <1>a, <2>2, <3>1, <3>2, <3>3, OneJobInv DEF List
  <2> QED BY <1>3, <2>1, <2>2 DEF List
<1>4. CASE Create(j)
  <2>1. ASSUME NEW made \in SUBSET r.todo, Set(j, [r EXCEPT !.at = "folder", !.todo = made]),
               slipped' = slipped \cup UNION {box[src][f] : f \in r.todo \ made}
        PROVE  MailInv'
    <3> DEFINE k == [r EXCEPT !.at = "folder", !.todo = made]
    <3>1. /\ k.at = "folder" /\ k.src = src /\ k.dst = r.dst /\ k.seen = r.seen
          /\ k.todo = made /\ k.failed = r.failed /\ r.at = "create"
      BY <1>0, <1>4 DEF Job, Create, At
    <3>2. Set(j, k)
      BY <2>1
    <3> HIDE DEF k
    <3>3. Careful(k, box, fresh)
      BY <1>0, <3>1 DEF Careful
    <3>4. ASSUME NEW m, m \notin slipped', Covered(r, box, m)
          PROVE  Covered(k, box, m)
      <4>1. Unread(r, box, m) => Unread(k, box, m)
        BY <2>1, <3>1, <3>4 DEF Unread
      <4>2. LateIn(r, box, m) => LateIn(k, box, m)
        BY <3>1 DEF LateIn
      <4> QED BY <3>1, <3>4, <4>1, <4>2 DEF Covered
    <3>5. Listed(r)
      BY <3>1 DEF Listed
    <3>6. job'[j] = k /\ \A i \in Jobs \ {j} : job'[i] = job[i]
      BY <1>a, <3>2
    <3>7. slipped \subseteq slipped'
      BY <2>1
    <3> QED BY <1>4, <3>1, <3>3, <3>4, <3>5, <3>6, <3>7, OneJobInv DEF Create
  <2> QED BY <1>4, <2>1, EndsInv DEF Create, Fails
<1>5. CASE NextFolder(j)
  <2>1. CASE r.todo = {} /\ Goto(j, "verify")
    <3> DEFINE k == [r EXCEPT !.at = "verify"]
    <3>1. /\ k.at = "verify" /\ k.src = src /\ k.dst = r.dst /\ k.seen = r.seen
          /\ k.todo = {} /\ k.failed = r.failed /\ r.at = "folder"
      BY <1>0, <1>5, <2>1 DEF Job, NextFolder, At
    <3>2. Set(j, k)
      BY <2>1 DEF Goto
    <3> HIDE DEF k
    <3>3. Careful(k, box, fresh)
      BY <1>0, <3>1 DEF Careful
    <3>4. ASSUME NEW m, Covered(r, box, m) PROVE Covered(k, box, m)
      BY <2>1, <3>1, <3>4 DEF Covered, Unread, LateIn
    <3>5. Listed(r)
      BY <3>1 DEF Listed
    <3>6. job'[j] = k /\ \A i \in Jobs \ {j} : job'[i] = job[i]
      BY <1>a, <3>2
    <3> QED BY <1>5, <3>1, <3>3, <3>4, <3>5, <3>6, OneJobInv DEF NextFolder
  <2>2. ASSUME NEW g \in r.todo,
               Set(j, [r EXCEPT !.at = "query", !.cur = g, !.todo = @ \ {g}, !.read = {}])
        PROVE  MailInv'
    <3> DEFINE k == [r EXCEPT !.at = "query", !.cur = g, !.todo = @ \ {g}, !.read = {}]
    <3>1. /\ k.at = "query" /\ k.src = src /\ k.dst = r.dst /\ k.seen = r.seen
          /\ k.todo = r.todo \ {g} /\ k.cur = g /\ k.read = {} /\ k.failed = r.failed
          /\ r.at = "folder"
      BY <1>0, <1>5 DEF Job, NextFolder, At
    <3>2. Set(j, k)
      BY <2>2
    <3> HIDE DEF k
    <3>3. Careful(k, box, fresh)
      BY <1>0, <3>1 DEF Careful
    <3>4. ASSUME NEW m, Covered(r, box, m) PROVE Covered(k, box, m)
      BY <3>1, <3>4 DEF Covered, Unread, LateIn
    <3>5. Listed(r)
      BY <3>1 DEF Listed
    <3>6. job'[j] = k /\ \A i \in Jobs \ {j} : job'[i] = job[i]
      BY <1>a, <3>2
    <3> QED BY <1>5, <3>1, <3>3, <3>4, <3>5, <3>6, OneJobInv DEF NextFolder
  <2> QED BY <1>5, <2>1, <2>2 DEF NextFolder
<1>6. CASE Query(j)
  <2> DEFINE rest == box[src][r.cur] \ r.read
  <2>0. r.cur \in Folders /\ rest \subseteq Messages /\ IsFiniteSet(rest) /\ r.at = "query"
    BY <1>0, <1>6, BoundsAssumption, FS_Subset DEF Job, Query, At
  <2>1. ASSUME NEW page \in SUBSET rest, Set(j, [r EXCEPT !.at = "copy", !.page = page]),
               Cardinality(page) = IF Cardinality(rest) < PageSize
                                   THEN Cardinality(rest) ELSE PageSize,
               UNCHANGED slipped
        PROVE  MailInv'
    <3> DEFINE k == [r EXCEPT !.at = "copy", !.page = page]
    <3>1. /\ k.at = "copy" /\ k.src = src /\ k.dst = r.dst /\ k.seen = r.seen
          /\ k.todo = r.todo /\ k.cur = r.cur /\ k.read = r.read /\ k.failed = r.failed
          /\ k.page = page
      BY <1>0 DEF Job
    <3>2. Set(j, k)
      BY <2>1
    <3> HIDE DEF k
    <3>a. Cardinality(page) < PageSize => page = rest
      <4>1. PageSize \in Nat /\ Cardinality(rest) \in Nat
        BY <2>0, BoundsAssumption, FS_CardinalityType
      <4>2. Cardinality(page) < PageSize => Cardinality(rest) = Cardinality(page)
        BY <2>1, <4>1
      <4> QED BY <2>0, <4>2, FS_Subset
    <3>3. Careful(k, box, fresh)
      BY <1>0, <2>0, <3>1, <3>a DEF Careful
    <3>4. ASSUME NEW m, Covered(r, box, m) PROVE Covered(k, box, m)
      BY <2>0, <3>1, <3>4 DEF Covered, Unread, LateIn
    <3>5. Listed(r)
      BY <2>0 DEF Listed
    <3>6. job'[j] = k /\ \A i \in Jobs \ {j} : job'[i] = job[i]
      BY <1>a, <3>2
    <3> QED BY <1>6, <2>1, <3>1, <3>3, <3>4, <3>5, <3>6, OneJobInv DEF Query
  <2>2. CASE Goto(j, "folder") /\ slipped' = slipped \cup rest
    <3> DEFINE k == [r EXCEPT !.at = "folder"]
    <3>1. /\ k.at = "folder" /\ k.src = src /\ k.dst = r.dst /\ k.seen = r.seen
          /\ k.todo = r.todo /\ k.failed = r.failed
      BY <1>0 DEF Job
    <3>2. Set(j, k)
      BY <2>2 DEF Goto
    <3> HIDE DEF k
    <3>3. Careful(k, box, fresh)
      BY <1>0, <2>0, <3>1 DEF Careful
    <3>4. ASSUME NEW m, m \notin rest, Covered(r, box, m) PROVE Covered(k, box, m)
      BY <3>1, <3>4 DEF Covered, Unread, LateIn
    <3>5. Listed(r)
      BY <2>0 DEF Listed
    <3>6. job'[j] = k /\ \A i \in Jobs \ {j} : job'[i] = job[i]
      BY <1>a, <3>2
    <3> HIDE DEF rest
    <3> QED BY <1>6, <2>2, <3>1, <3>3, <3>4, <3>5, <3>6, OneJobInv DEF Query
  <2>3. CASE rest = {} /\ Goto(j, "folder") /\ UNCHANGED slipped
    <3>1. slipped' = slipped \cup rest
      BY <2>3
    <3> QED BY <2>2, <2>3, <3>1
  <2> QED BY <1>6, <2>1, <2>2, <2>3 DEF Query
<1>7. CASE Verify(j)
  <2>1. CASE AllCopied(j) /\ Goto(j, "delete")
    <3> DEFINE k == [r EXCEPT !.at = "delete"]
    <3>1. /\ k.at = "delete" /\ k.src = src /\ k.dst = r.dst /\ k.seen = r.seen
          /\ k.todo = r.todo /\ k.failed = r.failed /\ r.at = "verify" /\ r.failed = {}
      BY <1>0, <1>7, <2>1 DEF Job, Verify, At, AllCopied
    <3>2. Set(j, k)
      BY <2>1 DEF Goto
    <3> HIDE DEF k
    <3>3. Careful(k, box, fresh)
      BY <1>0, <3>1 DEF Careful
    <3>4. ASSUME NEW m, Covered(r, box, m) PROVE Covered(k, box, m)
      BY <3>1, <3>4 DEF Covered, Unread, LateIn
    <3>5. Listed(r)
      BY <3>1 DEF Listed
    <3>6. job'[j] = k /\ \A i \in Jobs \ {j} : job'[i] = job[i]
      BY <1>a, <3>2
    <3> QED BY <1>7, <3>1, <3>3, <3>4, <3>5, <3>6, OneJobInv DEF Verify
  <2> QED BY <1>7, <2>1, EndsInv DEF Verify, Fails
<1> QED BY <1>1, <1>2, <1>3, <1>4, <1>5, <1>6, <1>7

\* What Advance does to the records: the job's own, and those whose source is the
\* destination.
LEMMA Advanced ==
  ASSUME TypeOK, NEW j \in Jobs, NEW created, NEW failed, Advance(j, created, failed)
  PROVE  LET r == job[j]
             s == job'[j]
         IN  /\ s.src = r.src /\ s.dst = r.dst /\ s.todo = r.todo /\ s.cur = r.cur
             /\ s.seen = r.seen /\ s.read = r.read \cup r.page
             /\ s.failed = r.failed \cup failed
             /\ s.at = IF Cardinality(r.page) < PageSize THEN "folder" ELSE "query"
             /\ \A k \in Jobs \ {j} :
                   /\ \A f \in Folders : job'[k].seen[f] \subseteq job[k].seen[f]
                   /\ job[k].src = r.dst => job'[k].seen["migrated"] \cap created = {}
                   /\ job'[k].src = job[k].src /\ job'[k].dst = job[k].dst
                   /\ job'[k].at = job[k].at /\ job'[k].todo = job[k].todo
                   /\ job'[k].cur = job[k].cur /\ job'[k].read = job[k].read
                   /\ job'[k].page = job[k].page /\ job'[k].failed = job[k].failed
<1> DEFINE r == job[j]
           more == IF Cardinality(r.page) < PageSize THEN "folder" ELSE "query"
<1>0. \A k \in Jobs : job[k] \in Job
  BY DEF TypeOK
<1>1. job'[j] = [r EXCEPT !.at = more, !.read = r.read \cup r.page, !.page = {},
                          !.failed = @ \cup failed]
  BY DEF Advance, Passed
<1> HIDE DEF more
<1>2. /\ job'[j].src = r.src /\ job'[j].dst = r.dst /\ job'[j].todo = r.todo
      /\ job'[j].cur = r.cur /\ job'[j].seen = r.seen /\ job'[j].read = r.read \cup r.page
      /\ job'[j].failed = r.failed \cup failed /\ job'[j].at = more
  BY <1>0, <1>1 DEF Job
<1>3. ASSUME NEW k \in Jobs \ {j}
      PROVE  /\ \A f \in Folders : job'[k].seen[f] \subseteq job[k].seen[f]
             /\ job[k].src = r.dst => job'[k].seen["migrated"] \cap created = {}
             /\ job'[k].src = job[k].src /\ job'[k].dst = job[k].dst
             /\ job'[k].at = job[k].at /\ job'[k].todo = job[k].todo
             /\ job'[k].cur = job[k].cur /\ job'[k].read = job[k].read
             /\ job'[k].page = job[k].page /\ job'[k].failed = job[k].failed
  <2> DEFINE old == job[k].seen
             new == [old EXCEPT !["migrated"] = IF job[k].src = r.dst THEN @ \ created ELSE @]
  <2>1. job'[k] = [job[k] EXCEPT !.seen = new]
    BY DEF Advance
  <2>2. old \in [Folders -> SUBSET Messages] /\ "migrated" \in Folders
    BY <1>0 DEF Job, Folders
  <2>3. /\ \A f \in Folders : new[f] \subseteq old[f]
        /\ job[k].src = r.dst => new["migrated"] \cap created = {}
    BY <2>2
  <2>4. job[k] \in Job
    BY <1>0
  <2> HIDE DEF new
  <2>5. job'[k].seen = new
    BY <2>1, <2>4 DEF Job
  <2>6. /\ job'[k].src = job[k].src /\ job'[k].dst = job[k].dst
        /\ job'[k].at = job[k].at /\ job'[k].todo = job[k].todo
        /\ job'[k].cur = job[k].cur /\ job'[k].read = job[k].read
        /\ job'[k].page = job[k].page /\ job'[k].failed = job[k].failed
    BY <2>1, <2>4 DEF Job
  <2> QED BY <2>3, <2>5, <2>6
<1> QED BY <1>2, <1>3 DEF more

\* After a page every job is careful still.
LEMMA AdvanceCareful ==
  ASSUME MailInv, NEW j \in Jobs, job[j].at = "copy", NEW created, NEW failed,
         Advance(j, created, failed), fresh' = fresh,
         \A a \in Accounts, f \in Folders :
            \/ box'[a][f] = box[a][f]
            \/ a = job[j].dst /\ f = "migrated" /\ box'[a][f] = box[a][f] \cup created
  PROVE  \A k \in Jobs : Careful(job'[k], box', fresh')
<1> SUFFICES ASSUME NEW k \in Jobs PROVE Careful(job'[k], box', fresh)
  OBVIOUS
<1> DEFINE r == job[k]
           s == job'[k]
<1>0. r \in Job /\ r.src \in Accounts /\ r.cur \in Folders /\ Careful(r, box, fresh) /\ TypeOK
  BY DEF MailInv, TypeOK, Job
<1>1. CASE k = j
  <2>1. /\ s.src = r.src /\ s.dst = r.dst /\ s.seen = r.seen /\ s.at \in {"folder", "query"}
    BY <1>0, <1>1, Advanced
  <2> QED BY <1>0, <1>1, <2>1 DEF Careful
<1>2. CASE k # j
  <2>1. /\ \A f \in Folders : s.seen[f] \subseteq r.seen[f]
        /\ r.src = job[j].dst => s.seen["migrated"] \cap created = {}
        /\ s.src = r.src /\ s.dst = r.dst /\ s.at = r.at /\ s.todo = r.todo
        /\ s.cur = r.cur /\ s.read = r.read /\ s.page = r.page /\ s.failed = r.failed
    BY <1>0, <1>2, Advanced
  <2>2. box'[s.src][s.cur] \cap s.seen[s.cur] \subseteq box[r.src][r.cur] \cap r.seen[r.cur]
    BY <1>0, <2>1
  <2>3. s.at # "idle" => s.src # s.dst /\ \A f \in Folders : s.seen[f] \cap fresh = {}
    BY <1>0, <2>1 DEF Careful
  <2>4. s.at = "copy" /\ Cardinality(s.page) < PageSize =>
          box'[s.src][s.cur] \cap s.seen[s.cur] \subseteq s.read \cup s.page
    BY <1>0, <2>1, <2>2 DEF Careful
  <2>5. /\ s.at = "copy" => s.page \cap fresh = {}
        /\ s.at \in {"verify", "delete"} => s.todo = {}
        /\ s.at = "delete" => s.failed = {}
    BY <1>0, <2>1 DEF Careful
  <2> QED BY <2>3, <2>4, <2>5 DEF Careful
<1> QED BY <1>1, <1>2

\* A page that was copied, refused or passed over leaves its mail safe.
LEMMA CopyInv ==
  ASSUME MailInv, TypeOK', NEW j \in Jobs, Copy(j)
  PROVE  MailInv'
<1> DEFINE r == job[j]
           src == r.src
           dst == r.dst
           page == r.page
<1>0. /\ TypeOK /\ r \in Job /\ src \in Accounts /\ dst \in Accounts /\ r.at = "copy"
      /\ r.cur \in Folders /\ page \in SUBSET Messages /\ src # dst /\ fresh' = fresh
      /\ "migrated" \in Folders /\ Careful(r, box, fresh)
  BY DEF MailInv, TypeOK, Job, Copy, At, Careful, Folders
<1>1. PICK created \in SUBSET page, failed \in SUBSET page :
        /\ Advance(j, created, failed)
        /\ box' = [box EXCEPT ![dst]["migrated"] = @ \cup created]
        /\ slipped \subseteq slipped'
        /\ page \ (created \cup failed) \subseteq slipped'
  <2>1. ASSUME NEW created \in SUBSET page,
               box' = [box EXCEPT ![dst]["migrated"] = @ \cup created],
               Advance(j, created, page \ created), UNCHANGED slipped
        PROVE  \E c \in SUBSET page, e \in SUBSET page :
                  /\ Advance(j, c, e)
                  /\ box' = [box EXCEPT ![dst]["migrated"] = @ \cup c]
                  /\ slipped \subseteq slipped'
                  /\ page \ (c \cup e) \subseteq slipped'
    <3>1. page \ (created \cup (page \ created)) \subseteq slipped'
      OBVIOUS
    <3>2. page \ created \in SUBSET page /\ slipped \subseteq slipped'
      BY <2>1
    <3> QED BY <2>1, <3>1, <3>2
  <2>2. CASE Advance(j, {}, {}) /\ slipped' = slipped \cup page /\ UNCHANGED box
    <3>1. box' = [box EXCEPT ![dst]["migrated"] = @ \cup {}]
      BY <1>0, <2>2 DEF TypeOK
    <3> QED BY <2>2, <3>1
  <2> QED BY <2>1, <2>2 DEF Copy
<1>2. /\ \A a \in Accounts, f \in Folders :
            \/ box'[a][f] = box[a][f]
            \/ a = dst /\ f = "migrated" /\ box'[a][f] = box[a][f] \cup created
      /\ box'[src] = box[src]
      /\ box'[dst]["migrated"] = box[dst]["migrated"] \cup created
  BY <1>0, <1>1 DEF TypeOK
<1>3. \A a \in Accounts, f \in Folders : box[a][f] \subseteq box'[a][f]
  BY <1>2
<1>4. \A k \in Jobs : Careful(job'[k], box', fresh')
  BY <1>0, <1>1, <1>2, AdvanceCareful
<1>5. \A k \in Jobs \ {j} :
        /\ \A f \in Folders : job'[k].seen[f] \subseteq job[k].seen[f]
        /\ job[k].src = dst => job'[k].seen["migrated"] \cap created = {}
        /\ job'[k].src = job[k].src /\ job'[k].at = job[k].at /\ job'[k].todo = job[k].todo
        /\ job'[k].cur = job[k].cur /\ job'[k].read = job[k].read
        /\ job'[k].failed = job[k].failed
  BY <1>0, <1>1, Advanced
<1>6. LET s == job'[j]
      IN  /\ s.src = src /\ s.todo = r.todo /\ s.cur = r.cur /\ s.seen = r.seen
          /\ s.read = r.read \cup page /\ s.failed = r.failed \cup failed
          /\ s.at = IF Cardinality(page) < PageSize THEN "folder" ELSE "query"
  BY <1>0, <1>1, Advanced
<1>7. \A a \in Accounts, f \in Folders : box'[a][f] \cap fresh' = {}
  <2>1. created \cap fresh = {}
    BY <1>0 DEF Careful
  <2> QED BY <1>0, <1>2, <2>1 DEF MailInv
<1>8. ASSUME NEW m \in Messages \ fresh, m \notin slipped'
      PROVE  Safe(m)'
  <2>1. CASE m \in created
    <3>1. m \in box'[dst]["migrated"]
      BY <1>2, <2>1
    <3>2. ASSUME NEW k \in Jobs, job'[k].src = dst PROVE Covered(job'[k], box', m)
      <4>1. k # j
        BY <1>0, <1>6, <3>2
      <4>2. m \notin job'[k].seen["migrated"]
        BY <1>5, <2>1, <3>2, <4>1
      <4> QED BY <1>0, <3>1, <3>2, <4>2 DEF Covered, LateIn
    <3>4. \E a \in Accounts : /\ m \in UNION {box'[a][f] : f \in Folders}
                              /\ \A k \in Jobs : job'[k].src = a /\ Listed(job'[k]) =>
                                                 Covered(job'[k], box', m)
      BY <1>0, <3>1, <3>2
    <3> QED BY <3>4 DEF Safe, SafeIn, Mail, Listed, Covered, LateIn, Unread
  <2>2. CASE m \notin created
    <3>1. PICK a \in Accounts : SafeIn(a, m)
      BY <1>1, <1>8 DEF MailInv, Safe
    <3>2. m \in UNION {box'[a][f] : f \in Folders}
      BY <1>3, <3>1 DEF SafeIn, Mail
    <3>3. ASSUME NEW k \in Jobs, k # j, job'[k].src = a, Listed(job'[k])
          PROVE  Covered(job'[k], box', m)
      <4>1. Covered(job[k], box, m)
        BY <1>5, <3>1, <3>3 DEF SafeIn, Listed
      <4>2. \A f \in Folders : box[job[k].src][f] \subseteq box'[job[k].src][f]
        BY <1>3, <1>5, <3>3
      <4> QED BY <1>5, <3>3, <4>1, <4>2, StillCovered
    <3>4. ASSUME src = a PROVE Covered(job'[j], box', m)
      <4>1. Covered(r, box, m)
        BY <1>0, <3>1, <3>4 DEF SafeIn, Listed
      <4>2. CASE m \in failed \/ r.failed # {}
        BY <1>6, <4>2 DEF Covered
      <4>3. CASE LateIn(r, box, m)
        BY <1>2, <1>6, <4>3 DEF Covered, LateIn
      <4>4. CASE Unread(r, box, m) /\ m \notin failed
        <5>1. m \notin page
          BY <1>1, <1>8, <2>2, <4>4
        <5>2. PICK f \in Folders : /\ m \in box[src][f]
                                   /\ f \in r.todo \/ (f = r.cur /\ m \notin r.read)
          BY <4>4 DEF Unread
        <5>3. CASE f \in r.todo
          BY <1>2, <1>6, <5>2, <5>3 DEF Covered, Unread
        <5>4. CASE f = r.cur /\ m \notin r.read /\ ~(Cardinality(page) < PageSize)
          BY <1>2, <1>6, <5>1, <5>2, <5>4 DEF Covered, Unread
        <5>5. CASE f = r.cur /\ m \notin r.read /\ Cardinality(page) < PageSize
          <6>1. m \notin r.seen[f]
            BY <1>0, <5>1, <5>2, <5>5 DEF Careful
          <6> QED BY <1>2, <1>6, <5>2, <6>1 DEF Covered, LateIn
        <5> QED BY <5>2, <5>3, <5>4, <5>5
      <4> QED BY <4>1, <4>2, <4>3, <4>4 DEF Covered
    <3>5. \A k \in Jobs : job'[k].src = a /\ Listed(job'[k]) => Covered(job'[k], box', m)
      BY <1>6, <3>3, <3>4
    <3> QED BY <3>2, <3>5 DEF Safe, SafeIn, Mail, Listed, Covered, LateIn, Unread
  <2> QED BY <2>1, <2>2
<1>9. (\A k \in Jobs : Careful(job[k], box, fresh))'
  BY <1>4 DEF Careful
<1>10. (\A m \in Messages \ fresh : m \in slipped \/ Safe(m))'
  <2> SUFFICES ASSUME NEW m \in Messages \ fresh', m \notin slipped'
               PROVE  Safe(m)'
    OBVIOUS
  <2> QED BY <1>0, <1>8
<1> QED BY <1>7, <1>9, <1>10 DEF MailInv

\* A source that is deleted takes with it only mail that came late.
LEMMA DeleteInv ==
  ASSUME MailInv, TypeOK', NEW j \in Jobs, DeleteSource(j)
  PROVE  MailInv'
<1> USE DEF NoFault, Fault
<1> DEFINE r == job[j]
           src == r.src
<1>0. /\ TypeOK /\ r \in Job /\ src \in Accounts /\ r.at = "delete" /\ Careful(r, box, fresh)
      /\ fresh' = fresh
  BY DEF MailInv, TypeOK, Job, DeleteSource, At
<1>1. CASE UNCHANGED <<box, slipped>>
  BY <1>0, <1>1, EndsInv DEF DeleteSource, Fails
<1>2. CASE Ends(j, "completed") /\ box' = [box EXCEPT ![src] = Empty]
           /\ slipped' = slipped \cup Late(j)
  <2>1. job'[j].at = "idle" /\ \A k \in Jobs \ {j} : job'[k] = job[k]
    BY <1>0, <1>2 DEF Ends, Set, NoJob, TypeOK
  <2>2. /\ \A a \in Accounts \ {src} : box'[a] = box[a]
        /\ \A f \in Folders : box'[src][f] = {}
    BY <1>0, <1>2 DEF TypeOK, Empty
  <2>3. \A a \in Accounts, f \in Folders : box'[a][f] \subseteq box[a][f]
    BY <2>2
  <2>4. \A k \in Jobs : Careful(job'[k], box', fresh')
    <3> SUFFICES ASSUME NEW k \in Jobs PROVE Careful(job'[k], box', fresh)
      BY <1>0
    <3>1. CASE k = j
      BY <2>1, <3>1 DEF Careful
    <3>2. CASE k # j
      <4>1. job[k].src \in Accounts /\ job[k].cur \in Folders /\ Careful(job[k], box, fresh)
        BY DEF MailInv, TypeOK, Job
      <4>2. box'[job[k].src][job[k].cur] \subseteq box[job[k].src][job[k].cur]
        BY <2>3, <4>1
      <4> QED BY <2>1, <3>2, <4>1, <4>2 DEF Careful
    <3> QED BY <3>1, <3>2
  <2>5. (\A k \in Jobs : Careful(job[k], box, fresh))'
    BY <2>4 DEF Careful
  <2>6. (\A a \in Accounts, f \in Folders : box[a][f] \cap fresh = {})'
    <3>1. \A a \in Accounts, f \in Folders : box[a][f] \cap fresh = {}
      BY DEF MailInv
    <3> QED BY <1>0, <2>3, <3>1
  <2>7. ASSUME NEW m \in Messages \ fresh, m \notin slipped'
        PROVE  Safe(m)'
    <3>1. PICK a \in Accounts : SafeIn(a, m)
      BY <1>2, <2>7 DEF MailInv, Safe
    <3>2. a # src
      <4> SUFFICES ASSUME a = src PROVE FALSE
        OBVIOUS
      <4>1. Covered(r, box, m)
        BY <1>0, <3>1 DEF SafeIn, Listed
      <4>2. ~Unread(r, box, m) /\ r.failed = {}
        BY <1>0 DEF Careful, Unread
      <4>3. m \in Late(j)
        BY <4>1, <4>2 DEF Covered, LateIn, Late
      <4> QED BY <1>2, <2>7, <4>3
    <3>3. m \in UNION {box'[a][f] : f \in Folders}
      BY <2>2, <3>1, <3>2 DEF SafeIn, Mail
    <3>4. \A k \in Jobs : job'[k].src = a /\ Listed(job'[k]) => Covered(job'[k], box', m)
      <4> SUFFICES ASSUME NEW k \in Jobs, job'[k].src = a, Listed(job'[k])
                   PROVE  Covered(job'[k], box', m)
        OBVIOUS
      <4>1. k # j
        BY <2>1 DEF Listed
      <4>2. Covered(job[k], box, m) /\ job'[k] = job[k]
        BY <2>1, <3>1, <4>1 DEF SafeIn
      <4>3. \A f \in Folders : box[job[k].src][f] \subseteq box'[job[k].src][f]
        BY <2>2, <3>2, <4>2
      <4> QED BY <4>2, <4>3, StillCovered
    <3> QED BY <3>3, <3>4 DEF Safe, SafeIn, Mail, Listed, Covered, LateIn, Unread
  <2>8. (\A m \in Messages \ fresh : m \in slipped \/ Safe(m))'
    <3> SUFFICES ASSUME NEW m \in Messages \ fresh', m \notin slipped'
                 PROVE  Safe(m)'
      OBVIOUS
    <3> QED BY <1>0, <2>7
  <2> QED BY <2>5, <2>6, <2>8 DEF MailInv
<1> QED BY <1>1, <1>2 DEF DeleteSource

\* Mail that arrives is new to every job that has listed its account.
LEMMA ArriveInv ==
  ASSUME MailInv, TypeOK', NEW n \in Messages, NEW b \in Accounts, Arrive(n, b)
  PROVE  MailInv'
<1>0. /\ TypeOK /\ n \in fresh /\ fresh' = fresh \ {n} /\ slipped' = slipped /\ job' = job
      /\ "inbox" \in Folders
  BY DEF MailInv, Arrive, Folders
<1>1. /\ \A a \in Accounts, f \in Folders :
            \/ box'[a][f] = box[a][f]
            \/ a = b /\ f = "inbox" /\ box'[a][f] = box[a][f] \cup {n}
      /\ n \in box'[b]["inbox"]
  BY <1>0 DEF Arrive, TypeOK
<1>2. \A a \in Accounts, f \in Folders : box[a][f] \subseteq box'[a][f]
  BY <1>1
<1>3. \A k \in Jobs : Careful(job'[k], box', fresh')
  <2> SUFFICES ASSUME NEW k \in Jobs PROVE Careful(job[k], box', fresh')
    BY <1>0
  <2>1. job[k].src \in Accounts /\ job[k].cur \in Folders /\ Careful(job[k], box, fresh)
    BY DEF MailInv, TypeOK, Job
  <2>2. job[k].at # "idle" => n \notin job[k].seen[job[k].cur]
    BY <1>0, <2>1 DEF Careful
  <2>3. job[k].at # "idle" => box'[job[k].src][job[k].cur] \cap job[k].seen[job[k].cur]
                              \subseteq box[job[k].src][job[k].cur] \cap job[k].seen[job[k].cur]
    BY <1>1, <2>1, <2>2
  <2> QED BY <1>0, <2>1, <2>3 DEF Careful
<1>4. (\A k \in Jobs : Careful(job[k], box, fresh))'
  BY <1>3 DEF Careful
<1>5. (\A a \in Accounts, f \in Folders : box[a][f] \cap fresh = {})'
  <2>1. \A a \in Accounts, f \in Folders : box[a][f] \cap fresh = {}
    BY DEF MailInv
  <2> QED BY <1>0, <1>1, <2>1
<1>6. ASSUME NEW m \in Messages \ fresh', m \notin slipped
      PROVE  Safe(m)'
  <2>1. CASE m = n
    <3>1. \A k \in Jobs : job'[k].src = b /\ Listed(job'[k]) => Covered(job'[k], box', m)
      <4> SUFFICES ASSUME NEW k \in Jobs, job[k].src = b, Listed(job[k])
                   PROVE  Covered(job[k], box', m)
        BY <1>0
      <4>1. n \notin job[k].seen["inbox"]
        BY <1>0 DEF MailInv, Careful, Listed
      <4> QED BY <1>0, <1>1, <2>1, <4>1 DEF Covered, LateIn
    <3>2. m \in UNION {box'[b][f] : f \in Folders}
      BY <1>0, <1>1, <2>1
    <3> QED BY <3>1, <3>2 DEF Safe, SafeIn, Mail, Listed, Covered, LateIn, Unread
  <2>2. CASE m # n
    <3>1. PICK a \in Accounts : SafeIn(a, m)
      BY <1>0, <1>6, <2>2 DEF MailInv, Safe
    <3>2. \A k \in Jobs : job'[k].src = a /\ Listed(job'[k]) => Covered(job'[k], box', m)
      <4> SUFFICES ASSUME NEW k \in Jobs, job[k].src = a, Listed(job[k])
                   PROVE  Covered(job[k], box', m)
        BY <1>0
      <4>1. Covered(job[k], box, m)
        BY <3>1 DEF SafeIn
      <4> QED BY <1>2, <4>1, StillCovered
    <3>3. m \in UNION {box'[a][f] : f \in Folders}
      BY <1>2, <3>1 DEF SafeIn, Mail
    <3> QED BY <3>2, <3>3 DEF Safe, SafeIn, Mail, Listed, Covered, LateIn, Unread
  <2> QED BY <2>1, <2>2
<1>7. (\A m \in Messages \ fresh : m \in slipped \/ Safe(m))'
  <2> SUFFICES ASSUME NEW m \in Messages \ fresh', m \notin slipped' PROVE Safe(m)'
    OBVIOUS
  <2> QED BY <1>0, <1>6
<1> QED BY <1>4, <1>5, <1>7 DEF MailInv

\* A job that is started has listed nothing.
LEMMA StartInv ==
  ASSUME MailInv, TypeOK', NEW j \in Jobs, NEW a \in Accounts, NEW b \in Accounts,
         NEW del \in BOOLEAN, Start(j, a, b, del)
  PROVE  MailInv'
<1> DEFINE k == [NoJob(a, b) EXCEPT !.status = "queued", !.at = "begin", !.del = del]
<1>1. /\ k.at = "begin" /\ k.src = a /\ k.dst = b /\ \A f \in Folders : k.seen[f] = {}
  BY DEF NoJob, Empty
<1>2. job' = [job EXCEPT ![j] = k] /\ a # b /\ UNCHANGED <<box, fresh, slipped>>
  BY DEF Start, Set
<1> HIDE DEF k
<1>3. job'[j] = k /\ \A i \in Jobs \ {j} : job'[i] = job[i]
  BY <1>2 DEF MailInv, TypeOK
<1>4. Careful(k, box, fresh) /\ ~Listed(k)
  BY <1>1, <1>2 DEF Careful, Listed
<1> QED BY <1>2, <1>3, <1>4, OneJobInv

\* After a restart no job runs.
LEMMA CrashInv ==
  ASSUME MailInv, TypeOK', Crash
  PROVE  MailInv'
<1>1. UNCHANGED <<box, fresh, slipped>> /\ \A k \in Jobs : job'[k].at = "idle"
  BY DEF Crash, MailInv, TypeOK, Job
<1>2. (\A k \in Jobs : Careful(job[k], box, fresh))'
  BY <1>1 DEF Careful
<1>3. (\A m \in Messages \ fresh : m \in slipped \/ Safe(m))'
  <2> SUFFICES ASSUME NEW m \in Messages \ fresh, m \notin slipped PROVE Safe(m)'
    BY <1>1
  <2>1. PICK a \in Accounts : SafeIn(a, m)
    BY DEF MailInv, Safe
  <2>2. (m \in Mail(a))'
    BY <1>1, <2>1 DEF SafeIn, Mail
  <2> QED BY <1>1, <2>2 DEF Safe, SafeIn, Listed
<1> QED BY <1>1, <1>2, <1>3 DEF MailInv

\* No mail has arrived in the initial states.
LEMMA MailInit == Init => MailInv
<1> SUFFICES ASSUME Init PROVE MailInv
  OBVIOUS
<1>1. \A j \in Jobs : job[j].at = "idle"
  BY DEF Init, NoJob
<1>2. \A j \in Jobs : Careful(job[j], box, fresh)
  BY <1>1 DEF Careful
<1>3. \A a \in Accounts, f \in Folders : box[a][f] = {}
  BY DEF Init, Empty
<1>4. Messages \ fresh = {}
  BY DEF Init
<1> QED BY <1>2, <1>3, <1>4, TypeInit DEF MailInv

\* No step lets mail out of the jobs' sight.
LEMMA MailNext == MailInv /\ [Next]_vars => MailInv'
<1> SUFFICES ASSUME MailInv, [Next]_vars PROVE MailInv'
  OBVIOUS
<1>0. TypeOK'
  BY TypeNext DEF MailInv
<1>1. ASSUME NEW j \in Jobs, JobStep(j) PROVE MailInv'
  BY <1>0, <1>1, QuietSteps, CopyInv, DeleteInv DEF JobStep
<1>2. ASSUME NEW j \in Jobs, NEW a \in Accounts, NEW b \in Accounts, NEW del \in BOOLEAN,
             Start(j, a, b, del)
      PROVE  MailInv'
  BY <1>0, <1>2, StartInv
<1>3. ASSUME NEW m \in Messages, NEW a \in Accounts, Arrive(m, a) PROVE MailInv'
  BY <1>0, <1>3, ArriveInv
<1>4. CASE UNCHANGED vars
  <2>1. UNCHANGED <<box, alive, job, fresh, slipped>>
    BY <1>4 DEF vars
  <2>2. (\A j \in Jobs : Careful(job[j], box, fresh))'
    BY <2>1 DEF MailInv, Careful
  <2>3. \A m : Safe(m) => Safe(m)'
    BY <2>1 DEF Safe, SafeIn, Mail, Listed, Covered, LateIn, Unread
  <2>4. (\A m \in Messages \ fresh : m \in slipped \/ Safe(m))'
    BY <2>1, <2>3 DEF MailInv
  <2> QED BY <1>0, <2>1, <2>2, <2>4 DEF MailInv
<1> QED BY <1>0, <1>1, <1>2, <1>3, <1>4, CrashInv DEF Next

\* OnlyKnownGaps: mail that arrived is in some account unless it slipped through
\* one of the gaps the model names, whatever jobs copy, fill and delete the same
\* mailboxes (runMigrationJob, migrateAccountMail).
THEOREM GapsAreKnown == Spec => []OnlyKnownGaps
<1>1. MailInv => OnlyKnownGaps
  BY DEF MailInv, OnlyKnownGaps, Safe, SafeIn
<1>2. Spec => []MailInv
  BY MailInit, MailNext, PTL DEF Spec
<1> QED BY <1>1, <1>2, PTL
=============================================================================
