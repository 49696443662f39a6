---------------------------- MODULE MailMigration ----------------------------
(***************************************************************************)
(* Moving one mailbox's mail into another and then, if asked, deleting it   *)
(* (mailbox-migration.service.ts, migrateAccountMail of stalwart/client.ts). *)
(* A job runs unattended in the process that began it, folder by folder and  *)
(* page by page, while mail arrives and other jobs read, fill and delete the *)
(* same mailboxes.  The mail server answers a request with a result, with an *)
(* error among the results, which the client does not look for, or not at    *)
(* all, which fails the job.  A page is copied in one batch, and is some of  *)
(* the folder's mail not read yet: mail moving between pages is left out.    *)
(***************************************************************************)
EXTENDS Integers, FiniteSets

CONSTANTS Accounts, Messages, Jobs,
          PageSize,   \* QUERY_PAGE_SIZE, COPY_BATCH_SIZE
          MaxFaults   \* bound on requests that fail and restarts

ASSUME BoundsAssumption == /\ PageSize \in Nat \ {0} /\ MaxFaults \in Nat
                           /\ IsFiniteSet(Messages)

VARIABLES box,      \* what each account's folders hold
          alive,    \* the accounts there are
          job,      \* the MailboxMigrationJob documents and what runs them
          fresh,    \* messages that have not arrived yet
          faults,
          slipped,  \* messages a job passed over without counting (history)
          cut       \* jobs a restart cut off (history)

vars == <<box, alive, job, fresh, faults, slipped, cut>>

\* A mailbox's own folder, and the ones a migration makes in it.
Folders == {"inbox", "migrated"}
Empty == [f \in Folders |-> {}]
\* todo: listed folders with mail and a destination; read: what the position
\* has passed; seen: the source as it was when it was listed (history).
NoJob(a, b) == [status |-> "none", at |-> "idle", src |-> a, dst |-> b, del |-> FALSE,
                todo |-> {}, cur |-> "inbox", read |-> {}, page |-> {},
                failed |-> {}, seen |-> Empty]
Job == [status : {"none", "queued", "running", "completed", "failed"},
        at : {"idle", "begin", "list", "create", "folder", "query", "copy", "verify", "delete"},
        src : Accounts, dst : Accounts, del : BOOLEAN,
        todo : SUBSET Folders, cur : Folders, read : SUBSET Messages,
        page : SUBSET Messages, failed : SUBSET Messages, seen : [Folders -> SUBSET Messages]]

\* An account that is gone holds no mail.
TypeOK ==
    /\ box \in [Accounts -> [Folders -> SUBSET Messages]]
    /\ alive \subseteq Accounts
    /\ \A a \in Accounts \ alive : box[a] = Empty
    /\ job \in [Jobs -> Job]
    /\ fresh \subseteq Messages /\ slipped \subseteq Messages /\ cut \subseteq Jobs
    /\ faults \in 0..MaxFaults

Init ==
    /\ box = [a \in Accounts |-> Empty] /\ alive = Accounts
    /\ \E a \in Accounts : job = [j \in Jobs |-> NoJob(a, a)]
    /\ fresh = Messages /\ faults = 0 /\ slipped = {} /\ cut = {}

-----------------------------------------------------------------------------
(* Helpers. *)

Mail(a) == UNION {box[a][f] : f \in Folders}
At(j, stage) == job[j].at = stage
Set(j, rec) == job' = [job EXCEPT ![j] = rec]
Goto(j, stage) == Set(j, [job[j] EXCEPT !.at = stage])
\* The job is over.  The catch: whatever throws leaves the source alone.
Ends(j, status) ==
    Set(j, [NoJob(job[j].src, job[j].dst) EXCEPT !.status = status, !.del = job[j].del])
Fails(j) == Ends(j, "failed")
Fault == faults < MaxFaults /\ faults' = faults + 1
NoFault == UNCHANGED faults
Same == UNCHANGED <<box, alive, fresh, cut>>

-----------------------------------------------------------------------------
(* startMailboxMigration, runMigrationJob *)

Start(j, a, b, del) ==
    /\ job[j].status = "none" /\ a # b /\ {a, b} \subseteq alive
    /\ Set(j, [NoJob(a, b) EXCEPT !.status = "queued", !.at = "begin", !.del = del])
    /\ UNCHANGED <<box, alive, fresh, faults, slipped, cut>>

Run(j) ==
    /\ At(j, "begin")
    /\ Set(j, [job[j] EXCEPT !.status = "running", !.at = "list"])
    /\ UNCHANGED <<faults, slipped>> /\ Same

\* A request that gets no answer, its retries included, at any stage that asks.
NoAnswer(j) ==
    /\ job[j].at \in {"list", "create", "query", "copy"}
    /\ Fault /\ Fails(j)
    /\ UNCHANGED slipped /\ Same

\* Mailbox/get.  An account that is gone, or an error, has no folders.
List(j) ==
    LET src == job[j].src
    IN  /\ At(j, "list")
        /\ \/ /\ Set(j, [job[j] EXCEPT !.at = "create", !.seen = box[src],
                            !.todo = {f \in Folders : box[src][f] # {}}])
              /\ NoFault /\ UNCHANGED slipped
           \/ /\ Fault /\ Goto(j, "create") /\ slipped' = slipped \cup Mail(src)
        /\ Same

\* Mailbox/set.  A folder that could not be made is passed over.
Create(j) ==
    /\ At(j, "create")
    /\ \/ /\ job[j].dst \in alive
          /\ \E made \in SUBSET job[j].todo :
                /\ IF made = job[j].todo THEN NoFault ELSE Fault
                /\ Set(j, [job[j] EXCEPT !.at = "folder", !.todo = made])
                /\ slipped' = slipped \cup
                      UNION {box[job[j].src][f] : f \in job[j].todo \ made}
       \/ job[j].dst \notin alive /\ Fails(j) /\ NoFault /\ UNCHANGED slipped
    /\ Same

NextFolder(j) ==
    /\ At(j, "folder")
    /\ IF job[j].todo = {} THEN Goto(j, "verify")
       ELSE \E f \in job[j].todo :
              Set(j, [job[j] EXCEPT !.at = "query", !.cur = f, !.todo = @ \ {f}, !.read = {}])
    /\ UNCHANGED <<faults, slipped>> /\ Same

\* Email/query at the position reached: an empty page, or an error, ends the folder.
Query(j) ==
    LET rest == box[job[j].src][job[j].cur] \ job[j].read
    IN  /\ At(j, "query")
        /\ \/ /\ rest # {} /\ NoFault /\ UNCHANGED slipped
              /\ \E page \in SUBSET rest :
                    /\ Cardinality(page) = IF Cardinality(rest) < PageSize
                                           THEN Cardinality(rest) ELSE PageSize
                    /\ Set(j, [job[j] EXCEPT !.at = "copy", !.page = page])
           \/ rest = {} /\ NoFault /\ Goto(j, "folder") /\ UNCHANGED slipped
           \/ rest # {} /\ Fault /\ Goto(j, "folder") /\ slipped' = slipped \cup rest
        /\ Same

Mut_SamePosition(j) == job[j].read

\* position += ids.length
Passed(j) == job[j].read \cup job[j].page

Mut_AnyAccount(j) == TRUE

\* Both accounts are there to copy from and to.
Reachable(j) == {job[j].src, job[j].dst} \subseteq alive

\* The page is behind job j.  A copy is a new message: to a job that listed the
\* folder before, it is late mail.
Advance(j, created, failed) ==
    LET more == IF Cardinality(job[j].page) < PageSize THEN "folder" ELSE "query"
    IN  job' = [k \in Jobs |->
                   IF k = j
                   THEN [job[j] EXCEPT !.at = more, !.read = Passed(j), !.page = {},
                                       !.failed = @ \cup failed]
                   ELSE [job[k] EXCEPT !.seen["migrated"] =
                            IF job[k].src = job[j].dst THEN @ \ created ELSE @]]

\* Email/copy.  What is not created is counted; of an error nothing is.
Copy(j) ==
    LET page == job[j].page
    IN  /\ At(j, "copy")
        /\ \/ /\ Reachable(j)
              /\ \E created \in SUBSET page :
                    /\ IF created = page THEN NoFault ELSE Fault
                    /\ box' = [box EXCEPT ![job[j].dst]["migrated"] = @ \cup created]
                    /\ Advance(j, created, page \ created)
              /\ UNCHANGED slipped
           \/ /\ IF Reachable(j) THEN Fault ELSE NoFault
              /\ Advance(j, {}, {}) /\ slipped' = slipped \cup page /\ UNCHANGED box
        /\ UNCHANGED <<alive, fresh, cut>>

Mut_Unverified(j) == TRUE

\* failedCount
AllCopied(j) == job[j].failed = {}

Verify(j) ==
    /\ At(j, "verify")
    /\ IF ~AllCopied(j) THEN Fails(j)
       ELSE IF job[j].del THEN Goto(j, "delete")
       ELSE Ends(j, "completed")
    /\ UNCHANGED <<faults, slipped>> /\ Same

Late(j) == UNION {box[job[j].src][f] \ job[j].seen[f] : f \in Folders}

\* deleteMailbox: what came after the listing goes with the account.  A refusal
\* of the mail server is ignored and the account stays there.
DeleteSource(j) ==
    LET src == job[j].src
    IN  /\ At(j, "delete")
        /\ IF src \notin alive THEN Fails(j) /\ NoFault /\ UNCHANGED <<box, alive, slipped>>
           ELSE /\ Ends(j, "completed")
                /\ \/ /\ NoFault
                      /\ box' = [box EXCEPT ![src] = Empty] /\ alive' = alive \ {src}
                      /\ slipped' = slipped \cup Late(j)
                   \/ Fault /\ UNCHANGED <<box, alive, slipped>>
        /\ UNCHANGED <<fresh, cut>>

-----------------------------------------------------------------------------
(* Around the jobs. *)

Arrive(m, a) ==
    /\ m \in fresh /\ a \in alive
    /\ fresh' = fresh \ {m}
    /\ box' = [box EXCEPT ![a]["inbox"] = @ \cup {m}]
    /\ UNCHANGED <<alive, job, faults, slipped, cut>>

\* Nothing takes up a job whose process is gone.
Crash ==
    /\ Fault
    /\ cut' = cut \cup {j \in Jobs : job[j].at # "idle"}
    /\ job' = [j \in Jobs |-> [job[j] EXCEPT !.at = "idle"]]
    /\ UNCHANGED <<box, alive, fresh, slipped>>

JobStep(j) ==
    \/ Run(j) \/ NoAnswer(j) \/ List(j) \/ Create(j) \/ NextFolder(j) \/ Query(j)
    \/ Copy(j) \/ Verify(j) \/ DeleteSource(j)

Next ==
    \/ \E j \in Jobs : JobStep(j)
    \/ \E j \in Jobs, a, b \in Accounts, del \in BOOLEAN : Start(j, a, b, del)
    \/ \E m \in Messages, a \in Accounts : Arrive(m, a)
    \/ Crash

Spec == Init /\ [][Next]_vars

\* A job that runs goes on: every await of it ends, in an answer or a timeout.
FairSpec == Spec /\ \A j \in Jobs : WF_vars(JobStep(j))

-----------------------------------------------------------------------------
(* Properties. *)

\* Mail that arrived is still in some account, unless it slipped through one of
\* the gaps below: a folder that could not be made, a request answered with an
\* error, mail that came, or was copied there by another job, after the source
\* was listed.  A message the server refused keeps its source (runMigrationJob).
OnlyKnownGaps ==
    \A m \in Messages \ fresh : (\E a \in Accounts : m \in Mail(a)) \/ m \in slipped

\* A job ends, completed or failed, unless its process does: the paging comes to
\* an end, whatever arrives or is deleted meanwhile (migrateAccountMail).
JobEnds ==
    \A j \in Jobs :
        job[j].status \in {"queued", "running"} ~>
            (job[j].status \in {"completed", "failed"} \/ j \in cut)
=============================================================================
