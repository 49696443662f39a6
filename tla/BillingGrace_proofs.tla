------------------------ MODULE BillingGrace_proofs ------------------------
(***************************************************************************)
(* Proofs about BillingGrace, for any number of domains, invoices, events, *)
(* failures and crashes, any grace length, and any overlap and order of    *)
(* delivery: IInv is inductive, so no domain is suspended before its grace *)
(* is over and no row's deadline drifts from its invoice's.  While nothing *)
(* overlaps, an ended billing is never revived; where events also come in  *)
(* order and are handled once, paid tenants are served and unpaid ones     *)
(* pursued.                                                                *)
(***************************************************************************)
EXTENDS BillingGrace, SequenceTheorems, TLAPS

\* What an event list may hold.
TrueEvents(events, F) ==
    \A k \in 1..Len(events) : events[k].kind = "failed" => events[k].inv \in F

(* Appending events keeps the list typed, within its bound and true, and    *)
(* disturbs no earlier event (Emit).                                        *)
LEMMA EmitKeeps ==
    ASSUME TypeOK, EventsAreTrue, NEW events \in Seq(Event), Emit(events),
           NEW F, failed \subseteq F, TrueEvents(events, F)
    PROVE  /\ emitted' \in Seq(Event)
           /\ owed' \in SUBSET Nat
           /\ TrueEvents(emitted', F)
           /\ Len(emitted') <= MaxEvents
           /\ owed' \subseteq 1..Len(emitted')
           /\ Len(emitted) <= Len(emitted')
<1>1. /\ emitted \in Seq(Event)
      /\ emitted' = emitted \o events
      /\ Len(emitted) + Len(events) <= MaxEvents
  BY DEF TypeOK, Emit
<1>2. /\ Len(emitted') = Len(emitted) + Len(events)
      /\ \A k \in 1..(Len(emitted) + Len(events)) :
            emitted'[k] = IF k <= Len(emitted) THEN emitted[k]
                          ELSE events[k - Len(emitted)]
  BY <1>1, ConcatProperties
<1>3. Len(emitted) \in Nat /\ Len(events) \in Nat
  BY <1>1, LenProperties
<1>4. emitted' \in Seq(Event)
  BY <1>1, ConcatProperties
<1>5. TrueEvents(emitted', F)
  <2> SUFFICES ASSUME NEW k \in 1..Len(emitted'), emitted'[k].kind = "failed"
               PROVE  emitted'[k].inv \in F
    BY DEF TrueEvents
  <2>1. CASE k <= Len(emitted)
    <3>1. k \in 1..Len(emitted) /\ emitted'[k] = emitted[k]
      BY <1>2, <1>3, <2>1
    <3>2. QED
      BY <3>1 DEF EventsAreTrue
  <2>2. CASE k > Len(emitted)
    <3>1. k - Len(emitted) \in 1..Len(events) /\ emitted'[k] = events[k - Len(emitted)]
      BY <1>2, <1>3, <2>2
    <3>2. QED
      BY <3>1 DEF TrueEvents
  <2>3. QED
    BY <1>3, <2>1, <2>2
<1>6. owed' = owed \cup (Len(emitted) + 1)..(Len(emitted) + Len(events))
  BY DEF Emit
<1>7. owed' \subseteq 1..Len(emitted')
  <2> SUFFICES ASSUME NEW e \in owed' PROVE e \in 1..Len(emitted')
    OBVIOUS
  <2>1. owed \subseteq 1..Len(emitted)
    BY DEF EventsAreTrue
  <2>2. e \in 1..Len(emitted) \/ e \in (Len(emitted) + 1)..(Len(emitted) + Len(events))
    BY <1>6, <2>1
  <2>3. QED
    BY <1>2, <1>3, <2>2
<1>8. owed' \in SUBSET Nat
  BY <1>2, <1>3, <1>7
<1>9. QED
  BY <1>1, <1>2, <1>3, <1>4, <1>5, <1>7, <1>8

(* The facts about Stripe that deadlines and suspensions rest on are never  *)
(* taken back.                                                              *)
Grows == failed \subseteq failed' /\ \A j \in failed : created'[j] = created[j]

LEMMA DeadlineStays ==
    ASSUME Grows, NEW r, HasDeadlineOf(r)
    PROVE  (HasDeadlineOf(r))'
BY DEF Grows, HasDeadlineOf

LEMMA RanOutStays ==
    ASSUME TypeOK, GraceAssumption, Grows, day' \in Nat, day <= day', GraceRanOut
    PROVE  GraceRanOut'
<1>1. PICK i \in failed : created[i] + GraceDays < day
  BY DEF GraceRanOut
<1>2. i \in failed' /\ created'[i] = created[i]
  BY DEF Grows
<1>3. created[i] \in Int /\ day \in Nat /\ GraceDays \in Nat
  BY GraceAssumption DEF TypeOK
<1>4. created'[i] + GraceDays < day'
  BY <1>1, <1>2, <1>3
<1>5. QED
  BY <1>2, <1>4 DEF GraceRanOut

(* What Stripe's part of a step keeps: a payment attempt, or an event alone. *)
StripeKept ==
    /\ invoice' \in [Invoices -> {"none", "open", "paid"}]
    /\ created' \in [Invoices -> Int]
    /\ failed' \in SUBSET Invoices
    /\ stripe' \in SubStatuses
    /\ emitted' \in Seq(Event)
    /\ owed' \in SUBSET Nat
    /\ EventsAreTrue'
    /\ Grows
    /\ UNCHANGED <<recorded, handler, failures, crashes>>

(* A payment attempt on an invoice that is new, or whose date stays.        *)
LEMMA AttemptKeeps ==
    ASSUME TypeOK, EventsAreTrue, NEW i \in Invoices, Collected(i) \/ Declined(i),
           created' \in [Invoices -> Int],
           invoice[i] = "none" \/ created' = created,
           \A j \in Invoices \ {i} : created'[j] = created[j]
    PROVE  StripeKept
<1> DEFINE Type(F) == /\ emitted' \in Seq(Event)
                      /\ owed' \in SUBSET Nat
                      /\ TrueEvents(emitted', F)
                      /\ Len(emitted') <= MaxEvents
                      /\ owed' \subseteq 1..Len(emitted')
                      /\ Len(emitted) <= Len(emitted')
<1>1. failed' \in {failed, failed \cup {i}} /\ Type(failed')
  <2>1. CASE Collected(i)
    <3>1. <<Succeeded(i), Updated("active")>> \in Seq(Event)
      BY DEF Succeeded, Updated, Event, SubStatuses
    <3>2. TrueEvents(<<Succeeded(i), Updated("active")>>, failed)
      BY DEF TrueEvents, Succeeded, Updated
    <3>3. Emit(<<Succeeded(i), Updated("active")>>) /\ failed' = failed
      BY <2>1 DEF Collected
    <3>4. QED
      BY <3>1, <3>2, <3>3, EmitKeeps
  <2>2. CASE Declined(i)
    <3>1. <<Failed(i)>> \in Seq(Event) /\ <<Failed(i), Updated("past_due")>> \in Seq(Event)
      BY DEF Failed, Updated, Event, SubStatuses
    <3>2. /\ TrueEvents(<<Failed(i)>>, failed \cup {i})
          /\ TrueEvents(<<Failed(i), Updated("past_due")>>, failed \cup {i})
      BY DEF TrueEvents, Failed, Updated
    <3>3. /\ Emit(<<Failed(i)>>) \/ Emit(<<Failed(i), Updated("past_due")>>)
          /\ failed' = failed \cup {i}
      BY <2>2 DEF Declined
    <3>4. QED
      BY <3>1, <3>2, <3>3, EmitKeeps
  <2>3. QED
    BY <2>1, <2>2
<1>2. /\ invoice' \in [Invoices -> {"none", "open", "paid"}]
      /\ invoice'[i] # "none"
      /\ \A j \in Invoices \ {i} : invoice'[j] = invoice[j]
      /\ stripe' \in SubStatuses
      /\ UNCHANGED <<recorded, handler, failures, crashes>>
  BY DEF Collected, Declined, Emit, TypeOK, SubStatuses
<1>3. Grows
  BY <1>1 DEF Grows, EventsAreTrue, TypeOK
<1>4. failed' \in SUBSET Invoices /\ \A j \in failed' : invoice'[j] # "none"
  BY <1>1, <1>2 DEF TypeOK, EventsAreTrue
<1>5. \A e \in EventIds : handler'[e].at # "idle" => e \in 1..Len(emitted')
  <2>1. Len(emitted) \in Nat /\ Len(emitted') \in Nat
    BY <1>1, LenProperties DEF TypeOK
  <2>2. QED
    BY <1>1, <1>2, <2>1 DEF EventsAreTrue, EventIds
<1>6. EventsAreTrue'
  BY <1>1, <1>4, <1>5 DEF EventsAreTrue, TrueEvents
<1>7. QED
  BY <1>1, <1>2, <1>3, <1>4, <1>6 DEF StripeKept

LEMMA OrderStays ==
    ASSUME Grows, ended \subseteq ended', NEW h, HandlerInOrder(h)
    PROVE  (HandlerInOrder(h))'
BY DeadlineStays DEF HandlerInOrder, Grows, HasDeadlineOf

LEMMA DeadlinesStay ==
    ASSUME Grows, DeadlineIsTheInvoices, row' = row
    PROVE  DeadlineIsTheInvoices'
BY DEF DeadlineIsTheInvoices, HasDeadlineOf, Grows

(* A step of Stripe's, with or without the sweep's next stage.              *)
LEMMA StripeStep ==
    ASSUME IInv, StripeKept, UNCHANGED <<rowVars, domainVars, leaving, day>>,
           sweep' \in SweepState,
           sweep'.at \notin {"suspend", "mailOff", "save"} \/ sweep' = sweep,
           sweep'.at \in {"pay", "settle"} => sweep'.inv \in Invoices
    PROVE  IInv'
<1>1. TypeOK'
  BY DEF IInv, TypeOK, StripeKept, rowVars, domainVars
<1>2. EventsAreTrue' /\ Grows
  BY DEF StripeKept
<1>3. DeadlineIsTheInvoices'
  BY <1>2, DeadlinesStay DEF IInv, rowVars
<1>4. HandlersInOrder'
  <2> SUFFICES ASSUME NEW e \in EventIds PROVE HandlerInOrder(handler[e])'
    BY DEF HandlersInOrder
  <2>1. PICK h : h = handler[e]
    OBVIOUS
  <2>2. HandlerInOrder(h)
    BY <2>1 DEF IInv, HandlersInOrder
  <2>3. (HandlerInOrder(h))' /\ handler'[e] = h
    BY <1>2, <2>1, <2>2, OrderStays DEF rowVars, StripeKept
  <2>4. QED
    BY <2>3 DEF HandlerInOrder, HasDeadlineOf
<1>5. GraceRanOut => GraceRanOut'
  BY <1>2, RanOutStays, GraceAssumption DEF IInv, TypeOK
<1>6. SweepInOrder'
  BY <1>5 DEF IInv, SweepInOrder
<1>7. LeavingInOrder'
  BY DEF IInv, LeavingInOrder, rowVars
<1>8. SuspendedAfterGrace'
  BY <1>5 DEF IInv, SuspendedAfterGrace, rowVars, domainVars
<1>9. QED
  BY <1>1, <1>2, <1>3, <1>4, <1>6, <1>7, <1>8 DEF IInv

(* A step of one event's handler, or its begin or end.                      *)
LEMMA HandlerStep ==
    ASSUME IInv, NEW e \in EventIds, e \in 1..Len(emitted),
           UNCHANGED <<stripeVars, crashes, sweep, leaving, day>>,
           failures' \in Nat, recorded' \in SUBSET Nat, owed' \subseteq owed,
           NEW h \in HandlerState, (HandlerInOrder(h))',
           handler' = [handler EXCEPT ![e] = h],
           ended \subseteq ended', ended' \subseteq Domains,
           row' \in [Domains -> Row], DeadlineIsTheInvoices',
           domain' \in [Domains -> {"active", "suspended"}],
           mail' \in [Domains -> BOOLEAN], SuspendedAfterGrace'
    PROVE  IInv'
<1>1. TypeOK'
  BY DEF IInv, TypeOK, stripeVars
<1>2. EventsAreTrue'
  BY DEF IInv, EventsAreTrue, TypeOK, stripeVars
<1>3. Grows
  BY DEF Grows, stripeVars
<1>4. HandlersInOrder'
  <2> SUFFICES ASSUME NEW x \in EventIds PROVE HandlerInOrder(handler[x])'
    BY DEF HandlersInOrder
  <2>1. PICK g : g = handler[x]
    OBVIOUS
  <2>2. HandlerInOrder(g)
    BY <2>1 DEF IInv, HandlersInOrder
  <2>3. (HandlerInOrder(g))'
    BY <1>3, <2>2, OrderStays
  <2>4. handler'[x] = g \/ handler'[x] = h
    BY <2>1 DEF IInv, TypeOK
  <2>5. QED
    BY <2>3, <2>4 DEF HandlerInOrder, HasDeadlineOf
<1>5. SweepInOrder' /\ LeavingInOrder'
  BY DEF IInv, SweepInOrder, LeavingInOrder, GraceRanOut, stripeVars
<1>6. QED
  BY <1>1, <1>2, <1>4, <1>5 DEF IInv

(* A step of the sweep that does not reach Stripe.                          *)
LEMMA SweepStep ==
    ASSUME IInv, UNCHANGED <<ended, stripeVars, hookVars, leaving, day>>,
           sweep' \in SweepState, SweepInOrder',
           row' \in [Domains -> Row], DeadlineIsTheInvoices',
           domain' \in [Domains -> {"active", "suspended"}],
           mail' \in [Domains -> BOOLEAN], SuspendedAfterGrace'
    PROVE  IInv'
<1>1. TypeOK'
  BY DEF IInv, TypeOK, stripeVars, hookVars
<1>2. EventsAreTrue' /\ HandlersInOrder' /\ LeavingInOrder'
  BY DEF IInv, EventsAreTrue, HandlersInOrder, HandlerInOrder, HasDeadlineOf,
         LeavingInOrder, stripeVars, hookVars
<1>3. QED
  BY <1>1, <1>2 DEF IInv

(* Every step of a handler (Handle).                                        *)
LEMMA HandleKeeps ==
    ASSUME IInv, NEW e \in EventIds, Handle(e)
    PROVE  IInv'
<1>0. e \in 1..Len(emitted) /\ handler[e] \in HandlerState /\ HandlerInOrder(handler[e])
  <2>1. handler[e].at # "idle"
    BY DEF Handle, Load, OpenGrace, WriteStatus, CloseRows, SuspendMail, CheckDomain,
           ActivateDomain, ActivateMail, SaveRow, SuspendDomain, At
  <2>2. QED
    BY <2>1 DEF IInv, EventsAreTrue, HandlersInOrder, TypeOK
<1>1. Idle \in HandlerState /\ HandlerInOrder(Idle)'
  BY DEF Idle, HandlerState, HandlerStages, HandlerInOrder
<1> DEFINE Frame == UNCHANGED <<stripeVars, recorded, failures, crashes, sweep, leaving, day>>
<1>2. ASSUME Frame, NEW h \in HandlerState, (HandlerInOrder(h))',
             handler' = [handler EXCEPT ![e] = h], owed' \subseteq owed,
             ended \subseteq ended', ended' \subseteq Domains,
             row' \in [Domains -> Row], DeadlineIsTheInvoices',
             domain' \in [Domains -> {"active", "suspended"}],
             mail' \in [Domains -> BOOLEAN], SuspendedAfterGrace'
      PROVE  IInv'
  BY <1>0, <1>2, HandlerStep DEF IInv, TypeOK
<1>3. ASSUME Frame, UNCHANGED <<row, ended>>
      PROVE  DeadlineIsTheInvoices' /\ row' \in [Domains -> Row]
  BY <1>3 DEF IInv, TypeOK, DeadlineIsTheInvoices, HasDeadlineOf, stripeVars
<1>4. ASSUME Frame, UNCHANGED domain, ended \subseteq ended'
      PROVE  SuspendedAfterGrace'
  BY <1>4 DEF IInv, SuspendedAfterGrace, GraceRanOut, stripeVars
<1>5. \* Going on to the next domain leaves an idle handler or a smaller one.
      ASSUME NEW stage \in {"save", "suspend"}, NextDomain(e, stage), Frame, UNCHANGED ended,
             handler[e].at \in (IF stage = "save" THEN {"check", "activate", "mailOn"}
                                ELSE {"mailOff"})
      PROVE  /\ owed' \subseteq owed
             /\ \E h \in HandlerState : /\ handler' = [handler EXCEPT ![e] = h]
                                        /\ (HandlerInOrder(h))'
  <2>1. CASE Finish(e)
    BY <1>1, <2>1 DEF Finish
  <2>2. CASE ~Finish(e)
    <3>1. PICK h : /\ h = [handler[e] EXCEPT !.at = stage,
                             !.todo = handler[e].todo \ {handler[e].cur}, !.cur = None]
                   /\ handler' = [handler EXCEPT ![e] = h] /\ UNCHANGED owed
      BY <1>5, <2>2 DEF NextDomain, Step
    <3>2. /\ h.at = stage /\ h.cur = None /\ h.seen = handler[e].seen
          /\ h.todo \subseteq handler[e].todo /\ h \in HandlerState
      BY <1>0, <3>1 DEF HandlerState, HandlerStages
    <3>3. HandlerInOrder(h)
      BY <1>0, <1>5, <3>2 DEF HandlerInOrder
    <3>4. (HandlerInOrder(h))'
      BY <1>5, <3>3, OrderStays DEF Grows, stripeVars
    <3>5. QED
      BY <3>1, <3>2, <3>4
  <2>3. QED
    BY <2>1, <2>2
<1>6. CASE Load(e)
  <2>1. Frame /\ UNCHANGED <<row, ended, domain, mail>> /\ owed' \subseteq owed
    BY <1>6 DEF Load, HandlerFrame, rowVars, domainVars, Finish, Step
  <2>2. \E h \in HandlerState : /\ handler' = [handler EXCEPT ![e] = h]
                                /\ (HandlerInOrder(h))'
    <3>1. CASE Live = {}
      BY <1>1, <1>6, <3>1 DEF Load, Finish
    <3>2. CASE Live # {}
      <4>1. PICK h : /\ h = [at |-> IF Kind(e) \in {"succeeded", "zero"} THEN "save" ELSE "write",
                             todo |-> IF Kind(e) = "failed" THEN Opening ELSE Live,
                             cur |-> None,
                             seen |-> [d \in Domains |-> IF d \in Live THEN row[d] ELSE None]]
                     /\ handler' = [handler EXCEPT ![e] = h]
        BY <1>6, <3>2 DEF Load, Step
      <4>2. row \in [Domains -> Row] /\ Live \subseteq Domains /\ Opening \subseteq Live
        BY DEF IInv, TypeOK, Live, Opening
      <4>3. h \in HandlerState
        BY <4>1, <4>2 DEF HandlerState, HandlerStages
      <4>4. HandlerInOrder(h)
        BY <4>1, <4>2 DEF HandlerInOrder, IInv, DeadlineIsTheInvoices
      <4>5. QED
        BY <2>1, <4>1, <4>3, <4>4, OrderStays DEF Grows, stripeVars
    <3>3. QED
      BY <3>1, <3>2
  <2>3. QED
    BY <1>2, <1>3, <1>4, <2>1, <2>2 DEF IInv, TypeOK
<1>7. CASE OpenGrace(e)
  <2> DEFINE i == emitted[e].inv
  <2>1. /\ Frame /\ UNCHANGED <<ended, domain, mail>> /\ owed' \subseteq owed
        /\ handler' = [handler EXCEPT ![e] = Idle]
    BY <1>7 DEF OpenGrace, HandlerFrame, domainVars, Finish
  <2>2. i \in failed /\ Deadline(i) \in Int /\ created[i] \in Int /\ i # None /\ Deadline(i) # None
    <3>1. i \in failed
      BY <1>0, <1>7 DEF OpenGrace, Kind, IInv, EventsAreTrue
    <3>2. i \in Invoices /\ created[i] \in Int
      BY <3>1 DEF IInv, TypeOK
    <3>3. Deadline(i) \in Int
      BY <3>2, GraceAssumption DEF Deadline
    <3>4. QED
      BY <3>1, <3>2, <3>3, NoneAssumption
  <2>3. \A d \in Domains :
          row'[d] = IF d \in handler[e].todo
                    THEN [row[d] EXCEPT !.status = "grace", !.graceEnds = Deadline(i),
                                        !.failedInvoice = i]
                    ELSE row[d]
    BY <1>7 DEF OpenGrace
  <2>4. \A d \in Domains : row'[d] \in Row
    <3>1. i \in Invoices
      BY <2>2 DEF IInv, TypeOK
    <3>2. QED
      <4> TAKE d \in Domains
      <4>1. row[d] \in Row
        BY DEF IInv, TypeOK
      <4> HIDE DEF i
      <4>2. [row[d] EXCEPT !.status = "grace", !.graceEnds = Deadline(i), !.failedInvoice = i]
              \in Row
        BY <2>2, <3>1, <4>1 DEF Row, RowStatuses
      <4>3. QED
        BY <2>3, <4>1, <4>2
  <2>5. row' \in [Domains -> Row]
    BY <1>7, <2>4 DEF OpenGrace
  <2>6. DeadlineIsTheInvoices'
    <3> SUFFICES ASSUME NEW d \in Domains PROVE HasDeadlineOf(row[d])'
      BY DEF DeadlineIsTheInvoices
    <3>1. CASE d \in handler[e].todo
      <4>1. row'[d].graceEnds = Deadline(i) /\ row'[d].failedInvoice = i
        BY <2>3, <3>1 DEF IInv, TypeOK, Row
      <4>2. QED
        BY <2>1, <2>2, <4>1 DEF HasDeadlineOf, Deadline, stripeVars
    <3>2. CASE d \notin handler[e].todo
      BY <2>1, <2>3, <3>2 DEF IInv, DeadlineIsTheInvoices, HasDeadlineOf, stripeVars
    <3>3. QED
      BY <3>1, <3>2
  <2>7. QED
    BY <1>1, <1>2, <1>4, <2>1, <2>5, <2>6 DEF IInv, TypeOK
<1>8. CASE WriteStatus(e)
  <2>1. /\ Frame /\ UNCHANGED <<ended, domain, mail>> /\ owed' \subseteq owed
        /\ handler' = [handler EXCEPT ![e] = Idle]
    BY <1>8 DEF WriteStatus, HandlerFrame, domainVars, Finish
  <2>2. emitted[e].status \in RowStatuses
    <3>1. emitted[e] \in Event
      BY <1>0, ElementOfSeq DEF IInv, TypeOK
    <3>2. QED
      BY <3>1 DEF Event, SubStatuses, RowStatuses
  <2>3. \A d \in Domains : /\ row'[d] \in Row
                           /\ row'[d].graceEnds = row[d].graceEnds
                           /\ row'[d].failedInvoice = row[d].failedInvoice
    BY <1>8, <2>2 DEF WriteStatus, IInv, TypeOK, Row
  <2>4. row' \in [Domains -> Row]
    BY <1>8, <2>3 DEF WriteStatus
  <2>5. DeadlineIsTheInvoices'
    BY <2>1, <2>3 DEF IInv, DeadlineIsTheInvoices, HasDeadlineOf, stripeVars
  <2>6. QED
    BY <1>1, <1>2, <1>4, <2>1, <2>4, <2>5 DEF IInv, TypeOK
<1>9. CASE CloseRows(e)
  <2>1. /\ Frame /\ UNCHANGED <<domain, mail, owed>> /\ ended' = ended \cup handler[e].todo
    BY <1>9 DEF CloseRows, HandlerFrame, domainVars, Step
  <2>2. PICK h : /\ h = [handler[e] EXCEPT !.at = "suspend"]
                 /\ handler' = [handler EXCEPT ![e] = h]
    BY <1>9 DEF CloseRows, Step
  <2>3. h \in HandlerState /\ (HandlerInOrder(h))'
    BY <1>0, <2>1, <2>2 DEF HandlerState, HandlerStages, HandlerInOrder
  <2>4. \A d \in Domains : /\ row'[d] \in Row
                           /\ row'[d].graceEnds = row[d].graceEnds
                           /\ row'[d].failedInvoice = row[d].failedInvoice
    BY <1>9 DEF CloseRows, IInv, TypeOK, Row, RowStatuses
  <2>5. row' \in [Domains -> Row]
    BY <1>9, <2>4 DEF CloseRows
  <2>6. DeadlineIsTheInvoices'
    BY <2>1, <2>4 DEF IInv, DeadlineIsTheInvoices, HasDeadlineOf, stripeVars
  <2>7. ended' \subseteq Domains
    BY <1>0, <2>1 DEF HandlerState, IInv, TypeOK
  <2>8. QED
    BY <1>2, <1>4, <2>1, <2>2, <2>3, <2>5, <2>6, <2>7 DEF IInv, TypeOK
<1>10. ASSUME NEW d \in Domains, SuspendDomain(e, d)
       PROVE  IInv'
  <2>1. /\ Frame /\ UNCHANGED <<row, ended, mail, owed>> /\ At(e, "suspend")
        /\ domain' = [domain EXCEPT ![d] = "suspended"] /\ d \in handler[e].todo
    BY <1>10 DEF SuspendDomain, HandlerFrame, rowVars, Step
  <2>2. PICK h : /\ h = [handler[e] EXCEPT !.at = "mailOff", !.cur = d]
                 /\ handler' = [handler EXCEPT ![e] = h]
    BY <1>10 DEF SuspendDomain, Step
  <2>3. h \in HandlerState /\ (HandlerInOrder(h))'
    BY <1>0, <2>1, <2>2 DEF HandlerState, HandlerStages, HandlerInOrder, At
  <2>4. d \in ended
    BY <1>0, <2>1 DEF HandlerInOrder, At
  <2>5. SuspendedAfterGrace'
    BY <2>1, <2>4 DEF IInv, TypeOK, SuspendedAfterGrace, GraceRanOut, stripeVars
  <2>6. QED
    BY <1>2, <1>3, <2>1, <2>2, <2>3, <2>5 DEF IInv, TypeOK
<1>11. ASSUME NEW d \in Domains, SaveRow(e, d)
       PROVE  IInv'
  <2> DEFINE s == handler[e].seen[d]
  <2>1. /\ Frame /\ UNCHANGED <<domain, mail, ended, owed>> /\ At(e, "save")
        /\ d \in handler[e].todo
    BY <1>11 DEF SaveRow, HandlerFrame, domainVars, Step
  <2>2. PICK h : /\ h = [handler[e] EXCEPT !.cur = d, !.at = "check"]
                 /\ handler' = [handler EXCEPT ![e] = h]
    BY <1>0, <1>11 DEF SaveRow, Step, HandlerState
  <2>3. h \in HandlerState /\ h.at = "check" /\ h.cur = d
        /\ h.todo = handler[e].todo /\ h.seen = handler[e].seen
    BY <1>0, <2>2 DEF HandlerState, HandlerStages
  <2>4. HandlerInOrder(h)
    BY <1>0, <2>1, <2>3 DEF HandlerInOrder, At
  <2>5. (HandlerInOrder(h))'
    BY <2>1, <2>4, OrderStays DEF Grows, stripeVars
  <2>6. s \in Row /\ HasDeadlineOf(s) /\ row[d] \in Row /\ HasDeadlineOf(row[d])
    BY <1>0, <2>1 DEF HandlerInOrder, At, IInv, TypeOK, DeadlineIsTheInvoices
  <2>7. /\ row' = [row EXCEPT ![d] = row'[d]]
        /\ row'[d].graceEnds = Saved(row[d].graceEnds, s.graceEnds, None)
        /\ row'[d].failedInvoice = Saved(row[d].failedInvoice, s.failedInvoice, None)
        /\ row'[d] \in Row
    BY <1>11, <2>6 DEF SaveRow, Saved, PaidStatus, Row, RowStatuses, IInv, TypeOK
  <2>8. HasDeadlineOf(row[d])'
    BY <2>1, <2>6, <2>7 DEF HasDeadlineOf, Saved, stripeVars
  <2>9. row' \in [Domains -> Row] /\ DeadlineIsTheInvoices'
    BY <2>1, <2>7, <2>8 DEF IInv, TypeOK, DeadlineIsTheInvoices, HasDeadlineOf, stripeVars
  <2>10. QED
    BY <1>2, <1>4, <2>1, <2>2, <2>3, <2>5, <2>9 DEF IInv, TypeOK
<1>12. CASE CheckDomain(e)
  <2>1. /\ Frame /\ UNCHANGED <<row, ended, domain, mail>> /\ handler[e].at = "check"
    BY <1>12 DEF CheckDomain, HandlerFrame, rowVars, domainVars, At
  <2>2. /\ owed' \subseteq owed
        /\ \E h \in HandlerState : /\ handler' = [handler EXCEPT ![e] = h]
                                   /\ (HandlerInOrder(h))'
    <3>1. CASE NextDomain(e, "save")
      BY <1>5, <2>1, <3>1
    <3>2. CASE ~NextDomain(e, "save")
      <4>1. PICK h : /\ h = [handler[e] EXCEPT !.at = "activate"]
                     /\ handler' = [handler EXCEPT ![e] = h] /\ UNCHANGED owed
        BY <1>12, <3>2 DEF CheckDomain, Step
      <4>2. h \in HandlerState /\ HandlerInOrder(h)
        BY <1>0, <2>1, <4>1 DEF HandlerState, HandlerStages, HandlerInOrder
      <4>3. QED
        BY <2>1, <4>1, <4>2, OrderStays DEF Grows, stripeVars
    <3>3. QED
      BY <3>1, <3>2
  <2>3. QED
    BY <1>2, <1>3, <1>4, <2>1, <2>2 DEF IInv, TypeOK
<1>13. CASE ActivateDomain(e)
  <2>1. /\ Frame /\ UNCHANGED <<row, ended, mail, owed>> /\ handler[e].at = "activate"
        /\ domain' = [domain EXCEPT ![handler[e].cur] = "active"]
    BY <1>13 DEF ActivateDomain, HandlerFrame, rowVars, At, Step
  <2>2. PICK h : /\ h = [handler[e] EXCEPT !.at = "mailOn"]
                 /\ handler' = [handler EXCEPT ![e] = h]
    BY <1>13 DEF ActivateDomain, Step
  <2>3. h \in HandlerState /\ HandlerInOrder(h)
    BY <1>0, <2>1, <2>2 DEF HandlerState, HandlerStages, HandlerInOrder
  <2>4. (HandlerInOrder(h))'
    BY <2>1, <2>3, OrderStays DEF Grows, stripeVars
  <2>5. SuspendedAfterGrace'
    BY <2>1 DEF IInv, TypeOK, SuspendedAfterGrace, GraceRanOut, stripeVars
  <2>6. QED
    BY <1>2, <1>3, <2>1, <2>2, <2>3, <2>4, <2>5 DEF IInv, TypeOK
<1>14. CASE SuspendMail(e) \/ ActivateMail(e)
  <2>1. /\ Frame /\ UNCHANGED <<row, ended, domain>> /\ mail' \in [Domains -> BOOLEAN]
    BY <1>14 DEF SuspendMail, ActivateMail, HandlerFrame, rowVars, IInv, TypeOK
  <2>2. /\ owed' \subseteq owed
        /\ \E h \in HandlerState : /\ handler' = [handler EXCEPT ![e] = h]
                                   /\ (HandlerInOrder(h))'
    BY <1>5, <1>14, <2>1 DEF SuspendMail, ActivateMail, At
  <2>3. QED
    BY <1>2, <1>3, <1>4, <2>1, <2>2 DEF IInv, TypeOK
<1>15. QED
  BY <1>6, <1>7, <1>8, <1>9, <1>10, <1>11, <1>12, <1>13, <1>14 DEF Handle

(* Every step of the sweep (Sweep).                                         *)
LEMMA SweepKeeps ==
    ASSUME IInv, Sweep
    PROVE  IInv'
<1> USE DEF SweepFrame, SweepTo
<1>0. SweepIdle \in SweepState /\ sweep \in SweepState
  BY DEF SweepIdle, SweepState, SweepStages, IInv, TypeOK
<1>1. ASSUME UNCHANGED <<row, stripeVars>>
      PROVE  DeadlineIsTheInvoices' /\ row' \in [Domains -> Row]
  BY <1>1 DEF IInv, TypeOK, DeadlineIsTheInvoices, HasDeadlineOf, stripeVars
<1>2. ASSUME UNCHANGED <<domain, ended, stripeVars, day>>
      PROVE  SuspendedAfterGrace'
  BY <1>2 DEF IInv, SuspendedAfterGrace, GraceRanOut, stripeVars
<1>3. CASE SweepStart
  <2>1. /\ UNCHANGED <<row, ended, domain, mail, stripeVars, hookVars, leaving, day>>
        /\ sweep'.at \in {"retry", "suspend"} /\ sweep' \in SweepState
    BY <1>3 DEF SweepStart, rowVars, domainVars, SweepIdle, SweepState, SweepStages, IInv, TypeOK
  <2>2. sweep'.at = "suspend" => GraceRanOut
    <3> SUFFICES ASSUME sweep'.at = "suspend" PROVE GraceRanOut
      OBVIOUS
    <3>1. PICK d \in Domains : Expired(row[d])
      BY <1>3 DEF SweepStart, SweepIdle
    <3>2. HasDeadlineOf(row[d])
      BY DEF IInv, DeadlineIsTheInvoices
    <3>3. QED
      BY <3>1, <3>2 DEF HasDeadlineOf, Expired, GraceRanOut
  <2>3. SweepInOrder'
    BY <2>1, <2>2 DEF SweepInOrder, GraceRanOut, stripeVars
  <2>4. QED
    BY <1>1, <1>2, <2>1, <2>3, SweepStep DEF IInv, TypeOK
<1>4. ASSUME NEW d \in Domains, SweepSuspends(d)
      PROVE  IInv'
  <2>1. /\ UNCHANGED <<row, ended, mail, stripeVars, hookVars, leaving, day>>
        /\ GraceRanOut /\ domain' \in [Domains -> {"active", "suspended"}]
    BY <1>4 DEF SweepSuspends, rowVars, IInv, SweepInOrder, TypeOK
  <2>2. GraceRanOut'
    BY <2>1 DEF GraceRanOut, stripeVars
  <2>3. sweep' \in SweepState /\ SweepInOrder'
    BY <1>0, <1>4, <2>2 DEF SweepSuspends, SweepState, SweepStages, SweepInOrder
  <2>4. QED
    BY <1>1, <2>1, <2>2, <2>3, SweepStep DEF IInv, TypeOK, SuspendedAfterGrace
<1>5. CASE SweepStopsMail
  <2>1. /\ UNCHANGED <<row, ended, domain, stripeVars, hookVars, leaving, day>>
        /\ mail' \in [Domains -> BOOLEAN]
    BY <1>5 DEF SweepStopsMail, rowVars, IInv, TypeOK
  <2>2. sweep' \in SweepState /\ SweepInOrder'
    BY <1>0, <1>5, <2>1
    DEF SweepStopsMail, SweepState, SweepStages, SweepInOrder, IInv, GraceRanOut, stripeVars
  <2>3. QED
    BY <1>1, <1>2, <2>1, <2>2, SweepStep DEF IInv, TypeOK
<1>6. CASE SweepSaves
  <2>1. /\ UNCHANGED <<ended, domain, mail, stripeVars, hookVars, leaving, day>>
        /\ sweep.cur \in Domains
    BY <1>6 DEF SweepSaves, domainVars, IInv, SweepInOrder
  <2>2. sweep' \in SweepState /\ SweepInOrder'
    BY <1>0, <1>6, <2>1
    DEF SweepSaves, SweepState, SweepStages, SweepInOrder, IInv, GraceRanOut, stripeVars
  <2>3. \A d \in Domains : /\ row'[d] \in Row
                           /\ row'[d].graceEnds = row[d].graceEnds
                           /\ row'[d].failedInvoice = row[d].failedInvoice
    BY <1>6, <2>1 DEF SweepSaves, IInv, TypeOK, Row, RowStatuses
  <2>4. row' \in [Domains -> Row] /\ DeadlineIsTheInvoices'
    BY <1>6, <2>1, <2>3
    DEF SweepSaves, IInv, TypeOK, DeadlineIsTheInvoices, HasDeadlineOf, stripeVars
  <2>5. QED
    BY <1>2, <2>1, <2>2, <2>4, SweepStep DEF IInv, TypeOK
<1>7. ASSUME NEW d \in Domains, SweepRetries(d)
      PROVE  IInv'
  <2>1. /\ UNCHANGED <<ended, domain, mail, stripeVars, hookVars, leaving, day>>
        /\ row[d].failedInvoice \in Invoices /\ sweep.now \in Int
    BY <1>0, <1>7
    DEF SweepRetries, RetryDue, domainVars, IInv, TypeOK, Row, SweepState
  <2>2. sweep' \in SweepState /\ SweepInOrder'
    BY <1>0, <1>7, <2>1 DEF SweepRetries, SweepState, SweepStages, SweepInOrder, InGrace
  <2>3. \A x \in Domains : /\ row'[x] \in Row
                           /\ row'[x].graceEnds = row[x].graceEnds
                           /\ row'[x].failedInvoice = row[x].failedInvoice
    BY <1>7, <2>1 DEF SweepRetries, IInv, TypeOK, Row
  <2>4. row' \in [Domains -> Row] /\ DeadlineIsTheInvoices'
    BY <1>7, <2>1, <2>3
    DEF SweepRetries, IInv, TypeOK, DeadlineIsTheInvoices, HasDeadlineOf, stripeVars
  <2>5. QED
    BY <1>2, <2>1, <2>2, <2>4, SweepStep DEF IInv, TypeOK
<1>8. CASE SweepHasNothingToRetry \/ SweepCannotPay
  <2>1. /\ UNCHANGED <<row, ended, domain, mail, stripeVars, hookVars, leaving, day>>
        /\ sweep' = SweepIdle
    BY <1>8 DEF SweepHasNothingToRetry, SweepCannotPay, rowVars, domainVars
  <2>2. SweepInOrder'
    BY <2>1 DEF SweepInOrder, SweepIdle
  <2>3. QED
    BY <1>0, <1>1, <1>2, <2>1, <2>2, SweepStep DEF IInv, TypeOK
<1>9. CASE SweepPays \/ SweepIsDeclined
  <2>1. /\ UNCHANGED <<rowVars, domainVars, leaving, day, created>>
        /\ sweep.inv \in Invoices
        /\ Collected(sweep.inv) \/ Declined(sweep.inv)
        /\ sweep' = [sweep EXCEPT !.at = "settle"] \/ sweep' = SweepIdle
    BY <1>9 DEF SweepPays, SweepIsDeclined, IInv, SweepInOrder
  <2>2. PICK i \in Invoices : i = sweep.inv /\ (Collected(i) \/ Declined(i))
    BY <2>1
  <2>3. StripeKept
    BY <2>1, <2>2, AttemptKeeps DEF IInv, TypeOK
  <2>4. /\ sweep' \in SweepState
        /\ sweep'.at \notin {"suspend", "mailOff", "save"}
        /\ sweep'.at \in {"pay", "settle"} => sweep'.inv \in Invoices
    BY <1>0, <2>1 DEF SweepState, SweepStages, SweepIdle
  <2>5. QED
    BY <2>1, <2>3, <2>4, StripeStep
<1>10. CASE SweepSettles
  <2>1. /\ UNCHANGED <<ended, domain, mail, stripeVars, hookVars, leaving, day>>
        /\ sweep' = SweepIdle
    BY <1>10 DEF SweepSettles, domainVars
  <2>2. SweepInOrder'
    BY <2>1 DEF SweepInOrder, SweepIdle
  <2>3. \A d \in Domains :
          row'[d] \in Row /\ (row'[d] = row[d] \/ (row'[d].graceEnds = None
                                                  /\ row'[d].failedInvoice = None))
    BY <1>10 DEF SweepSettles, IInv, TypeOK, Row, RowStatuses
  <2>4. row' \in [Domains -> Row] /\ DeadlineIsTheInvoices'
    BY <1>10, <2>1, <2>3
    DEF SweepSettles, IInv, DeadlineIsTheInvoices, HasDeadlineOf, stripeVars
  <2>5. QED
    BY <1>0, <1>2, <2>1, <2>2, <2>4, SweepStep DEF IInv, TypeOK
<1>11. QED
  BY <1>3, <1>4, <1>5, <1>6, <1>7, <1>8, <1>9, <1>10 DEF Sweep

(* Stripe's own steps, and the card update that pays (Stripe, CardUpdated). *)
LEMMA StripeKeeps ==
    ASSUME IInv, Stripe \/ \E d \in Domains : CardUpdated(d)
    PROVE  IInv'
<1>0. /\ UNCHANGED sweep
      /\ UNCHANGED <<rowVars, domainVars, leaving, day>>
  BY DEF Stripe, ZeroInvoice, EndSubscription, Renew, Retry, CardUpdated, Others
<1>1. ASSUME StripeKept
      PROVE  IInv'
  <2>1. /\ sweep' \in SweepState
        /\ sweep'.at \in {"pay", "settle"} => sweep'.inv \in Invoices
    BY <1>0 DEF IInv, TypeOK, SweepInOrder
  <2>2. QED
    BY <1>0, <1>1, <2>1, StripeStep
<1>2. ASSUME NEW events \in Seq(Event), TrueEvents(events, failed), Emit(events),
             UNCHANGED <<invoice, created, failed>>, stripe' \in SubStatuses
      PROVE  StripeKept
  <2>1. /\ emitted' \in Seq(Event)
        /\ owed' \in SUBSET Nat
        /\ TrueEvents(emitted', failed)
        /\ Len(emitted') <= MaxEvents
        /\ owed' \subseteq 1..Len(emitted')
        /\ Len(emitted) <= Len(emitted')
    BY <1>2, EmitKeeps DEF IInv
  <2>2. UNCHANGED <<recorded, handler, failures, crashes>>
    BY <1>2 DEF Emit
  <2>3. Len(emitted) \in Nat /\ Len(emitted') \in Nat
    BY <2>1, LenProperties DEF IInv, TypeOK
  <2>4. EventsAreTrue'
    BY <1>2, <2>1, <2>2, <2>3 DEF IInv, EventsAreTrue, EventIds, TrueEvents
  <2>5. QED
    BY <1>2, <2>1, <2>2, <2>4 DEF StripeKept, Grows, IInv, TypeOK
<1>3. CASE ZeroInvoice
  <2>1. <<Zero, Updated("trialing")>> \in Seq(Event)
    BY DEF Zero, Updated, Event, SubStatuses
  <2>2. TrueEvents(<<Zero, Updated("trialing")>>, failed)
    BY DEF TrueEvents, Zero, Updated
  <2>3. QED
    BY <1>1, <1>2, <1>3, <2>1, <2>2 DEF ZeroInvoice, IInv, TypeOK
<1>4. CASE EndSubscription
  <2>1. <<Deleted>> \in Seq(Event) /\ TrueEvents(<<Deleted>>, failed)
    BY DEF Deleted, Event, SubStatuses, TrueEvents
  <2>2. QED
    BY <1>1, <1>2, <1>4, <2>1 DEF EndSubscription, SubStatuses
<1>5. ASSUME NEW i \in Invoices, Renew(i) \/ Retry(i)
      PROVE  IInv'
  <2>1. /\ Collected(i) \/ Declined(i)
        /\ created' \in [Invoices -> Int]
        /\ invoice[i] = "none" \/ created' = created
        /\ \A j \in Invoices \ {i} : created'[j] = created[j]
    BY <1>5 DEF Renew, Retry, IInv, TypeOK
  <2>2. QED
    BY <1>1, <2>1, AttemptKeeps DEF IInv
<1>6. ASSUME NEW d \in Domains, CardUpdated(d)
      PROVE  IInv'
  <2>1. PICK i \in Invoices : i = row[d].failedInvoice
    BY <1>6 DEF CardUpdated, IInv, TypeOK, Row
  <2>2. Collected(i) /\ created' = created
    BY <1>6, <2>1 DEF CardUpdated
  <2>3. QED
    BY <1>1, <2>2, AttemptKeeps DEF IInv, TypeOK
<1>7. QED
  BY <1>3, <1>4, <1>5, <1>6 DEF Stripe

(* The webhook's bookkeeping, a crash, a domain's cancellation, the clock.  *)
LEMMA OthersKeep ==
    ASSUME IInv,
           \/ \E e \in EventIds : Deliver(e) \/ Redelivered(e) \/ HandlerFails(e)
           \/ \E d \in Domains : Leave(d) \/ Leaves(d)
           \/ Crash
           \/ DayPasses
    PROVE  IInv'
<1>0. Idle \in HandlerState /\ HandlerInOrder(Idle) /\ HandlerInOrder(Idle)'
  BY DEF Idle, HandlerState, HandlerStages, HandlerInOrder
<1>1. ASSUME NEW e \in EventIds, Deliver(e) \/ HandlerFails(e)
      PROVE  IInv'
  <2>1. PICK h \in HandlerState : /\ handler' = [handler EXCEPT ![e] = h]
                                  /\ (HandlerInOrder(h))'
    <3>1. [Idle EXCEPT !.at = "load"] \in HandlerState
          /\ HandlerInOrder([Idle EXCEPT !.at = "load"])'
      BY DEF Idle, HandlerState, HandlerStages, HandlerInOrder
    <3>2. QED
      BY <1>0, <1>1, <3>1 DEF Deliver, HandlerFails
  <2>2. /\ e \in 1..Len(emitted)
        /\ UNCHANGED <<rowVars, domainVars, stripeVars, crashes, sweep, leaving, day, owed>>
        /\ failures' \in Nat /\ recorded' \in SUBSET Nat
    BY <1>1 DEF Deliver, HandlerFails, IInv, TypeOK, EventsAreTrue
  <2>3. DeadlineIsTheInvoices' /\ SuspendedAfterGrace'
    BY <2>2 DEF IInv, DeadlineIsTheInvoices, HasDeadlineOf, SuspendedAfterGrace,
                GraceRanOut, rowVars, domainVars, stripeVars
  <2>4. UNCHANGED <<row, ended, domain, mail>>
    BY <2>2 DEF rowVars, domainVars
  <2>5. QED
    BY <2>1, <2>2, <2>3, <2>4, HandlerStep DEF IInv, TypeOK
<1>2. CASE \E e \in EventIds : Redelivered(e)
  BY <1>2 DEF Redelivered, IInv, TypeOK, EventsAreTrue, DeadlineIsTheInvoices, HasDeadlineOf,
     HandlersInOrder, HandlerInOrder, SweepInOrder, LeavingInOrder, SuspendedAfterGrace,
     GraceRanOut, rowVars, domainVars, stripeVars
<1>3. CASE Crash
  <2>1. TypeOK'
    BY <1>0, <1>3
    DEF Crash, IInv, TypeOK, SweepIdle, SweepState, SweepStages, rowVars, domainVars, stripeVars
  <2>2. /\ HandlersInOrder' /\ SweepInOrder' /\ LeavingInOrder'
    BY <1>0, <1>3 DEF Crash, HandlersInOrder, HandlerInOrder, SweepInOrder, SweepIdle,
                      LeavingInOrder, Idle
  <2>3. EventsAreTrue'
    BY <1>3 DEF Crash, IInv, EventsAreTrue, Idle, stripeVars
  <2>4. DeadlineIsTheInvoices' /\ SuspendedAfterGrace'
    BY <1>3 DEF Crash, IInv, DeadlineIsTheInvoices, HasDeadlineOf, SuspendedAfterGrace,
                GraceRanOut, rowVars, domainVars, stripeVars
  <2>5. QED
    BY <2>1, <2>2, <2>3, <2>4 DEF IInv
<1>4. CASE DayPasses
  <2>1. /\ UNCHANGED <<rowVars, domainVars, stripeVars, hookVars, sweep, leaving>>
        /\ day' \in Nat /\ day <= day'
    BY <1>4 DEF DayPasses, IInv, TypeOK
  <2>2. GraceRanOut => GraceRanOut'
    BY <2>1, RanOutStays, GraceAssumption DEF IInv, Grows, stripeVars
  <2>3. TypeOK'
    BY <2>1 DEF IInv, TypeOK, rowVars, domainVars, stripeVars, hookVars
  <2>4. /\ EventsAreTrue' /\ DeadlineIsTheInvoices' /\ HandlersInOrder' /\ LeavingInOrder'
    BY <2>1 DEF IInv, EventsAreTrue, DeadlineIsTheInvoices, HandlersInOrder, HandlerInOrder,
                HasDeadlineOf, LeavingInOrder, rowVars, stripeVars, hookVars
  <2>5. SweepInOrder' /\ SuspendedAfterGrace'
    BY <2>1, <2>2 DEF IInv, SweepInOrder, SuspendedAfterGrace, rowVars, domainVars
  <2>6. QED
    BY <2>3, <2>4, <2>5 DEF IInv
<1>5. ASSUME NEW d \in Domains, Leave(d) \/ Leaves(d)
      PROVE  IInv'
  <2> USE DEF LeaveFrame
  <2>1. /\ UNCHANGED <<stripeVars, hookVars, sweep, day>>
        /\ ended \subseteq ended'
        /\ ended' \subseteq Domains
        /\ mail' \in [Domains -> BOOLEAN]
        /\ leaving' \in [Domains -> {"no", "save", "suspend", "mailOff"}]
    BY <1>5 DEF Leave, Leaves, LeaveSaves, LeaveSuspends, LeaveStopsMail, IInv, TypeOK,
                rowVars, domainVars
  <2>2. \A x \in Domains : leaving'[x] \in {"suspend", "mailOff"} => x \in ended'
    BY <1>5 DEF Leave, Leaves, LeaveSaves, LeaveSuspends, LeaveStopsMail, IInv, TypeOK,
                LeavingInOrder, rowVars, domainVars
  <2>3. /\ domain' \in [Domains -> {"active", "suspended"}]
        /\ \A x \in Domains : domain'[x] = "suspended" => domain[x] = "suspended" \/ x \in ended
    BY <1>5 DEF Leave, Leaves, LeaveSaves, LeaveSuspends, LeaveStopsMail, IInv, TypeOK,
                LeavingInOrder, rowVars, domainVars
  <2>4. \A x \in Domains : /\ row'[x] \in Row
                           /\ row'[x].graceEnds = row[x].graceEnds
                           /\ row'[x].failedInvoice = row[x].failedInvoice
    <3>1. row' = row \/ row' = [row EXCEPT ![d].status = "canceled"]
      BY <1>5 DEF Leave, Leaves, LeaveSaves, LeaveSuspends, LeaveStopsMail, rowVars
    <3> TAKE x \in Domains
    <3>2. row \in [Domains -> Row] /\ row[x] \in Row
      BY DEF IInv, TypeOK
    <3>3. CASE row' = row
      BY <3>2, <3>3
    <3>4. CASE row' = [row EXCEPT ![d].status = "canceled"]
      <4>1. row'[x] = row[x] \/ row'[x] = [row[x] EXCEPT !.status = "canceled"]
        BY <3>2, <3>4
      <4>2. QED
        BY <3>2, <4>1 DEF Row, RowStatuses
    <3>5. QED
      BY <3>1, <3>3, <3>4
  <2>5. row' \in [Domains -> Row]
    BY <1>5, <2>4 DEF Leave, Leaves, LeaveSaves, LeaveSuspends, LeaveStopsMail, IInv, TypeOK,
                      rowVars
  <2>6. TypeOK' /\ EventsAreTrue'
    BY <2>1, <2>3, <2>5 DEF IInv, TypeOK, EventsAreTrue, stripeVars, hookVars
  <2>7. DeadlineIsTheInvoices'
    BY <2>1, <2>4 DEF IInv, DeadlineIsTheInvoices, HasDeadlineOf, stripeVars
  <2>8. HandlersInOrder'
    BY <2>1 DEF IInv, HandlersInOrder, HandlerInOrder, HasDeadlineOf, stripeVars, hookVars
  <2>9. SweepInOrder' /\ LeavingInOrder' /\ SuspendedAfterGrace'
    BY <2>1, <2>2, <2>3 DEF IInv, SweepInOrder, LeavingInOrder, SuspendedAfterGrace,
                            GraceRanOut, stripeVars
  <2>10. QED
    BY <2>6, <2>7, <2>8, <2>9 DEF IInv
<1>6. QED
  BY <1>1, <1>2, <1>3, <1>4, <1>5

LEMMA InitHolds == Init => IInv
<1> SUFFICES ASSUME Init PROVE IInv
  OBVIOUS
<1>1. TypeOK
  BY DEF Init, TypeOK, Row, RowStatuses, SubStatuses, Idle, SweepIdle, HandlerState,
         HandlerStages, SweepState, SweepStages
<1>2. EventsAreTrue
  BY BoundsAssumption DEF Init, EventsAreTrue, Idle
<1>3. DeadlineIsTheInvoices /\ HandlersInOrder /\ SweepInOrder /\ LeavingInOrder
      /\ SuspendedAfterGrace
  BY DEF Init, DeadlineIsTheInvoices, HasDeadlineOf, HandlersInOrder, HandlerInOrder, Idle,
         SweepInOrder, SweepIdle, LeavingInOrder, SuspendedAfterGrace
<1>4. QED
  BY <1>1, <1>2, <1>3 DEF IInv

(* IInv is an inductive invariant of the billing system.                    *)
THEOREM Inductive == Spec => []IInv
<1>1. IInv /\ [Next]_vars => IInv'
  <2> SUFFICES ASSUME IInv, [Next]_vars PROVE IInv'
    OBVIOUS
  <2>1. CASE Next
    BY <2>1, HandleKeeps, SweepKeeps, StripeKeeps, OthersKeep DEF Next
  <2>2. CASE UNCHANGED vars
    BY <2>2 DEF vars, rowVars, domainVars, stripeVars, hookVars, IInv, TypeOK, EventsAreTrue,
       DeadlineIsTheInvoices, HasDeadlineOf, HandlersInOrder, HandlerInOrder, SweepInOrder,
       LeavingInOrder, SuspendedAfterGrace, GraceRanOut
  <2>3. QED
    BY <2>1, <2>2
<1>2. QED
  BY InitHolds, <1>1, PTL DEF Spec

(* Every variable keeps its type (all handlers and jobs).                   *)
THEOREM TypeCorrect == Spec => []TypeOK
<1>1. IInv => TypeOK
  BY DEF IInv
<1>2. QED
  BY Inductive, <1>1, PTL

(* However webhooks, sweeps, cancellations, failures and crashes interleave, *)
(* no domain is suspended for non-payment before its grace is over.          *)
THEOREM NoEarlySuspension == Spec => []SuspendedAfterGrace
<1>1. IInv => SuspendedAfterGrace
  BY DEF IInv
<1>2. QED
  BY Inductive, <1>1, PTL

(* No late, repeated or reordered event and no stale save moves a deadline   *)
(* away from the invoice it belongs to (invoice.payment_failed).             *)
THEOREM DeadlinesAreStable == Spec => []DeadlineIsTheInvoices
<1>1. IInv => DeadlineIsTheInvoices
  BY DEF IInv
<1>2. QED
  BY Inductive, <1>1, PTL

-----------------------------------------------------------------------------
(* What holds while nothing overlaps: an ended billing is never revived.    *)

(* A handler at work changes only its own state, and never that of a row    *)
(* whose billing has ended (Handle).                                        *)
LEMMA HandleSerial ==
    ASSUME TypeOK, Serial, NothingStale, EndedStaysCanceled, NEW e \in EventIds, Handle(e)
    PROVE  Serial' /\ NothingStale' /\ EndedStaysCanceled'
<1> USE DEF HandlerFrame, stripeVars
<1>0. handler \in [EventIds -> HandlerState] /\ handler[e] \in HandlerState
  BY DEF TypeOK
<1>1. handler[e].at # "idle"
  BY DEF Handle, Load, OpenGrace, WriteStatus, CloseRows, SuspendMail, CheckDomain,
         ActivateDomain, ActivateMail, SaveRow, SuspendDomain, At
<1>2. /\ sweep.at = "idle" /\ \A d \in Domains : leaving[d] = "no"
      /\ \A f \in EventIds \ {e} : handler[f].at = "idle"
  BY <1>1 DEF Serial
<1>3. UNCHANGED <<sweep, leaving>>
  BY DEF Handle, Load, OpenGrace, WriteStatus, CloseRows, SuspendMail, CheckDomain,
         ActivateDomain, ActivateMail, SaveRow, SuspendDomain
<1>4. ASSUME NEW h, handler' = [handler EXCEPT ![e] = h],
             h.at \in Overwriting => h.todo \cap ended' = {},
             \A d \in ended' : row'[d].status = "canceled"
      PROVE  Serial' /\ NothingStale' /\ EndedStaysCanceled'
  <2>1. handler'[e] = h /\ \A f \in EventIds \ {e} : handler'[f] = handler[f]
    BY <1>0, <1>4
  <2>2. Serial'
    BY <1>2, <1>3, <2>1 DEF Serial
  <2>3. NothingStale'
    BY <1>2, <1>3, <1>4, <2>1 DEF NothingStale, SweepWriting, Overwriting
  <2>4. EndedStaysCanceled'
    BY <1>4 DEF EndedStaysCanceled
  <2>5. QED
    BY <2>2, <2>3, <2>4
<1>5. Idle.at \notin Overwriting
  BY DEF Idle, Overwriting
<1>6. CASE Load(e)
  <2>1. UNCHANGED <<row, ended>>
    BY <1>6 DEF Load, rowVars
  <2>2. Live \cap ended = {} /\ Opening \subseteq Live
    BY DEF Live, Opening, EndedStaysCanceled
  <2>3. CASE Live = {}
    BY <1>4, <1>5, <1>6, <2>1, <2>3 DEF Load, Finish, EndedStaysCanceled
  <2>4. CASE Live # {}
    <3> DEFINE h == [at |-> IF Kind(e) \in {"succeeded", "zero"} THEN "save" ELSE "write",
                     todo |-> IF Kind(e) = "failed" THEN Opening ELSE Live, cur |-> None,
                     seen |-> [d \in Domains |-> IF d \in Live THEN row[d] ELSE None]]
    <3>1. handler' = [handler EXCEPT ![e] = h]
      BY <1>6, <2>4 DEF Load, Step
    <3>2. h.todo \cap ended' = {}
      BY <2>1, <2>2
    <3>3. QED
      BY <1>4, <2>1, <3>1, <3>2 DEF EndedStaysCanceled
  <2>5. QED
    BY <2>3, <2>4
<1>7. CASE OpenGrace(e)
  <2>1. handler' = [handler EXCEPT ![e] = Idle] /\ ended' = ended
    BY <1>7 DEF OpenGrace, Finish
  <2>2. handler[e].todo \cap ended = {}
    BY <1>7 DEF OpenGrace, At, NothingStale, Overwriting
  <2>3. \A d \in ended : row'[d] = row[d]
    BY <1>7, <2>2 DEF OpenGrace, TypeOK
  <2>4. QED
    BY <1>4, <1>5, <2>1, <2>3 DEF EndedStaysCanceled
<1>8. CASE WriteStatus(e)
  <2>1. handler' = [handler EXCEPT ![e] = Idle] /\ ended' = ended
    BY <1>8 DEF WriteStatus, Finish
  <2>2. "canceled" \in Protected(emitted[e].status)
    BY DEF Protected
  <2>3. \A d \in ended : row'[d] = row[d]
    BY <1>8, <2>2 DEF WriteStatus, TypeOK, EndedStaysCanceled
  <2>4. QED
    BY <1>4, <1>5, <2>1, <2>3 DEF EndedStaysCanceled
<1>9. CASE CloseRows(e)
  <2>1. handler' = [handler EXCEPT ![e] = [handler[e] EXCEPT !.at = "suspend"]]
    BY <1>9 DEF CloseRows, Step
  <2>2. [handler[e] EXCEPT !.at = "suspend"].at \notin Overwriting
    BY <1>0 DEF HandlerState, Overwriting
  <2>3. \A d \in ended' : row'[d].status = "canceled"
    <3> SUFFICES ASSUME NEW d \in ended' PROVE row'[d].status = "canceled"
      OBVIOUS
    <3>1. d \in ended \/ d \in handler[e].todo
      BY <1>9 DEF CloseRows
    <3>2. d \in Domains /\ row[d] \in Row
      BY <1>0, <3>1 DEF TypeOK, HandlerState
    <3>3. row'[d] = row[d] \/ row'[d] = [row[d] EXCEPT !.status = "canceled"]
      BY <1>9, <3>2 DEF CloseRows
    <3>4. d \notin handler[e].todo => row'[d] = row[d]
      BY <1>9, <3>2 DEF CloseRows
    <3>5. d \in handler[e].todo => row'[d] = [row[d] EXCEPT !.status = "canceled"]
      BY <1>9, <3>2 DEF CloseRows
    <3>6. QED
      BY <3>1, <3>2, <3>4, <3>5 DEF EndedStaysCanceled, Row
  <2>4. QED
    BY <1>4, <2>1, <2>2, <2>3
<1>10. CASE \/ SuspendMail(e) \/ CheckDomain(e) \/ ActivateDomain(e) \/ ActivateMail(e)
            \/ \E d \in Domains : SuspendDomain(e, d)
  <2>1. UNCHANGED <<row, ended>>
    BY <1>10 DEF SuspendMail, CheckDomain, ActivateDomain, ActivateMail, SuspendDomain, rowVars
  <2>2. PICK h : /\ handler' = [handler EXCEPT ![e] = h]
                 /\ h.at \in Overwriting => /\ handler[e].at \in Overwriting
                                           /\ h.todo \subseteq handler[e].todo
    <3>1. CASE SuspendMail(e) \/ \E d \in Domains : SuspendDomain(e, d)
      <4>1. \A x : [handler[e] EXCEPT !.at = "mailOff", !.cur = x].at \notin Overwriting
        BY <1>0 DEF HandlerState, Overwriting
      <4>2. \A x : [handler[e] EXCEPT !.at = "suspend", !.todo = x, !.cur = None].at
                       \notin Overwriting
        BY <1>0 DEF HandlerState, Overwriting
      <4>3. QED
        BY <1>5, <3>1, <4>1, <4>2 DEF SuspendMail, SuspendDomain, NextDomain, Finish, Step
    <3>2. CASE CheckDomain(e) \/ ActivateDomain(e) \/ ActivateMail(e)
      <4>1. handler[e].at \in Overwriting
        BY <3>2 DEF CheckDomain, ActivateDomain, ActivateMail, At, Overwriting
      <4>2. /\ [handler[e] EXCEPT !.at = "activate"].todo = handler[e].todo
            /\ [handler[e] EXCEPT !.at = "mailOn"].todo = handler[e].todo
            /\ [handler[e] EXCEPT !.at = "save", !.todo = handler[e].todo \ {handler[e].cur},
                                  !.cur = None].todo \subseteq handler[e].todo
        BY <1>0 DEF HandlerState
      <4>3. QED
        BY <1>5, <3>2, <4>1, <4>2
        DEF CheckDomain, ActivateDomain, ActivateMail, NextDomain, Finish, Step
    <3>3. QED
      BY <1>10, <3>1, <3>2
  <2>3. QED
    BY <1>4, <2>1, <2>2 DEF NothingStale, EndedStaysCanceled
<1>11. ASSUME NEW d \in Domains, SaveRow(e, d) PROVE Serial' /\ NothingStale' /\ EndedStaysCanceled'
  <2> DEFINE h == [[handler[e] EXCEPT !.cur = d] EXCEPT !.at = "check"]
  <2>1. handler' = [handler EXCEPT ![e] = h] /\ ended' = ended
    BY <1>11 DEF SaveRow, Step
  <2>2. h.todo = handler[e].todo
    BY <1>0 DEF HandlerState
  <2>3. handler[e].todo \cap ended = {} /\ d \in handler[e].todo
    BY <1>11 DEF SaveRow, At, NothingStale, Overwriting
  <2>4. \A x \in ended : row'[x] = row[x]
    BY <1>11, <2>3 DEF SaveRow, TypeOK
  <2>5. QED
    BY <1>4, <2>1, <2>2, <2>3, <2>4 DEF EndedStaysCanceled
<1>12. QED
  BY <1>6, <1>7, <1>8, <1>9, <1>10, <1>11 DEF Handle

(* The sweep starts only while nothing else runs, and writes only rows that  *)
(* were in grace when it listed them (runGraceSweepOnce).                    *)
LEMMA SweepSerial ==
    ASSUME ~Overlap, TypeOK, Serial, NothingStale, EndedStaysCanceled, Sweep
    PROVE  Serial' /\ NothingStale' /\ EndedStaysCanceled'
<1> USE DEF SweepFrame, SweepTo, hookVars
<1>0. sweep \in SweepState
  BY DEF TypeOK
<1>1. UNCHANGED <<handler, leaving, ended>>
  BY DEF Sweep, SweepStart, SweepSuspends, SweepStopsMail, SweepSaves, SweepRetries,
         SweepHasNothingToRetry, SweepPays, SweepIsDeclined, SweepCannotPay, SweepSettles,
         Collected, Declined, Emit, rowVars
<1>2. Quiet \/ sweep.at # "idle"
  BY DEF Sweep, SweepStart, SweepSuspends, SweepStopsMail, SweepSaves, SweepRetries,
         SweepHasNothingToRetry, SweepPays, SweepIsDeclined, SweepCannotPay, SweepSettles,
         MayStart
<1>3. /\ \A d \in Domains : leaving[d] = "no"
      /\ \A e \in EventIds : handler[e].at = "idle"
  BY <1>2 DEF Quiet, Serial
<1>4. Serial'
  BY <1>1, <1>3 DEF Serial
<1>5. ASSUME sweep'.at \in SweepWriting => sweep'.todo \cap ended = {},
             sweep'.at \in {"mailOff", "save"} => sweep'.cur \in sweep'.todo,
             \A d \in ended : row'[d].status = "canceled"
      PROVE  Serial' /\ NothingStale' /\ EndedStaysCanceled'
  <2>1. NothingStale'
    BY <1>1, <1>3, <1>5 DEF NothingStale, Overwriting
  <2>2. QED
    BY <1>1, <1>4, <1>5, <2>1 DEF EndedStaysCanceled
<1>6. SweepIdle.at \notin SweepWriting \cup {"mailOff", "save"}
  BY DEF SweepIdle, SweepWriting
<1>7. CASE SweepStart
  <2> DEFINE expired == {d \in Domains : Expired(row[d])}
             s == [SweepIdle EXCEPT !.at = IF expired = {} THEN "retry" ELSE "suspend",
                                    !.now = day, !.todo = expired]
  <2>1. sweep' = s /\ row' = row
    BY <1>7 DEF SweepStart, rowVars
  <2>2. s.at \in {"retry", "suspend"} /\ s.todo = expired
    BY DEF SweepIdle
  <2>3. expired \cap ended = {}
    BY DEF Expired, EndedStaysCanceled
  <2>4. QED
    BY <1>5, <2>1, <2>2, <2>3 DEF EndedStaysCanceled
<1>8. ASSUME NEW d \in Domains, SweepSuspends(d)
      PROVE  Serial' /\ NothingStale' /\ EndedStaysCanceled'
  <2>1. sweep' = [sweep EXCEPT !.at = "mailOff", !.cur = d] /\ row' = row /\ d \in sweep.todo
    BY <1>8 DEF SweepSuspends, rowVars
  <2>2. sweep'.todo = sweep.todo /\ sweep'.cur = d
    BY <1>0, <2>1 DEF SweepState
  <2>3. sweep.todo \cap ended = {}
    BY <1>8 DEF SweepSuspends, NothingStale, SweepWriting
  <2>4. QED
    BY <1>5, <2>1, <2>2, <2>3 DEF EndedStaysCanceled
<1>9. CASE SweepStopsMail
  <2>1. sweep' = [sweep EXCEPT !.at = "save"] /\ row' = row
    BY <1>9 DEF SweepStopsMail, rowVars
  <2>2. sweep'.todo = sweep.todo /\ sweep'.cur = sweep.cur
    BY <1>0, <2>1 DEF SweepState
  <2>3. sweep.todo \cap ended = {} /\ sweep.cur \in sweep.todo
    BY <1>9 DEF SweepStopsMail, NothingStale, SweepWriting
  <2>4. QED
    BY <1>5, <2>1, <2>2, <2>3 DEF EndedStaysCanceled
<1>10. CASE SweepSaves
  <2> DEFINE rest == sweep.todo \ {sweep.cur}
             s == [sweep EXCEPT !.at = IF rest = {} THEN "retry" ELSE "suspend",
                                !.todo = rest, !.cur = None]
  <2>1. sweep' = s /\ row' = [row EXCEPT ![sweep.cur].status = "suspended"]
    BY <1>10 DEF SweepSaves
  <2>2. s.at \in {"retry", "suspend"} /\ s.todo = rest
    BY <1>0 DEF SweepState
  <2>3. sweep.todo \cap ended = {} /\ sweep.cur \in sweep.todo
    BY <1>10 DEF SweepSaves, NothingStale, SweepWriting
  <2>4. \A d \in ended : row'[d] = row[d]
    BY <2>1, <2>3 DEF TypeOK
  <2>5. QED
    BY <1>5, <2>1, <2>2, <2>3, <2>4 DEF EndedStaysCanceled
<1>11. ASSUME NEW d \in Domains, SweepRetries(d)
       PROVE  Serial' /\ NothingStale' /\ EndedStaysCanceled'
  <2>1. sweep'.at = "pay" /\ sweep'.todo = InGrace
    BY <1>0, <1>11 DEF SweepRetries, SweepState
  <2>2. InGrace \cap ended = {}
    BY DEF InGrace, EndedStaysCanceled
  <2>3. \A x \in ended : row'[x] = row[x]
    BY <1>11, <2>2 DEF SweepRetries, TypeOK
  <2>4. QED
    BY <1>5, <2>1, <2>2, <2>3 DEF EndedStaysCanceled
<1>12. CASE SweepPays
  <2>1. sweep' = [sweep EXCEPT !.at = "settle"] /\ row' = row
    BY <1>12 DEF SweepPays, rowVars
  <2>2. sweep'.todo = sweep.todo /\ sweep'.at = "settle"
    BY <1>0, <2>1 DEF SweepState
  <2>3. sweep.todo \cap ended = {}
    BY <1>12 DEF SweepPays, NothingStale, SweepWriting
  <2>4. QED
    BY <1>5, <2>1, <2>2, <2>3 DEF EndedStaysCanceled
<1>13. CASE SweepHasNothingToRetry \/ SweepIsDeclined \/ SweepCannotPay
  <2>1. sweep' = SweepIdle /\ row' = row
    BY <1>13 DEF SweepHasNothingToRetry, SweepIsDeclined, SweepCannotPay, rowVars
  <2>2. QED
    BY <1>5, <1>6, <2>1 DEF EndedStaysCanceled
<1>14. CASE SweepSettles
  <2>1. sweep' = SweepIdle
    BY <1>14 DEF SweepSettles
  <2>2. sweep.todo \cap ended = {}
    BY <1>14 DEF SweepSettles, NothingStale, SweepWriting
  <2>3. \A d \in ended : row'[d] = row[d]
    BY <1>14, <2>2 DEF SweepSettles, TypeOK
  <2>4. QED
    BY <1>5, <1>6, <2>1, <2>3 DEF EndedStaysCanceled
<1>15. QED
  BY <1>7, <1>8, <1>9, <1>10, <1>11, <1>12, <1>13, <1>14 DEF Sweep

(* Deliveries, cancellations, crashes and Stripe: whatever begins begins     *)
(* alone, and only an ending billing changes a row.                          *)
LEMMA OthersSerial ==
    ASSUME ~Overlap, TypeOK, Serial, NothingStale, EndedStaysCanceled,
           \/ Stripe \/ Crash \/ DayPasses
           \/ \E d \in Domains : CardUpdated(d) \/ Leave(d) \/ Leaves(d)
           \/ \E e \in EventIds : Deliver(e) \/ Redelivered(e) \/ HandlerFails(e)
    PROVE  Serial' /\ NothingStale' /\ EndedStaysCanceled'
<1>1. CASE Stripe \/ DayPasses \/ (\E d \in Domains : CardUpdated(d))
           \/ (\E e \in EventIds : Redelivered(e))
  <2>1. UNCHANGED <<handler, sweep, leaving, row, ended>>
    BY <1>1 DEF Stripe, ZeroInvoice, EndSubscription, Renew, Retry, CardUpdated, Collected,
       Declined, Emit, Others, DayPasses, Redelivered, rowVars, hookVars
  <2>2. QED
    BY <2>1 DEF Serial, NothingStale, EndedStaysCanceled
<1>2. CASE Crash
  <2>1. /\ handler' = [e \in EventIds |-> Idle] /\ sweep' = SweepIdle
        /\ leaving' = [d \in Domains |-> "no"] /\ UNCHANGED <<row, ended>>
    BY <1>2 DEF Crash, rowVars
  <2>2. QED
    BY <2>1 DEF Serial, NothingStale, EndedStaysCanceled, Idle, SweepIdle, Overwriting,
                SweepWriting
<1>3. ASSUME NEW e \in EventIds, Deliver(e)
      PROVE  Serial' /\ NothingStale' /\ EndedStaysCanceled'
  <2>1. Quiet /\ handler' = [handler EXCEPT ![e] = [Idle EXCEPT !.at = "load"]]
        /\ UNCHANGED <<sweep, leaving, row, ended>>
    BY <1>3 DEF Deliver, MayStart, rowVars
  <2>2. \A f \in EventIds : handler'[f].at = IF f = e THEN "load" ELSE "idle"
    BY <2>1 DEF Quiet, TypeOK, Idle
  <2>3. QED
    BY <2>1, <2>2 DEF Quiet, Serial, NothingStale, EndedStaysCanceled, Overwriting
<1>4. ASSUME NEW e \in EventIds, HandlerFails(e)
      PROVE  Serial' /\ NothingStale' /\ EndedStaysCanceled'
  <2>1. handler' = [handler EXCEPT ![e] = Idle] /\ UNCHANGED <<sweep, leaving, row, ended>>
    BY <1>4 DEF HandlerFails, rowVars
  <2>2. \A f \in EventIds : handler'[f] = IF f = e THEN Idle ELSE handler[f]
    BY <2>1 DEF TypeOK
  <2>3. Idle.at = "idle"
    BY DEF Idle
  <2>4. QED
    BY <2>1, <2>2, <2>3 DEF Serial, NothingStale, EndedStaysCanceled, Overwriting
<1>5. ASSUME NEW d \in Domains, Leave(d)
      PROVE  Serial' /\ NothingStale' /\ EndedStaysCanceled'
  <2>1. Quiet /\ leaving' = [leaving EXCEPT ![d] = "save"]
        /\ UNCHANGED <<handler, sweep, row, ended>>
    BY <1>5 DEF Leave, LeaveFrame, MayStart, rowVars, hookVars
  <2>2. QED
    BY <2>1 DEF Quiet, TypeOK, Serial, NothingStale, EndedStaysCanceled
<1>6. ASSUME NEW d \in Domains, Leaves(d)
      PROVE  Serial' /\ NothingStale' /\ EndedStaysCanceled'
  <2>1. leaving[d] # "no" /\ UNCHANGED <<handler, sweep>>
    BY <1>6 DEF Leaves, LeaveSaves, LeaveSuspends, LeaveStopsMail, LeaveFrame, hookVars
  <2>2. /\ sweep.at = "idle" /\ \A e \in EventIds : handler[e].at = "idle"
        /\ \A x \in Domains \ {d} : leaving[x] = "no"
    BY <2>1 DEF Serial
  <2>3. \A x \in Domains \ {d} : leaving'[x] = leaving[x]
    BY <1>6 DEF Leaves, LeaveSaves, LeaveSuspends, LeaveStopsMail, TypeOK
  <2>4. Serial' /\ NothingStale'
    BY <2>1, <2>2, <2>3 DEF Serial, NothingStale, Overwriting, SweepWriting
  <2>5. EndedStaysCanceled'
    <3>1. CASE LeaveSaves(d)
      <4>1. row' = [row EXCEPT ![d].status = "canceled"] /\ ended' = ended \cup {d}
        BY <3>1 DEF LeaveSaves
      <4>2. row'[d].status = "canceled" /\ \A x \in Domains \ {d} : row'[x] = row[x]
        BY <4>1 DEF TypeOK, Row
      <4>3. QED
        BY <4>1, <4>2 DEF TypeOK, EndedStaysCanceled
    <3>2. CASE LeaveSuspends(d) \/ LeaveStopsMail(d)
      <4>1. UNCHANGED <<row, ended>>
        BY <3>2 DEF LeaveSuspends, LeaveStopsMail, rowVars
      <4>2. QED
        BY <4>1 DEF EndedStaysCanceled
    <3>3. QED
      BY <1>6, <3>1, <3>2 DEF Leaves
  <2>6. QED
    BY <2>4, <2>5
<1>7. QED
  BY <1>1, <1>2, <1>3, <1>4, <1>5, <1>6

(* EndedInv is inductive as long as handlers, sweep and cancellations do    *)
(* not overlap.                                                             *)
LEMMA EndedInductive == ASSUME ~Overlap PROVE Spec => []EndedInv
<1>1. Init => EndedInv
  <2> SUFFICES ASSUME Init PROVE EndedInv
    OBVIOUS
  <2>1. TypeOK
    BY InitHolds DEF IInv
  <2>2. Serial /\ NothingStale /\ EndedStaysCanceled
    BY DEF Init, Serial, NothingStale, EndedStaysCanceled, Idle, SweepIdle, Overwriting,
           SweepWriting
  <2>3. QED
    BY <2>1, <2>2 DEF EndedInv
<1>2. EndedInv /\ TypeOK' /\ [Next]_vars => EndedInv'
  <2> SUFFICES ASSUME EndedInv, TypeOK', [Next]_vars PROVE EndedInv'
    OBVIOUS
  <2>1. CASE Next
    <3>1. Serial' /\ NothingStale' /\ EndedStaysCanceled'
      BY <2>1, HandleSerial, SweepSerial, OthersSerial DEF EndedInv, Next
    <3>2. QED
      BY <3>1 DEF EndedInv
  <2>2. CASE UNCHANGED vars
    BY <2>2 DEF vars, rowVars, hookVars, EndedInv, Serial, NothingStale, EndedStaysCanceled
  <2>3. QED
    BY <2>1, <2>2
<1>3. QED
  BY <1>1, <1>2, TypeCorrect, PTL DEF Spec

(* Whatever fails, crashes, is repeated or comes out of order: as long as   *)
(* handlers, sweep and cancellations do not overlap, a domain whose billing *)
(* has ended is never billed or served again by a late event                *)
(* (billing.service.ts:1919 "its row must not be revived").                 *)
THEOREM EndedIsFinal == ASSUME ~Overlap PROVE Spec => []EndedStaysCanceled
<1>1. EndedInv => EndedStaysCanceled
  BY DEF EndedInv
<1>2. QED
  BY EndedInductive, <1>1, PTL

-----------------------------------------------------------------------------
(* What holds while, besides, events are handled in Stripe's order and once: *)
(* the rows follow the last attempt at a payment.                            *)

\* Of an event before any payment was due; and the last attempt at a payment, after
\* which Stripe only reported its status.
Early(v) == v.kind = "zero" \/ (v.kind = "updated" /\ v.status = "trialing")
LastIs(f, kind, s) ==
    /\ f \in 1..Len(emitted) /\ emitted[f].kind = kind
    /\ \A g \in 1..Len(emitted) : f < g => emitted[g].kind = "updated" /\ emitted[g].status = s

\* Events are handled one after the other, and each once.
InTurnOnly ==
    /\ \A e \in owed, g \in 1..Len(emitted) : e < g => g \in owed
    /\ \A e \in owed \cap recorded : e \in EventIds /\ handler[e].at # "idle"
    /\ \A e \in EventIds : handler[e].at # "idle" =>
          e \in owed \cap recorded /\ \A f \in owed : e <= f
    /\ recorded \subseteq 1..Len(emitted)

\* What the events told so far say of Stripe.
Told ==
    /\ \A e \in 1..Len(emitted) :
          /\ emitted[e].kind = "updated" => emitted[e].status # "canceled"
          /\ emitted[e].kind = "deleted" => stripe = "canceled"
          /\ stripe = "trialing" => Early(emitted[e])
    /\ \A e, g \in 1..Len(emitted) : e < g /\ Early(emitted[g]) => Early(emitted[e])

Paying == {"save", "check", "activate", "mailOn"}
Restoring == {"check", "activate", "mailOn"}
Stopped == {"grace", "suspended"}

\* How far a handler has come with the rows still billed: a failed payment works on
\* those not in grace yet, a payment on those it has not dealt with.
Progress(e) ==
    LET h == handler[e]
        done(d) == d \notin h.todo \/ (h.at # "save" /\ d = h.cur)
    IN  /\ h.at \in Paying => Kind(e) \in {"succeeded", "zero"}
        /\ h.at \in {"suspend", "mailOff"} => Kind(e) = "deleted"
        /\ h.at = "write" =>
              /\ Kind(e) \in {"failed", "updated", "deleted"}
              /\ Kind(e) = "failed" =>
                    \A d \in Domains \ ended : d \in h.todo <=> row[d].status \notin Stopped
        /\ h.at \in Paying => \A d \in Domains \ ended :
              IF done(d) THEN row[d].status \notin Stopped ELSE h.seen[d] = row[d]
        /\ h.at = "check" /\ domain[h.cur] = "suspended" => Restorable(h.seen[h.cur].status)
        /\ h.at = "mailOn" => domain[h.cur] = "active"
Progressing == \A e \in EventIds : Progress(e)

\* A handler that was paid for d has come to one of these stages with it.
Reviving(d, stages) == \E e \in EventIds : handler[e].at \in stages /\ handler[e].cur = d

\* What is suspended, and why.
Stopping ==
    /\ \A d \in Domains : row[d].status = "canceled" => d \in ended
    /\ sweep.at \in SweepWriting => \A d \in sweep.todo : row[d].status = "grace"
    /\ sweep.at \in {"mailOff", "save"} => domain[sweep.cur] = "suspended"
    /\ \A d \in Domains \ ended :
          /\ ~mail[d] => domain[d] = "suspended" \/ Reviving(d, {"mailOn"})
          /\ domain[d] = "suspended" =>
                \/ row[d].status = "suspended"
                \/ Reviving(d, Restoring)
                \/ sweep.at \in {"mailOff", "save"} /\ sweep.cur = d

\* Before a payment was due nothing is stopped.
Fresh ==
    stripe = "trialing" \/ (\E e \in owed : Early(emitted[e])) =>
        /\ sweep.at \in {"idle", "retry"}
        /\ \A d \in Domains \ ended : row[d].status = "trialing" /\ domain[d] = "active" /\ mail[d]

\* Where the last attempt has been handled, the rows are as it says.
Pursued ==
    stripe = "past_due" => \E f \in 1..Len(emitted) :
        /\ LastIs(f, "failed", "past_due")
        /\ \/ f \in owed
           \/ sweep.at # "settle" /\ \A d \in Domains \ ended : row[d].status \in Stopped
Settled ==
    stripe = "active" => \E f \in 1..Len(emitted) :
        /\ LastIs(f, "succeeded", "active")
        /\ \/ f \in owed
           \/ /\ sweep.at \in {"idle", "retry"}
              /\ \A d \in Domains \ ended : row[d].status \notin Stopped

OrderInv ==
    /\ InTurnOnly /\ Told /\ Progressing
    /\ Stopping /\ Fresh /\ Pursued /\ Settled

\* Everything the steps below may start from.
Ready == IInv /\ EndedInv /\ OrderInv

-----------------------------------------------------------------------------
\* At the start nothing is owed and everything is served.
LEMMA OrderInit == Init => OrderInv
<1> SUFFICES ASSUME Init PROVE OrderInv
  OBVIOUS
<1>1. /\ Len(emitted) = 0 /\ owed = {} /\ recorded = {} /\ ended = {}
      /\ stripe = "trialing" /\ sweep.at = "idle"
      /\ \A e \in EventIds : handler[e].at = "idle"
  BY DEF Init, Idle, SweepIdle
<1>2. \A d \in Domains : row[d].status = "trialing" /\ domain[d] = "active" /\ mail[d]
  BY DEF Init
<1>3. InTurnOnly /\ Told
  BY <1>1 DEF InTurnOnly, Told
<1>4. Progressing
  BY <1>1 DEF Progressing, Progress, Paying
<1>5. Stopping /\ Fresh /\ Pursued /\ Settled
  BY <1>1, <1>2 DEF Stopping, Fresh, Pursued, Settled, SweepWriting
<1> QED BY <1>3, <1>4, <1>5 DEF OrderInv

-----------------------------------------------------------------------------
(* A handler at work. *)

\* While a handler is at work on an event, nothing else is, and the event is the
\* first that is owed.
LEMMA HandlerAlone ==
  ASSUME Ready, NEW e \in EventIds, handler[e].at # "idle"
  PROVE  /\ e \in owed /\ e \in recorded /\ e \in 1..Len(emitted)
         /\ \A f \in owed : e <= f
         /\ sweep.at = "idle" /\ \A d \in Domains : leaving[d] = "no"
         /\ \A f \in EventIds \ {e} : handler[f].at = "idle"
<1>1. e \in owed /\ e \in recorded /\ \A f \in owed : e <= f
  BY DEF Ready, OrderInv, InTurnOnly
<1>2. e \in 1..Len(emitted)
  BY DEF Ready, IInv, EventsAreTrue
<1>3. /\ sweep.at = "idle" /\ \A d \in Domains : leaving[d] = "no"
      /\ \A f \in EventIds \ {e} : handler[f].at = "idle"
  BY DEF Ready, EndedInv, Serial
<1> QED BY <1>1, <1>2, <1>3

\* A last attempt that was answered before an event came leaves that event to
\* report a status only.
LEMMA AnsweredBefore ==
  ASSUME Ready, NEW e \in owed, NEW f, NEW k, NEW s, LastIs(f, k, s), f \notin owed
  PROVE  Kind(e) = "updated" /\ emitted[e].status = s
<1>1. Len(emitted) \in Nat /\ owed \subseteq 1..Len(emitted)
  BY LenProperties DEF Ready, IInv, TypeOK, EventsAreTrue
<1>2. f \in 1..Len(emitted) /\ e \in 1..Len(emitted)
  BY <1>1 DEF LastIs
<1>3. ~(e < f)
  BY <1>2 DEF Ready, OrderInv, InTurnOnly
<1>4. f < e
  BY <1>1, <1>2, <1>3
<1> QED BY <1>2, <1>4 DEF LastIs, Kind

\* Where the first event owed is not of the trial, no event owed is, and the trial
\* is over.
LEMMA LateFirst ==
  ASSUME Ready, NEW e \in owed, \A f \in owed : e <= f, ~Early(emitted[e])
  PROVE  stripe # "trialing" /\ \A f \in owed : ~Early(emitted[f])
<1>1. Len(emitted) \in Nat /\ owed \subseteq 1..Len(emitted)
  BY LenProperties DEF Ready, IInv, TypeOK, EventsAreTrue
<1>2. stripe # "trialing"
  BY <1>1 DEF Ready, OrderInv, Told
<1>3. ASSUME NEW f \in owed, Early(emitted[f]) PROVE FALSE
  <2>1. f # e /\ e <= f /\ f \in 1..Len(emitted) /\ e \in 1..Len(emitted)
    BY <1>1, <1>3
  <2>2. e < f
    BY <1>1, <2>1
  <2> QED BY <1>3, <2>1, <2>2 DEF Ready, OrderInv, Told
<1> QED BY <1>2, <1>3

\* What a step of a handler keeps by its shape: the turn, and the other handlers.
HandlerMoves(e, h) ==
    /\ handler' = [handler EXCEPT ![e] = h]
    /\ UNCHANGED <<emitted, stripe, recorded, sweep>>
    /\ \/ owed' = owed /\ h.at # "idle"
       \/ owed' = owed \ {e} /\ h = Idle

LEMMA TurnStays ==
  ASSUME Ready, NEW e \in EventIds, handler[e].at # "idle", NEW h, HandlerMoves(e, h)
  PROVE  /\ InTurnOnly' /\ Told'
         /\ handler'[e] = h /\ \A f \in EventIds \ {e} : handler'[f] = handler[f]
<1>1. handler'[e] = h /\ \A f \in EventIds \ {e} : handler'[f] = handler[f]
  BY DEF HandlerMoves, Ready, IInv, TypeOK
<1>2. Told'
  BY DEF HandlerMoves, Ready, OrderInv, Told, Early
<1>3. /\ e \in owed /\ e \in recorded
      /\ \A f \in owed : e <= f
      /\ \A f \in EventIds \ {e} : handler[f].at = "idle"
  BY HandlerAlone
<1>4. \A f \in owed : f \in 1..Len(emitted) /\ f \in Nat
  BY LenProperties DEF Ready, IInv, TypeOK, EventsAreTrue
<1>5. \A g \in owed, f \in 1..Len(emitted) : g < f => f \in owed
  BY DEF Ready, OrderInv, InTurnOnly
<1>6. \A g \in owed \cap recorded : g = e
  BY <1>3 DEF Ready, OrderInv, InTurnOnly
<1>7. recorded' \subseteq 1..Len(emitted')
  BY DEF HandlerMoves, Ready, OrderInv, InTurnOnly
<1>8. CASE owed' = owed /\ h.at # "idle"
  <2>1. emitted' = emitted /\ recorded' = recorded
    BY DEF HandlerMoves
  <2>2. \A g \in owed' \cap recorded' : g \in EventIds /\ handler'[g].at # "idle"
    BY <1>1, <1>6, <1>8, <2>1
  <2>3. \A g \in EventIds : handler'[g].at # "idle" =>
           g \in owed' \cap recorded' /\ \A f \in owed' : g <= f
    BY <1>1, <1>3, <1>8, <2>1
  <2>4. \A g \in owed', f \in 1..Len(emitted') : g < f => f \in owed'
    BY <1>5, <1>8, <2>1
  <2>5. InTurnOnly'
    BY <1>7, <2>2, <2>3, <2>4 DEF InTurnOnly
  <2> QED BY <1>1, <1>2, <2>5
<1>9. CASE owed' = owed \ {e} /\ h = Idle
  <2>1. emitted' = emitted /\ recorded' = recorded
    BY DEF HandlerMoves
  <2>2. \A g \in EventIds : handler'[g].at = "idle"
    BY <1>1, <1>3, <1>9 DEF Idle
  <2>3. \A g \in owed', f \in 1..Len(emitted') : g < f => f \in owed'
    <3> SUFFICES ASSUME NEW g \in owed', NEW f \in 1..Len(emitted'), g < f PROVE f \in owed'
      OBVIOUS
    <3>1. g \in owed /\ f \in owed /\ e <= g /\ g \in Nat /\ e \in Nat /\ f \in Nat
      BY <1>3, <1>4, <1>5, <1>9, <2>1
    <3>2. f # e
      BY <3>1
    <3> QED BY <1>9, <3>1, <3>2
  <2>4. owed' \cap recorded' = {}
    BY <1>6, <1>9, <2>1
  <2>5. InTurnOnly'
    BY <1>7, <2>2, <2>3, <2>4 DEF InTurnOnly
  <2> QED BY <1>1, <1>2, <2>5
<1> QED BY <1>8, <1>9 DEF HandlerMoves

\* The handlers that are idle have nothing to show, and revive nothing.
LEMMA OthersIdle ==
  ASSUME Ready, NEW e \in EventIds, handler[e].at # "idle", NEW h, HandlerMoves(e, h)
  PROVE  /\ Progress(e)' => Progressing'
         /\ \A d, stages : "idle" \notin stages =>
               /\ Reviving(d, stages) <=> handler[e].at \in stages /\ handler[e].cur = d
               /\ Reviving(d, stages)' <=> h.at \in stages /\ h.cur = d
<1>1. handler'[e] = h /\ \A f \in EventIds \ {e} : handler'[f] = handler[f]
  BY TurnStays
<1>2. \A f \in EventIds \ {e} : handler[f].at = "idle" /\ handler'[f].at = "idle"
  BY <1>1, HandlerAlone
<1>3. \A f \in EventIds \ {e} : Progress(f)'
  BY <1>2 DEF Progress, Paying
<1>4. Progress(e)' => Progressing'
  BY <1>3 DEF Progressing
<1> QED BY <1>1, <1>2, <1>4 DEF Reviving

\* What a step of a handler owes to the rows, so that they stay as the last attempt
\* that was handled says.
LEMMA StatusKept ==
  ASSUME Ready, NEW e \in EventIds, handler[e].at # "idle", NEW h, HandlerMoves(e, h),
         ended \subseteq ended', owed' = owed \/ Kind(e) = "updated",
         \A d \in Domains \ ended' : row'[d].status \in Stopped <=> row[d].status \in Stopped
  PROVE  Pursued' /\ Settled'
<1>1. sweep.at = "idle" /\ sweep' = sweep /\ stripe' = stripe /\ emitted' = emitted
  BY HandlerAlone DEF HandlerMoves
<1>2. ASSUME NEW f, NEW k, NEW s, LastIs(f, k, s), k # "updated", f \in owed
      PROVE  LastIs(f, k, s)' /\ f \in owed'
  BY <1>1, <1>2 DEF LastIs, HandlerMoves, Kind
<1>3. ASSUME NEW f, NEW k, NEW s, LastIs(f, k, s) PROVE LastIs(f, k, s)'
  BY <1>1, <1>3 DEF LastIs
<1>4. ASSUME stripe = "past_due"
      PROVE  \E f \in 1..Len(emitted) :
               /\ LastIs(f, "failed", "past_due")
               /\ \/ f \in owed
                  \/ \A d \in Domains \ ended : row[d].status \in Stopped
  BY <1>4 DEF Ready, OrderInv, Pursued
<1>5. ASSUME stripe = "active"
      PROVE  \E f \in 1..Len(emitted) :
               /\ LastIs(f, "succeeded", "active")
               /\ \/ f \in owed
                  \/ \A d \in Domains \ ended : row[d].status \notin Stopped
  BY <1>5 DEF Ready, OrderInv, Settled
<1>6. Pursued'
  <2> SUFFICES ASSUME stripe' = "past_due"
               PROVE  \E f \in 1..Len(emitted') :
                         /\ LastIs(f, "failed", "past_due")'
                         /\ \/ f \in owed'
                            \/ /\ sweep'.at # "settle"
                               /\ \A d \in Domains \ ended' : row'[d].status \in Stopped
    BY DEF Pursued
  <2>1. PICK f \in 1..Len(emitted) :
               /\ LastIs(f, "failed", "past_due")
               /\ \/ f \in owed
                  \/ \A d \in Domains \ ended : row[d].status \in Stopped
    BY <1>1, <1>4
  <2>2. LastIs(f, "failed", "past_due")' /\ f \in 1..Len(emitted')
    BY <1>1, <1>3, <2>1
  <2> QED BY <1>1, <1>2, <2>1, <2>2
<1>7. Settled'
  <2> SUFFICES ASSUME stripe' = "active"
               PROVE  \E f \in 1..Len(emitted') :
                         /\ LastIs(f, "succeeded", "active")'
                         /\ \/ f \in owed'
                            \/ /\ sweep'.at \in {"idle", "retry"}
                               /\ \A d \in Domains \ ended' : row'[d].status \notin Stopped
    BY DEF Settled
  <2>1. PICK f \in 1..Len(emitted) :
               /\ LastIs(f, "succeeded", "active")
               /\ \/ f \in owed
                  \/ \A d \in Domains \ ended : row[d].status \notin Stopped
    BY <1>1, <1>5
  <2>2. LastIs(f, "succeeded", "active")' /\ f \in 1..Len(emitted')
    BY <1>1, <1>3, <2>1
  <2> QED BY <1>1, <1>2, <2>1, <2>2
<1> QED BY <1>6, <1>7

\* The handler of an attempt leaves the rows as the attempt says before it answers;
\* while it is at work no later attempt has been answered.
LEMMA AttemptHandled ==
  ASSUME Ready, NEW e \in EventIds, handler[e].at # "idle", NEW h, HandlerMoves(e, h),
         Kind(e) # "updated",
         \/ owed' = owed
         \/ Kind(e) = "failed" /\ \A d \in Domains \ ended' : row'[d].status \in Stopped
         \/ Kind(e) \in {"succeeded", "zero"}
            /\ \A d \in Domains \ ended' : row'[d].status \notin Stopped
         \/ stripe = "canceled"
  PROVE  Pursued' /\ Settled'
<1>1. sweep.at = "idle" /\ sweep' = sweep /\ stripe' = stripe /\ emitted' = emitted /\ e \in owed
  BY HandlerAlone DEF HandlerMoves
<1>2. ASSUME NEW f, NEW k, NEW s, LastIs(f, k, s)
      PROVE  LastIs(f, k, s)' /\ f \in owed /\ (f \in owed' \/ f = e) /\ emitted[f].kind = k
             /\ f \in 1..Len(emitted')
  <2>1. f \in owed
    BY <1>1, <1>2, AnsweredBefore
  <2> QED BY <1>1, <1>2, <2>1 DEF LastIs, HandlerMoves
<1>3. Pursued'
  <2> SUFFICES ASSUME stripe' = "past_due"
               PROVE  \E f \in 1..Len(emitted') :
                         /\ LastIs(f, "failed", "past_due")'
                         /\ \/ f \in owed'
                            \/ /\ sweep'.at # "settle"
                               /\ \A d \in Domains \ ended' : row'[d].status \in Stopped
    BY DEF Pursued
  <2>1. PICK f : LastIs(f, "failed", "past_due")
    BY <1>1 DEF Ready, OrderInv, Pursued
  <2>2. /\ LastIs(f, "failed", "past_due")' /\ (f \in owed' \/ f = e)
        /\ emitted[f].kind = "failed" /\ f \in 1..Len(emitted') /\ f \in owed
    BY <1>2, <2>1
  <2> QED BY <1>1, <2>2 DEF Kind
<1>4. Settled'
  <2> SUFFICES ASSUME stripe' = "active"
               PROVE  \E f \in 1..Len(emitted') :
                         /\ LastIs(f, "succeeded", "active")'
                         /\ \/ f \in owed'
                            \/ /\ sweep'.at \in {"idle", "retry"}
                               /\ \A d \in Domains \ ended' : row'[d].status \notin Stopped
    BY DEF Settled
  <2>1. PICK f : LastIs(f, "succeeded", "active")
    BY <1>1 DEF Ready, OrderInv, Settled
  <2>2. /\ LastIs(f, "succeeded", "active")' /\ (f \in owed' \/ f = e)
        /\ emitted[f].kind = "succeeded" /\ f \in 1..Len(emitted') /\ f \in owed
    BY <1>2, <2>1
  <2> QED BY <1>1, <2>2 DEF Kind
<1> QED BY <1>3, <1>4

\* Nothing is stopped while an event of the trial is being handled.
LEMMA FreshStays ==
  ASSUME Ready, NEW e \in EventIds, handler[e].at # "idle", NEW h, HandlerMoves(e, h),
         ended \subseteq ended',
         Early(emitted[e]) =>
            \A d \in Domains \ ended' :
               row'[d].status = "trialing" /\ domain'[d] = "active" /\ mail'[d]
  PROVE  Fresh'
<1>1. sweep.at = "idle" /\ sweep' = sweep /\ stripe' = stripe /\ emitted' = emitted
      /\ owed' \subseteq owed /\ e \in owed /\ \A f \in owed : e <= f
  BY HandlerAlone DEF HandlerMoves
<1>2. CASE Early(emitted[e])
  BY <1>1, <1>2 DEF Fresh
<1>3. CASE ~Early(emitted[e])
  <2>1. stripe # "trialing" /\ \A f \in owed : ~Early(emitted[f])
    BY <1>1, <1>3, LateFirst
  <2> QED BY <1>1, <2>1 DEF Fresh, Early
<1> QED BY <1>2, <1>3

\* What is stopped when a handler is at work, before and after its step.
LEMMA StoppedNow ==
  ASSUME Ready, NEW e \in EventIds, handler[e].at # "idle"
  PROVE  /\ \A d \in Domains : row[d].status = "canceled" => d \in ended
         /\ \A d \in Domains \ ended :
               /\ ~mail[d] => domain[d] = "suspended"
                              \/ (handler[e].at = "mailOn" /\ handler[e].cur = d)
               /\ domain[d] = "suspended" =>
                     row[d].status = "suspended"
                     \/ (handler[e].at \in Restoring /\ handler[e].cur = d)
<1>1. sweep.at = "idle" /\ \A f \in EventIds \ {e} : handler[f].at = "idle"
  BY HandlerAlone
<1>2. \A d : /\ Reviving(d, {"mailOn"}) => handler[e].at = "mailOn" /\ handler[e].cur = d
             /\ Reviving(d, Restoring) => handler[e].at \in Restoring /\ handler[e].cur = d
  BY <1>1 DEF Reviving, Restoring
<1> QED BY <1>1, <1>2 DEF Ready, OrderInv, Stopping

LEMMA StoppedThen ==
  ASSUME Ready, NEW e \in EventIds, handler[e].at # "idle", NEW h, HandlerMoves(e, h),
         \A d \in Domains : row'[d].status = "canceled" => d \in ended',
         \A d \in Domains \ ended' :
               /\ ~mail'[d] => domain'[d] = "suspended" \/ (h.at = "mailOn" /\ h.cur = d)
               /\ domain'[d] = "suspended" =>
                     row'[d].status = "suspended" \/ (h.at \in Restoring /\ h.cur = d)
  PROVE  Stopping'
<1>1. sweep.at = "idle" /\ sweep' = sweep
  BY HandlerAlone DEF HandlerMoves
<1>2. \A d : /\ h.at = "mailOn" /\ h.cur = d => Reviving(d, {"mailOn"})'
             /\ h.at \in Restoring /\ h.cur = d => Reviving(d, Restoring)'
  BY TurnStays DEF Reviving
<1> QED BY <1>1, <1>2 DEF Stopping, SweepWriting

\* The parts of a handler's step together.
LEMMA HandlerOrder ==
  ASSUME Ready, NEW e \in EventIds, handler[e].at # "idle", NEW h, HandlerMoves(e, h),
         Progress(e)', Stopping', Fresh', Pursued', Settled'
  PROVE  OrderInv'
BY TurnStays, OthersIdle DEF OrderInv

\* Load: the rows are as they are, and what is to be done follows from them.
LEMMA LoadOrder ==
  ASSUME Ready, NEW e \in EventIds, Load(e)
  PROVE  OrderInv'
<1> USE DEF HandlerFrame, stripeVars, rowVars, domainVars
<1>0. handler[e].at # "idle" /\ handler[e].at = "load" /\ e \in 1..Len(emitted)
  BY HandlerAlone DEF Load, At
<1>1. /\ UNCHANGED <<row, ended, domain, mail, emitted, stripe, recorded, sweep>>
  BY DEF Load
<1>2. emitted[e] \in Event /\ row \in [Domains -> Row]
  BY <1>0 DEF Ready, IInv, TypeOK
<1>3. Kind(e) \in {"failed", "succeeded", "zero", "updated", "deleted"}
  BY <1>2 DEF Event, Kind
<1>4. /\ \A d \in Domains : row[d].status = "canceled" => d \in ended
      /\ \A d \in Domains \ ended : /\ ~mail[d] => domain[d] = "suspended"
                                    /\ domain[d] = "suspended" => row[d].status = "suspended"
  BY <1>0, StoppedNow DEF Restoring
<1>5. ASSUME NEW h, HandlerMoves(e, h), Progress(e)', Pursued', Settled'
      PROVE  OrderInv'
  <2>1. Stopping'
    BY <1>0, <1>1, <1>4, <1>5, StoppedThen
  <2>2. e \in owed
    BY <1>0, HandlerAlone
  <2>3. Fresh'
    BY <1>0, <1>1, <1>5, <2>2, FreshStays DEF Ready, OrderInv, Fresh
  <2> QED BY <1>0, <1>5, <2>1, <2>3, HandlerOrder
<1>6. CASE Live = {}
  <2>1. HandlerMoves(e, Idle)
    BY <1>1, <1>6 DEF Load, Finish, HandlerMoves
  <2>2. Domains \ ended = {}
    BY <1>4, <1>6 DEF Live
  <2>3. Progress(e)'
    <3>1. handler'[e] = Idle
      BY <1>0, <2>1, TurnStays
    <3> QED BY <3>1 DEF Progress, Idle, Paying
  <2>4. Kind(e) = "deleted" => stripe = "canceled"
    BY <1>0 DEF Ready, OrderInv, Told, Kind
  <2>5. CASE Kind(e) = "updated"
    <3>1. Pursued' /\ Settled'
      BY <1>0, <1>1, <2>1, <2>5, StatusKept
    <3> QED BY <1>5, <2>1, <2>3, <3>1
  <2>6. CASE Kind(e) # "updated"
    <3>1. Pursued' /\ Settled'
      BY <1>0, <1>1, <1>3, <2>1, <2>2, <2>4, <2>6, AttemptHandled
    <3> QED BY <1>5, <2>1, <2>3, <3>1
  <2> QED BY <2>5, <2>6
<1>7. CASE Live # {}
  <2>1. PICK h : /\ h = [at |-> IF Kind(e) \in {"succeeded", "zero"} THEN "save" ELSE "write",
                         todo |-> IF Kind(e) = "failed" THEN Opening ELSE Live,
                         cur |-> None,
                         seen |-> [d \in Domains |-> IF d \in Live THEN row[d] ELSE None]]
                 /\ handler' = [handler EXCEPT ![e] = h] /\ owed' = owed
    BY <1>7 DEF Load, Step
  <2>2. /\ h.at = IF Kind(e) \in {"succeeded", "zero"} THEN "save" ELSE "write"
        /\ h.todo = IF Kind(e) = "failed" THEN Opening ELSE Live
        /\ \A d \in Live : h.seen[d] = row[d]
    BY <2>1 DEF Live
  <2>3. HandlerMoves(e, h)
    BY <1>1, <2>1, <2>2 DEF HandlerMoves
  <2>4. handler'[e] = h
    BY <1>0, <2>3, TurnStays
  <2>5. \A d \in Domains \ ended : d \in Live /\ (d \in Opening <=> row[d].status \notin Stopped)
    BY <1>4 DEF Live, Opening, Stopped
  <2>6. Kind(e)' = Kind(e)
    BY <1>1 DEF Kind
  <2>7. Progress(e)'
    <3>1. CASE Kind(e) \in {"succeeded", "zero"}
      BY <1>1, <2>2, <2>4, <2>5, <2>6, <3>1 DEF Progress, Paying
    <3>2. CASE Kind(e) \in {"failed", "updated", "deleted"}
      BY <1>1, <2>2, <2>4, <2>5, <2>6, <3>2 DEF Progress, Paying
    <3> QED BY <1>3, <3>1, <3>2
  <2>8. Pursued' /\ Settled'
    BY <1>0, <1>1, <2>1, <2>3, StatusKept
  <2> QED BY <1>5, <2>3, <2>7, <2>8
<1> QED BY <1>6, <1>7

\* A failed payment puts every row in grace that is not in grace or suspended.
LEMMA OpenGraceOrder ==
  ASSUME Ready, NEW e \in EventIds, OpenGrace(e)
  PROVE  OrderInv'
<1> USE DEF HandlerFrame, stripeVars, domainVars
<1>0. handler[e].at # "idle" /\ handler[e].at = "write" /\ Kind(e) = "failed" /\ e \in 1..Len(emitted)
  BY HandlerAlone DEF OpenGrace, At
<1>1. /\ UNCHANGED <<ended, domain, mail, emitted, stripe, recorded, sweep>>
      /\ handler' = [handler EXCEPT ![e] = Idle] /\ owed' = owed \ {e}
  BY DEF OpenGrace, Finish
<1>2. HandlerMoves(e, Idle)
  BY <1>1 DEF HandlerMoves
<1>3. row \in [Domains -> Row]
  BY DEF Ready, IInv, TypeOK
<1>4. \A d \in Domains \ ended : d \in handler[e].todo <=> row[d].status \notin Stopped
  BY <1>0 DEF Ready, OrderInv, Progressing, Progress
<1>5. \A d \in Domains : IF d \in handler[e].todo THEN row'[d].status = "grace"
                         ELSE row'[d] = row[d]
  <2> TAKE d \in Domains
  <2>1. row[d] \in Row
    BY <1>3
  <2>2. d \in handler[e].todo =>
           row'[d] = [row[d] EXCEPT !.status = "grace", !.graceEnds = Deadline(emitted[e].inv),
                                    !.failedInvoice = emitted[e].inv]
    BY DEF OpenGrace
  <2>3. d \notin handler[e].todo => row'[d] = row[d]
    BY DEF OpenGrace
  <2> QED BY <2>1, <2>2, <2>3 DEF Row
<1>6. \A d \in Domains \ ended' : row'[d].status \in Stopped
  BY <1>1, <1>4, <1>5 DEF Stopped
<1>7. Pursued' /\ Settled'
  BY <1>0, <1>2, <1>6, AttemptHandled
<1>8. Stopping'
  <2>1. \A d \in Domains : row'[d].status = "canceled" => d \in ended'
    BY <1>0, <1>1, <1>5, StoppedNow
  <2>2. \A d \in Domains \ ended' : /\ ~mail'[d] => domain'[d] = "suspended"
                                    /\ domain'[d] = "suspended" => row'[d].status = "suspended"
    BY <1>0, <1>1, <1>4, <1>5, StoppedNow DEF Restoring, Stopped
  <2> QED BY <1>0, <1>2, <2>1, <2>2, StoppedThen
<1>9. Fresh'
  <2>1. ~Early(emitted[e])
    BY <1>0 DEF Early, Kind
  <2> QED BY <1>0, <1>1, <1>2, <2>1, FreshStays
<1>10. Progress(e)'
  <2>1. handler'[e] = Idle
    BY <1>0, <1>2, TurnStays
  <2> QED BY <2>1 DEF Progress, Idle, Paying
<1> QED BY <1>0, <1>2, <1>7, <1>8, <1>9, <1>10, HandlerOrder

\* A status of Stripe's takes no row into grace, out of it or to an end.
LEMMA WriteStatusOrder ==
  ASSUME Ready, NEW e \in EventIds, WriteStatus(e)
  PROVE  OrderInv'
<1> USE DEF HandlerFrame, stripeVars, domainVars
<1>0. handler[e].at # "idle" /\ handler[e].at = "write" /\ Kind(e) = "updated"
      /\ e \in 1..Len(emitted) /\ e \in owed
  BY HandlerAlone DEF WriteStatus, At
<1>1. /\ UNCHANGED <<ended, domain, mail, emitted, stripe, recorded, sweep>>
      /\ handler' = [handler EXCEPT ![e] = Idle] /\ owed' = owed \ {e}
  BY DEF WriteStatus, Finish
<1>2. HandlerMoves(e, Idle)
  BY <1>1 DEF HandlerMoves
<1>3. row \in [Domains -> Row] /\ emitted[e] \in Event
  BY <1>0 DEF Ready, IInv, TypeOK
<1> DEFINE s == emitted[e].status
<1>4. s \in {"trialing", "past_due", "active"}
  BY <1>0, <1>3 DEF Ready, OrderInv, Told, Kind, Event, SubStatuses
<1>5. \A d \in Domains : IF row[d].status \in Protected(s) THEN row'[d] = row[d]
                         ELSE row'[d].status = s
  <2> TAKE d \in Domains
  <2>1. row[d] \in Row
    BY <1>3
  <2>2. row'[d] = IF row[d].status \in Protected(s) THEN row[d]
                  ELSE [row[d] EXCEPT !.status = s]
    BY DEF WriteStatus
  <2> QED BY <2>1, <2>2 DEF Row
<1>6. s = "trialing" => \A d \in Domains \ ended : row[d].status = "trialing"
                                                  /\ domain[d] = "active" /\ mail[d]
  BY <1>0 DEF Early, Kind, Ready, OrderInv, Fresh
<1>7. \A d \in Domains \ ended :
         /\ row'[d].status \in Stopped <=> row[d].status \in Stopped
         /\ row'[d].status = "suspended" <=> row[d].status = "suspended"
  <2> TAKE d \in Domains \ ended
  <2>1. CASE s = "trialing"
    BY <1>5, <1>6, <2>1 DEF Protected, Stopped
  <2>2. CASE s \in {"past_due", "active"}
    BY <1>5, <2>2 DEF Protected, Stopped
  <2> QED BY <1>4, <2>1, <2>2
<1>8. \A d \in Domains : row'[d].status = "canceled" => row[d].status = "canceled"
  BY <1>4, <1>5
<1>9. Pursued' /\ Settled'
  BY <1>0, <1>1, <1>2, <1>7, StatusKept
<1>10. Stopping'
  <2>1. \A d \in Domains : row'[d].status = "canceled" => d \in ended'
    BY <1>0, <1>1, <1>8, StoppedNow
  <2>2. \A d \in Domains \ ended' : /\ ~mail'[d] => domain'[d] = "suspended"
                                    /\ domain'[d] = "suspended" => row'[d].status = "suspended"
    BY <1>0, <1>1, <1>7, StoppedNow DEF Restoring
  <2> QED BY <1>0, <1>2, <2>1, <2>2, StoppedThen
<1>11. Fresh'
  <2>1. Early(emitted[e]) => s = "trialing"
    BY <1>0 DEF Early, Kind
  <2>2. s = "trialing" => \A d \in Domains \ ended' :
            row'[d].status = "trialing" /\ domain'[d] = "active" /\ mail'[d]
    BY <1>1, <1>5, <1>6
  <2>3. ended \subseteq ended'
    BY <1>1
  <2> HIDE DEF s
  <2> QED BY <1>0, <1>2, <2>1, <2>2, <2>3, FreshStays
<1>12. Progress(e)'
  <2>1. handler'[e] = Idle
    BY <1>0, <1>2, TurnStays
  <2> QED BY <2>1 DEF Progress, Idle, Paying
<1> QED BY <1>0, <1>2, <1>9, <1>10, <1>11, <1>12, HandlerOrder

\* The subscription is deleted: its rows are canceled, and their billing ends.
LEMMA CloseRowsOrder ==
  ASSUME Ready, NEW e \in EventIds, CloseRows(e)
  PROVE  OrderInv'
<1> USE DEF HandlerFrame, stripeVars, domainVars
<1>0. handler[e].at # "idle" /\ handler[e].at = "write" /\ Kind(e) = "deleted" /\ e \in 1..Len(emitted)
  BY HandlerAlone DEF CloseRows, At
<1>1. /\ UNCHANGED <<domain, mail, emitted, stripe, recorded, sweep, owed>>
      /\ ended' = ended \cup handler[e].todo
  BY DEF CloseRows, Step
<1>2. PICK h : h = [handler[e] EXCEPT !.at = "suspend"] /\ handler' = [handler EXCEPT ![e] = h]
  BY DEF CloseRows, Step
<1>3. handler[e] \in HandlerState /\ row \in [Domains -> Row]
  BY DEF Ready, IInv, TypeOK
<1>4. h.at = "suspend"
  BY <1>2, <1>3 DEF HandlerState
<1>5. HandlerMoves(e, h)
  BY <1>1, <1>2, <1>4 DEF HandlerMoves
<1>6. \A d \in Domains : d \notin handler[e].todo => row'[d] = row[d]
  BY <1>3 DEF CloseRows
<1>7. Pursued' /\ Settled'
  BY <1>0, <1>1, <1>5, AttemptHandled
<1>8. Stopping'
  <2>1. \A d \in Domains : row'[d].status = "canceled" => d \in ended'
    BY <1>0, <1>1, <1>6, StoppedNow
  <2>2. \A d \in Domains \ ended' : /\ ~mail'[d] => domain'[d] = "suspended"
                                    /\ domain'[d] = "suspended" => row'[d].status = "suspended"
    BY <1>0, <1>1, <1>6, StoppedNow DEF Restoring
  <2> QED BY <1>0, <1>5, <2>1, <2>2, StoppedThen
<1>9. Fresh'
  <2>1. ~Early(emitted[e]) /\ ended \subseteq ended'
    BY <1>0, <1>1 DEF Early, Kind
  <2> QED BY <1>0, <1>5, <2>1, FreshStays
<1>10. Progress(e)'
  <2>1. handler'[e] = h /\ Kind(e)' = Kind(e)
    BY <1>0, <1>1, <1>5, TurnStays DEF Kind
  <2> QED BY <1>0, <1>4, <2>1 DEF Progress, Paying
<1> QED BY <1>0, <1>5, <1>7, <1>8, <1>9, <1>10, HandlerOrder

\* What a handler of an ended subscription suspends is no longer billed.
LEMMA SuspendOrder ==
  ASSUME Ready, NEW e \in EventIds, SuspendMail(e) \/ \E d \in Domains : SuspendDomain(e, d)
  PROVE  OrderInv'
<1> USE DEF HandlerFrame, stripeVars, rowVars
<1>0. handler[e].at \in {"suspend", "mailOff"} /\ handler[e].at # "idle" /\ e \in 1..Len(emitted)
  BY HandlerAlone DEF SuspendMail, SuspendDomain, At
<1>1. UNCHANGED <<row, ended, emitted, stripe, recorded, sweep>>
  BY DEF SuspendMail, SuspendDomain
<1>2. Kind(e) = "deleted" /\ stripe = "canceled"
  BY <1>0 DEF Ready, OrderInv, Progressing, Progress, Told, Kind
<1>3. handler[e] \in HandlerState /\ handler[e].todo \subseteq ended
      /\ (handler[e].at = "mailOff" => handler[e].cur \in handler[e].todo)
      /\ domain \in [Domains -> {"active", "suspended"}] /\ mail \in [Domains -> BOOLEAN]
  BY <1>0 DEF Ready, IInv, TypeOK, HandlersInOrder, HandlerInOrder
<1>4. \A d \in Domains \ ended : domain'[d] = domain[d] /\ mail'[d] = mail[d]
  BY <1>3 DEF SuspendMail, SuspendDomain, At
<1>5. PICK h : /\ HandlerMoves(e, h)
               /\ h.at \in {"idle", "suspend", "mailOff"}
  <2>1. CASE \E d \in Domains : SuspendDomain(e, d)
    <3>1. PICK d \in Domains : SuspendDomain(e, d)
      BY <2>1
    <3>2. /\ handler' = [handler EXCEPT ![e] = [handler[e] EXCEPT !.at = "mailOff", !.cur = d]]
          /\ owed' = owed
      BY <3>1 DEF SuspendDomain, Step
    <3>3. [handler[e] EXCEPT !.at = "mailOff", !.cur = d].at = "mailOff"
      BY <1>3 DEF HandlerState
    <3> QED BY <1>1, <3>2, <3>3 DEF HandlerMoves
  <2>2. CASE SuspendMail(e)
    <3>1. CASE Finish(e)
      <4>1. HandlerMoves(e, Idle)
        BY <1>1, <3>1 DEF Finish, HandlerMoves
      <4> QED BY <4>1 DEF Idle
    <3>2. CASE ~Finish(e)
      <4>1. PICK g : /\ g = [handler[e] EXCEPT !.at = "suspend",
                               !.todo = handler[e].todo \ {handler[e].cur}, !.cur = None]
                     /\ handler' = [handler EXCEPT ![e] = g] /\ owed' = owed
        BY <2>2, <3>2 DEF SuspendMail, NextDomain, Step
      <4>2. g.at = "suspend"
        BY <1>3, <4>1 DEF HandlerState
      <4> QED BY <1>1, <4>1, <4>2 DEF HandlerMoves
    <3> QED BY <3>1, <3>2
  <2> QED BY <2>1, <2>2
<1>6. Pursued' /\ Settled'
  BY <1>0, <1>2, <1>5, AttemptHandled
<1>7. Stopping'
  <2>1. \A d \in Domains : row'[d].status = "canceled" => d \in ended'
    BY <1>0, <1>1, StoppedNow
  <2>2. \A d \in Domains \ ended' : /\ ~mail'[d] => domain'[d] = "suspended"
                                    /\ domain'[d] = "suspended" => row'[d].status = "suspended"
    BY <1>0, <1>1, <1>4, StoppedNow DEF Restoring
  <2> QED BY <1>0, <1>5, <2>1, <2>2, StoppedThen
<1>8. Fresh'
  <2>1. ~Early(emitted[e]) /\ ended \subseteq ended'
    BY <1>1, <1>2 DEF Early, Kind
  <2> QED BY <1>0, <1>5, <2>1, FreshStays
<1>9. Progress(e)'
  <2>1. handler'[e] = h /\ Kind(e)' = Kind(e)
    BY <1>0, <1>1, <1>5, TurnStays DEF Kind
  <2> QED BY <1>2, <1>5, <2>1 DEF Progress, Paying
<1> QED BY <1>0, <1>5, <1>6, <1>7, <1>8, <1>9, HandlerOrder

\* What a handler of a payment knows.
LEMMA PayingNow ==
  ASSUME Ready, NEW e \in EventIds, handler[e].at \in Paying
  PROVE  /\ handler[e].at # "idle" /\ handler[e] \in HandlerState /\ e \in owed
         /\ Kind(e) \in {"succeeded", "zero"}
         /\ handler[e].todo \cap ended = {} /\ handler[e].todo \subseteq Domains
         /\ handler[e].at # "save" => handler[e].cur \in handler[e].todo
         /\ Early(emitted[e]) <=> Kind(e) = "zero"
         /\ Early(emitted[e]) =>
               \A d \in Domains \ ended : row[d].status = "trialing" /\ domain[d] = "active" /\ mail[d]
         /\ \A d \in Domains \ ended :
               IF d \notin handler[e].todo \/ (handler[e].at # "save" /\ d = handler[e].cur)
               THEN row[d].status \notin Stopped ELSE handler[e].seen[d] = row[d]
<1>1. handler[e].at # "idle" /\ e \in owed
  BY HandlerAlone DEF Paying
<1>2. Progress(e)
  BY DEF Ready, OrderInv, Progressing
<1>3. Kind(e) \in {"succeeded", "zero"}
  BY <1>2 DEF Progress
<1>4. handler[e] \in HandlerState
  BY DEF Ready, IInv, TypeOK
<1>5. handler[e].todo \cap ended = {} /\ handler[e].todo \subseteq Domains
  BY <1>4 DEF Ready, EndedInv, NothingStale, Overwriting, Paying, HandlerState
<1>6. handler[e].at # "save" => handler[e].cur \in handler[e].todo
  BY DEF Ready, IInv, HandlersInOrder, HandlerInOrder, Paying
<1>7. Early(emitted[e]) <=> Kind(e) = "zero"
  BY <1>3 DEF Early, Kind
<1>8. Early(emitted[e]) =>
         \A d \in Domains \ ended : row[d].status = "trialing" /\ domain[d] = "active" /\ mail[d]
  BY <1>1 DEF Ready, OrderInv, Fresh
<1>9. \A d \in Domains \ ended :
         IF d \notin handler[e].todo \/ (handler[e].at # "save" /\ d = handler[e].cur)
         THEN row[d].status \notin Stopped ELSE handler[e].seen[d] = row[d]
  BY <1>2 DEF Progress
<1> QED BY <1>1, <1>3, <1>4, <1>5, <1>6, <1>7, <1>8, <1>9

\* A payment takes a row out of grace and suspension as it saves it.
LEMMA SaveRowOrder ==
  ASSUME Ready, NEW e \in EventIds, NEW d \in Domains, SaveRow(e, d)
  PROVE  OrderInv'
<1> USE DEF HandlerFrame, stripeVars, domainVars
<1>0. handler[e].at = "save" /\ handler[e].at \in Paying /\ handler[e].at # "idle"
      /\ d \in handler[e].todo
  BY DEF SaveRow, At, Paying
<1>1. UNCHANGED <<domain, mail, ended, emitted, stripe, recorded, sweep, owed>>
  BY DEF SaveRow, Step
<1>2. /\ handler[e] \in HandlerState /\ Kind(e) \in {"succeeded", "zero"}
      /\ d \notin ended /\ handler[e].seen[d] = row[d]
      /\ Early(emitted[e]) <=> Kind(e) = "zero"
      /\ Early(emitted[e]) =>
             \A x \in Domains \ ended : row[x].status = "trialing" /\ domain[x] = "active" /\ mail[x]
  BY <1>0, PayingNow
<1>3. row \in [Domains -> Row]
  BY DEF Ready, IInv, TypeOK
<1>4. PICK h : /\ h = [[handler[e] EXCEPT !.cur = d] EXCEPT !.at = "check"]
               /\ handler' = [handler EXCEPT ![e] = h]
  BY DEF SaveRow, Step
<1>5. h.at = "check" /\ h.cur = d /\ h.todo = handler[e].todo /\ h.seen = handler[e].seen
  BY <1>2, <1>4 DEF HandlerState
<1>6. HandlerMoves(e, h)
  BY <1>1, <1>4, <1>5 DEF HandlerMoves
<1>7. /\ row'[d].status = PaidStatus(Kind(e) = "succeeded", row[d].status)
      /\ \A x \in Domains \ {d} : row'[x] = row[x]
  <2>1. row'[d].status = Saved(row[d].status, row[d].status,
                               PaidStatus(Kind(e) = "succeeded", row[d].status))
    BY <1>2, <1>3 DEF SaveRow
  <2>2. \A x \in Domains \ {d} : row'[x] = row[x]
    BY <1>3 DEF SaveRow
  <2> QED BY <2>1, <2>2 DEF Saved
<1>8. row'[d].status \in {"active", "trialing"} /\ (Kind(e) = "zero" => row'[d].status = "trialing")
  BY <1>2, <1>7 DEF PaidStatus
<1>9. Pursued' /\ Settled'
  BY <1>0, <1>1, <1>2, <1>6, AttemptHandled
<1>10. Stopping'
  <2>1. \A x \in Domains : row'[x].status = "canceled" => x \in ended'
    BY <1>0, <1>1, <1>7, <1>8, StoppedNow
  <2>2. \A x \in Domains \ ended' :
             /\ ~mail'[x] => domain'[x] = "suspended"
             /\ domain'[x] = "suspended" => row'[x].status = "suspended" \/ x = d
    BY <1>0, <1>1, <1>7, StoppedNow DEF Restoring
  <2> QED BY <1>0, <1>5, <1>6, <2>1, <2>2, StoppedThen DEF Restoring
<1>11. Fresh'
  <2>1. Early(emitted[e]) => \A x \in Domains \ ended' :
            row'[x].status = "trialing" /\ domain'[x] = "active" /\ mail'[x]
    BY <1>1, <1>2, <1>7, <1>8
  <2>2. ended \subseteq ended'
    BY <1>1
  <2> QED BY <1>0, <1>6, <2>1, <2>2, FreshStays
<1>12. Progress(e)'
  <2>1. handler'[e] = h /\ Kind(e)' = Kind(e)
    BY <1>0, <1>1, <1>6, TurnStays DEF Kind
  <2>2. domain[d] = "suspended" => Restorable(handler[e].seen[d].status)
    BY <1>0, <1>2, StoppedNow DEF Restoring, Restorable
  <2>3. \A x \in Domains \ ended' :
           IF x \notin h.todo \/ x = d THEN row'[x].status \notin Stopped
           ELSE h.seen[x] = row'[x]
    BY <1>0, <1>1, <1>5, <1>7, <1>8, PayingNow DEF Stopped
  <2> QED BY <1>1, <1>2, <1>5, <2>1, <2>2, <2>3 DEF Progress, Paying
<1> QED BY <1>0, <1>6, <1>9, <1>10, <1>11, <1>12, HandlerOrder

\* Done with one domain, which is served again, a handler goes on with the next.
LEMMA GoOnOrder ==
  ASSUME Ready, NEW e \in EventIds, handler[e].at \in Restoring, NextDomain(e, "save"),
         UNCHANGED <<row, ended, emitted, stripe, recorded, sweep>>,
         \A x \in Domains \ {handler[e].cur} : domain'[x] = domain[x] /\ mail'[x] = mail[x],
         domain'[handler[e].cur] = "active", mail'[handler[e].cur]
  PROVE  OrderInv'
<1> DEFINE d == handler[e].cur
           rest == handler[e].todo \ {d}
<1>0. handler[e].at \in Paying /\ handler[e].at # "save" /\ handler[e].at # "idle"
  BY DEF Restoring, Paying
<1>1. /\ handler[e] \in HandlerState /\ Kind(e) \in {"succeeded", "zero"}
      /\ d \in handler[e].todo /\ d \in Domains
      /\ Early(emitted[e]) =>
             \A x \in Domains \ ended : row[x].status = "trialing" /\ domain[x] = "active" /\ mail[x]
  BY <1>0, PayingNow
<1>2. \A x \in Domains \ ended :
         IF x \notin rest THEN row[x].status \notin Stopped ELSE handler[e].seen[x] = row[x]
  BY <1>0, PayingNow
<1>3. \A x \in Domains \ ended : /\ ~mail'[x] => domain'[x] = "suspended"
                                 /\ domain'[x] = "suspended" => row[x].status = "suspended"
  BY <1>0, StoppedNow
<1>4. \A x \in Domains : row[x].status = "canceled" => x \in ended
  BY <1>0, StoppedNow
<1>5. ASSUME NEW h, HandlerMoves(e, h), Progress(e)', Pursued', Settled'
      PROVE  OrderInv'
  <2>1. Stopping'
    BY <1>0, <1>3, <1>4, <1>5, StoppedThen
  <2>2. Early(emitted[e]) => \A x \in Domains \ ended' :
            row'[x].status = "trialing" /\ domain'[x] = "active" /\ mail'[x]
    BY <1>1
  <2>3. Fresh'
    BY <1>0, <1>5, <2>2, FreshStays
  <2> QED BY <1>0, <1>5, <2>1, <2>3, HandlerOrder
<1>6. CASE rest = {}
  <2>1. HandlerMoves(e, Idle)
    BY <1>6 DEF NextDomain, Finish, HandlerMoves
  <2>2. Progress(e)'
    <3>1. handler'[e] = Idle
      BY <1>0, <2>1, TurnStays
    <3> QED BY <3>1 DEF Progress, Idle, Paying
  <2>3. \A x \in Domains \ ended' : row'[x].status \notin Stopped
    BY <1>2, <1>6
  <2>4. Pursued' /\ Settled'
    BY <1>0, <1>1, <2>1, <2>3, AttemptHandled
  <2> QED BY <1>5, <2>1, <2>2, <2>4
<1>7. CASE rest # {}
  <2>1. PICK h : /\ h = [handler[e] EXCEPT !.at = "save", !.todo = rest, !.cur = None]
                 /\ handler' = [handler EXCEPT ![e] = h] /\ owed' = owed
    BY <1>7 DEF NextDomain, Step
  <2>2. h.at = "save" /\ h.todo = rest /\ h.seen = handler[e].seen
    BY <1>1, <2>1 DEF HandlerState
  <2>3. HandlerMoves(e, h)
    BY <2>1, <2>2 DEF HandlerMoves
  <2>4. handler'[e] = h /\ Kind(e)' = Kind(e)
    BY <1>0, <2>3, TurnStays DEF Kind
  <2> HIDE DEF rest
  <2>5. Progress(e)'
    BY <1>1, <1>2, <2>2, <2>4 DEF Progress, Paying
  <2>6. Pursued' /\ Settled'
    BY <1>0, <1>1, <2>1, <2>3, AttemptHandled
  <2> QED BY <1>5, <2>3, <2>5, <2>6
<1> QED BY <1>6, <1>7

\* One more stage with the same domain, whose row is already paid.
LEMMA ReviveOrder ==
  ASSUME Ready, NEW e \in EventIds, handler[e].at \in Restoring,
         NEW stage \in {"activate", "mailOn"},
         Step(e, [handler[e] EXCEPT !.at = stage]),
         UNCHANGED <<row, ended, mail, emitted, stripe, recorded, sweep>>,
         \A x \in Domains \ {handler[e].cur} : domain'[x] = domain[x],
         stage = "activate" => domain' = domain /\ domain[handler[e].cur] = "suspended",
         stage = "mailOn" => domain'[handler[e].cur] = "active"
  PROVE  OrderInv'
<1> DEFINE d == handler[e].cur
<1>0. handler[e].at \in Paying /\ handler[e].at # "save" /\ handler[e].at # "idle"
  BY DEF Restoring, Paying
<1>1. /\ handler[e] \in HandlerState /\ Kind(e) \in {"succeeded", "zero"}
      /\ d \in handler[e].todo /\ d \in Domains /\ d \notin ended
      /\ Early(emitted[e]) =>
             \A x \in Domains \ ended : row[x].status = "trialing" /\ domain[x] = "active" /\ mail[x]
  BY <1>0, PayingNow
<1>2. \A x \in Domains \ ended :
         IF x \notin handler[e].todo \/ x = d THEN row[x].status \notin Stopped
         ELSE handler[e].seen[x] = row[x]
  BY <1>0, PayingNow
<1>3. PICK h : /\ h = [handler[e] EXCEPT !.at = stage]
               /\ handler' = [handler EXCEPT ![e] = h] /\ owed' = owed
  BY DEF Step
<1>4. h.at = stage /\ h.todo = handler[e].todo /\ h.seen = handler[e].seen /\ h.cur = d
  BY <1>1, <1>3 DEF HandlerState
<1>5. HandlerMoves(e, h)
  BY <1>3, <1>4 DEF HandlerMoves
<1>6. handler'[e] = h /\ Kind(e)' = Kind(e)
  BY <1>0, <1>5, TurnStays DEF Kind
<1>7. Progress(e)'
  BY <1>1, <1>2, <1>4, <1>6 DEF Progress, Paying
<1>8. Pursued' /\ Settled'
  BY <1>0, <1>1, <1>3, <1>5, AttemptHandled
<1>9. Stopping'
  <2>1. \A x \in Domains : row'[x].status = "canceled" => x \in ended'
    BY <1>0, StoppedNow
  <2>2. \A x \in Domains \ (ended \cup {d}) :
           /\ ~mail[x] => domain[x] = "suspended"
           /\ domain[x] = "suspended" => row[x].status = "suspended"
    BY <1>0, StoppedNow
  <2>3. h.at \in Restoring
    BY <1>4 DEF Restoring
  <2>4. \A x \in Domains \ ended' :
           /\ ~mail'[x] => domain'[x] = "suspended" \/ (h.at = "mailOn" /\ h.cur = x)
           /\ domain'[x] = "suspended" =>
                 row'[x].status = "suspended" \/ (h.at \in Restoring /\ h.cur = x)
    BY <1>4, <2>2, <2>3
  <2> QED BY <1>0, <1>5, <2>1, <2>4, StoppedThen
<1>10. Fresh'
  <2>1. Early(emitted[e]) => stage = "mailOn"
    BY <1>1
  <2>2. Early(emitted[e]) => \A x \in Domains \ ended' :
            row'[x].status = "trialing" /\ domain'[x] = "active" /\ mail'[x]
    BY <1>1, <2>1
  <2> QED BY <1>0, <1>5, <2>2, FreshStays
<1> QED BY <1>0, <1>5, <1>7, <1>8, <1>9, <1>10, HandlerOrder

\* A domain that was suspended for non-payment is restored before the next.
LEMMA RestoreOrder ==
  ASSUME Ready, NEW e \in EventIds, CheckDomain(e) \/ ActivateDomain(e) \/ ActivateMail(e)
  PROVE  OrderInv'
<1> USE DEF HandlerFrame, stripeVars, rowVars, domainVars
<1> DEFINE d == handler[e].cur
<1>0. handler[e].at \in Restoring /\ handler[e].at \in Paying /\ handler[e].at # "idle"
      /\ handler[e].at # "save"
  BY DEF CheckDomain, ActivateDomain, ActivateMail, At, Restoring, Paying
<1>1. UNCHANGED <<row, ended, emitted, stripe, recorded, sweep>>
  BY DEF CheckDomain, ActivateDomain, ActivateMail
<1>2. d \in Domains /\ d \notin ended
  BY <1>0, PayingNow
<1>3. domain \in [Domains -> {"active", "suspended"}] /\ mail \in [Domains -> BOOLEAN]
  BY DEF Ready, IInv, TypeOK
<1>4. CASE CheckDomain(e)
  <2>0. handler[e].at = "check" /\ UNCHANGED <<domain, mail>>
    BY <1>4 DEF CheckDomain, At
  <2>1. CASE Restorable(handler[e].seen[d].status) /\ domain[d] = "suspended"
    <3>1. Step(e, [handler[e] EXCEPT !.at = "activate"])
      BY <1>4, <2>1 DEF CheckDomain
    <3> QED BY <1>0, <1>1, <2>0, <2>1, <3>1, ReviveOrder
  <2>2. CASE ~(Restorable(handler[e].seen[d].status) /\ domain[d] = "suspended")
    <3>1. NextDomain(e, "save")
      BY <1>4, <2>2 DEF CheckDomain
    <3>2. domain[d] = "active"
      BY <1>2, <1>3, <2>0, <2>2 DEF Ready, OrderInv, Progressing, Progress
    <3>3. mail[d]
      BY <1>0, <1>2, <2>0, <3>2, StoppedNow
    <3> QED BY <1>0, <1>1, <2>0, <3>1, <3>2, <3>3, GoOnOrder
  <2> QED BY <2>1, <2>2
<1>5. CASE ActivateDomain(e)
  <2>1. domain' = [domain EXCEPT ![d] = "active"] /\ mail' = mail
        /\ Step(e, [handler[e] EXCEPT !.at = "mailOn"])
    BY <1>5 DEF ActivateDomain
  <2>2. domain'[d] = "active" /\ \A x \in Domains \ {d} : domain'[x] = domain[x]
    BY <1>2, <1>3, <2>1
  <2> QED BY <1>0, <1>1, <2>1, <2>2, ReviveOrder
<1>6. CASE ActivateMail(e)
  <2>1. mail' = [mail EXCEPT ![d] = TRUE] /\ domain' = domain /\ NextDomain(e, "save")
        /\ handler[e].at = "mailOn"
    BY <1>6 DEF ActivateMail, At
  <2>2. mail'[d] /\ \A x \in Domains \ {d} : mail'[x] = mail[x]
    BY <1>2, <1>3, <2>1
  <2>3. domain[d] = "active"
    BY <2>1 DEF Ready, OrderInv, Progressing, Progress
  <2> QED BY <1>0, <1>1, <2>1, <2>2, <2>3, GoOnOrder
<1> QED BY <1>4, <1>5, <1>6

\* Every step of a handler (Handle).
LEMMA HandleOrder ==
  ASSUME Ready, NEW e \in EventIds, Handle(e)
  PROVE  OrderInv'
BY LoadOrder, OpenGraceOrder, WriteStatusOrder, CloseRowsOrder, SuspendOrder, SaveRowOrder,
   RestoreOrder DEF Handle

-----------------------------------------------------------------------------
(* The sweep, cancellations and deliveries. *)

\* Where no handler is at work, a step of something else leaves the events alone.
LEMMA WhileIdle ==
  ASSUME Ready, \A e \in EventIds : handler[e].at = "idle",
         UNCHANGED <<stripe, emitted, owed, recorded, handler>>
  PROVE  /\ InTurnOnly' /\ Told' /\ Progressing'
         /\ \A d, stages : "idle" \notin stages => ~Reviving(d, stages) /\ ~Reviving(d, stages)'
<1>1. InTurnOnly' /\ Told'
  BY DEF Ready, OrderInv, InTurnOnly, Told, Early
<1>2. Progressing'
  BY DEF Progressing, Progress, Paying
<1> QED BY <1>1, <1>2 DEF Reviving

\* What is stopped while no handler is at work.
LEMMA StoppedIdle ==
  ASSUME Ready, \A e \in EventIds : handler[e].at = "idle"
  PROVE  /\ \A d \in Domains : row[d].status = "canceled" <=> d \in ended
         /\ \A d \in Domains \ ended :
               /\ ~mail[d] => domain[d] = "suspended"
               /\ domain[d] = "suspended" =>
                     \/ row[d].status = "suspended"
                     \/ sweep.at \in {"mailOff", "save"} /\ sweep.cur = d
<1>1. \A d, stages : "idle" \notin stages => ~Reviving(d, stages)
  BY DEF Reviving
<1>2. "idle" \notin {"mailOn"} /\ "idle" \notin Restoring
  BY DEF Restoring
<1>3. \A d : ~Reviving(d, {"mailOn"}) /\ ~Reviving(d, Restoring)
  BY <1>1, <1>2
<1>4. ended \subseteq Domains
  BY DEF Ready, IInv, TypeOK
<1> QED BY <1>3, <1>4 DEF Ready, OrderInv, Stopping, EndedInv, EndedStaysCanceled

\* What is left to show of a step while no handler is at work.
LEMMA IdleOrder ==
  ASSUME Ready, \A e \in EventIds : handler[e].at = "idle",
         UNCHANGED <<stripe, emitted, owed, recorded, handler>>,
         \A d \in Domains : row'[d].status = "canceled" => d \in ended',
         sweep'.at \in SweepWriting => \A d \in sweep'.todo : row'[d].status = "grace",
         sweep'.at \in {"mailOff", "save"} => domain'[sweep'.cur] = "suspended",
         \A d \in Domains \ ended' :
               /\ ~mail'[d] => domain'[d] = "suspended"
               /\ domain'[d] = "suspended" =>
                     \/ row'[d].status = "suspended"
                     \/ sweep'.at \in {"mailOff", "save"} /\ sweep'.cur = d,
         Fresh', Pursued', Settled'
  PROVE  OrderInv'
<1>1. InTurnOnly' /\ Told' /\ Progressing'
  BY WhileIdle
<1>2. Stopping'
  BY DEF Stopping
<1> QED BY <1>1, <1>2 DEF OrderInv

\* What the last attempt says of the rows, after a step that keeps who is stopped.
LEMMA RowsStay ==
  ASSUME Ready, UNCHANGED <<stripe, emitted, owed>>, ended \subseteq ended',
         \A d \in Domains \ ended' : row'[d].status \in Stopped <=> row[d].status \in Stopped,
         sweep'.at # "settle",
         stripe = "active" => \/ sweep'.at \in {"idle", "retry"}
                              \/ \E d \in Domains \ ended : row[d].status \in Stopped
                              \/ sweep.at \notin {"idle", "retry"}
  PROVE  Pursued' /\ Settled'
<1>1. ASSUME NEW f, NEW k, NEW s, LastIs(f, k, s) PROVE LastIs(f, k, s)'
  BY <1>1 DEF LastIs
<1>2. Pursued'
  <2> SUFFICES ASSUME stripe = "past_due"
               PROVE  \E f \in 1..Len(emitted') :
                         /\ LastIs(f, "failed", "past_due")'
                         /\ \/ f \in owed'
                            \/ /\ sweep'.at # "settle"
                               /\ \A d \in Domains \ ended' : row'[d].status \in Stopped
    BY DEF Pursued
  <2>1. PICK f \in 1..Len(emitted) :
               /\ LastIs(f, "failed", "past_due")
               /\ \/ f \in owed
                  \/ \A d \in Domains \ ended : row[d].status \in Stopped
    BY DEF Ready, OrderInv, Pursued
  <2> QED BY <1>1, <2>1
<1>3. Settled'
  <2> SUFFICES ASSUME stripe = "active"
               PROVE  \E f \in 1..Len(emitted') :
                         /\ LastIs(f, "succeeded", "active")'
                         /\ \/ f \in owed'
                            \/ /\ sweep'.at \in {"idle", "retry"}
                               /\ \A d \in Domains \ ended' : row'[d].status \notin Stopped
    BY DEF Settled
  <2>1. PICK f \in 1..Len(emitted) :
               /\ LastIs(f, "succeeded", "active")
               /\ \/ f \in owed
                  \/ /\ sweep.at \in {"idle", "retry"}
                     /\ \A d \in Domains \ ended : row[d].status \notin Stopped
    BY DEF Ready, OrderInv, Settled
  <2> QED BY <1>1, <2>1
<1> QED BY <1>2, <1>3

\* The sweep runs by itself.
LEMMA SweepAlone ==
  ASSUME Ready, ~Overlap, Sweep
  PROVE  \A e \in EventIds : handler[e].at = "idle"
<1>1. Quiet \/ sweep.at # "idle"
  BY DEF Sweep, SweepStart, SweepSuspends, SweepStopsMail, SweepSaves, SweepRetries,
         SweepHasNothingToRetry, SweepPays, SweepIsDeclined, SweepCannotPay, SweepSettles,
         MayStart
<1> QED BY <1>1 DEF Quiet, Ready, EndedInv, Serial

\* The sweep's steps but for its payment and what follows it: rows go from grace to
\* suspended, once the domain and its mail are stopped.
LEMMA SweepOrder ==
  ASSUME Ready, ~Overlap, Sweep, ~SweepPays, ~SweepIsDeclined
  PROVE  OrderInv'
<1> USE DEF SweepFrame, hookVars, rowVars, domainVars, stripeVars
<1>1. \A e \in EventIds : handler[e].at = "idle"
  BY SweepAlone
<1>2. UNCHANGED <<stripe, emitted, owed, recorded, handler, ended>>
  BY DEF Sweep, SweepStart, SweepSuspends, SweepStopsMail, SweepSaves, SweepRetries,
         SweepHasNothingToRetry, SweepCannotPay, SweepSettles
<1>3. /\ \A d \in Domains : row[d].status = "canceled" <=> d \in ended
      /\ \A d \in Domains \ ended :
               /\ ~mail[d] => domain[d] = "suspended"
               /\ domain[d] = "suspended" =>
                     \/ row[d].status = "suspended"
                     \/ sweep.at \in {"mailOff", "save"} /\ sweep.cur = d
  BY <1>1, StoppedIdle
<1>4. /\ sweep \in SweepState /\ row \in [Domains -> Row]
      /\ domain \in [Domains -> {"active", "suspended"}] /\ mail \in [Domains -> BOOLEAN]
  BY DEF Ready, IInv, TypeOK
<1>5. /\ sweep.at \in SweepWriting => /\ \A d \in sweep.todo : row[d].status = "grace"
                                     /\ sweep.todo \subseteq Domains \ ended
      /\ sweep.at \in {"mailOff", "save"} =>
            domain[sweep.cur] = "suspended" /\ sweep.cur \in sweep.todo
  BY <1>4 DEF Ready, OrderInv, Stopping, EndedInv, NothingStale, SweepState
<1>6. stripe = "trialing" \/ (\E e \in owed : Early(emitted[e])) =>
        /\ sweep.at \in {"idle", "retry"}
        /\ \A d \in Domains \ ended : row[d].status = "trialing" /\ domain[d] = "active" /\ mail[d]
  BY DEF Ready, OrderInv, Fresh
<1>7. ASSUME \/ sweep'.at \in {"idle", "retry"}
                /\ \A d \in Domains : /\ row'[d].status = row[d].status
                                      /\ domain'[d] = domain[d] /\ mail'[d] = mail[d]
             \/ sweep.at \notin {"idle", "retry"}
             \/ \E d \in Domains \ ended : row[d].status \in Stopped
      PROVE  Fresh'
  BY <1>2, <1>6, <1>7 DEF Fresh, Stopped, Early
<1>8. CASE SweepStart
  <2> DEFINE expired == {d \in Domains : Expired(row[d])}
  <2>1. /\ sweep' = [SweepIdle EXCEPT !.at = IF expired = {} THEN "retry" ELSE "suspend",
                                      !.now = day, !.todo = expired]
        /\ UNCHANGED <<row, domain, mail>> /\ sweep.at = "idle"
    BY <1>8 DEF SweepStart
  <2>2. sweep'.at = (IF expired = {} THEN "retry" ELSE "suspend") /\ sweep'.todo = expired
    BY <2>1 DEF SweepIdle
  <2>3. \A d \in expired : row[d].status = "grace" /\ d \in Domains /\ d \notin ended
    BY <1>3 DEF Expired
  <2> HIDE DEF expired
  <2>4. \/ sweep'.at = "retry"
        \/ sweep'.at = "suspend" /\ \E d \in Domains \ ended : row[d].status \in Stopped
    BY <2>2, <2>3 DEF Stopped
  <2>5. Fresh'
    BY <1>7, <2>1, <2>4
  <2>6. Pursued' /\ Settled'
    BY <1>2, <2>1, <2>4, RowsStay
  <2> QED BY <1>1, <1>2, <1>3, <2>1, <2>2, <2>3, <2>5, <2>6, IdleOrder DEF SweepWriting
<1>9. ASSUME NEW d \in Domains, SweepSuspends(d) PROVE OrderInv'
  <2>1. /\ sweep' = [sweep EXCEPT !.at = "mailOff", !.cur = d] /\ sweep.at = "suspend"
        /\ d \in sweep.todo /\ UNCHANGED <<row, mail>>
        /\ domain' = [domain EXCEPT ![d] = "suspended"]
    BY <1>9 DEF SweepSuspends
  <2>2. sweep'.at = "mailOff" /\ sweep'.cur = d /\ sweep'.todo = sweep.todo
    BY <1>4, <2>1 DEF SweepState
  <2>3. domain'[d] = "suspended" /\ \A x \in Domains \ {d} : domain'[x] = domain[x]
    BY <1>4, <2>1
  <2>4. Fresh'
    BY <1>7, <2>1
  <2>5. Pursued' /\ Settled'
    BY <1>2, <2>1, <2>2, RowsStay
  <2>6. \A x \in sweep'.todo : row'[x].status = "grace"
    BY <1>5, <2>1, <2>2 DEF SweepWriting
  <2>7. \A x \in Domains \ ended' :
               /\ ~mail'[x] => domain'[x] = "suspended"
               /\ domain'[x] = "suspended" => row'[x].status = "suspended" \/ sweep'.cur = x
    BY <1>2, <1>3, <2>1, <2>2, <2>3
  <2> QED BY <1>1, <1>2, <1>3, <2>1, <2>2, <2>3, <2>4, <2>5, <2>6, <2>7, IdleOrder
<1>10. CASE SweepStopsMail
  <2>1. /\ sweep' = [sweep EXCEPT !.at = "save"] /\ sweep.at = "mailOff"
        /\ UNCHANGED <<row, domain>> /\ mail' = [mail EXCEPT ![sweep.cur] = FALSE]
    BY <1>10 DEF SweepStopsMail, SweepTo
  <2>2. sweep'.at = "save" /\ sweep'.cur = sweep.cur /\ sweep'.todo = sweep.todo
    BY <1>4, <2>1 DEF SweepState
  <2>3. \A x \in Domains \ {sweep.cur} : mail'[x] = mail[x]
    BY <1>4, <2>1
  <2>4. Fresh'
    BY <1>7, <2>1
  <2>5. Pursued' /\ Settled'
    BY <1>2, <2>1, <2>2, RowsStay
  <2>6. \A x \in sweep'.todo : row'[x].status = "grace"
    BY <1>5, <2>1, <2>2 DEF SweepWriting
  <2>7. \A x \in Domains \ ended' :
               /\ ~mail'[x] => domain'[x] = "suspended"
               /\ domain'[x] = "suspended" => row'[x].status = "suspended" \/ sweep'.cur = x
    BY <1>2, <1>3, <1>5, <2>1, <2>2, <2>3
  <2> QED BY <1>1, <1>2, <1>3, <1>5, <2>1, <2>2, <2>4, <2>5, <2>6, <2>7, IdleOrder
<1>11. CASE SweepSaves
  <2> DEFINE rest == sweep.todo \ {sweep.cur}
             c == sweep.cur
  <2>1. /\ sweep' = [sweep EXCEPT !.at = IF rest = {} THEN "retry" ELSE "suspend",
                                  !.todo = rest, !.cur = None]
        /\ sweep.at = "save" /\ UNCHANGED <<domain, mail>>
        /\ row' = [row EXCEPT ![c].status = "suspended"]
    BY <1>11 DEF SweepSaves
  <2>2. /\ sweep'.at = IF rest = {} THEN "retry" ELSE "suspend"
        /\ sweep'.todo = rest
    BY <1>4, <2>1 DEF SweepState
  <2>3. c \in sweep.todo /\ c \in Domains \ ended /\ row[c].status = "grace"
        /\ sweep.todo \subseteq Domains
    BY <1>5, <2>1 DEF SweepWriting
  <2>4. row'[c].status = "suspended" /\ \A x \in Domains \ {c} : row'[x] = row[x]
    BY <1>4, <2>1, <2>3 DEF Row
  <2>5. \A x \in rest : row'[x].status = "grace"
    BY <1>5, <2>1, <2>3, <2>4 DEF SweepWriting
  <2> HIDE DEF rest
  <2>6. Fresh'
    BY <1>7, <2>1
  <2>7. Pursued' /\ Settled'
    <3>1. \A x \in Domains \ ended' : row'[x].status \in Stopped <=> row[x].status \in Stopped
      BY <2>3, <2>4 DEF Stopped
    <3> QED BY <1>2, <2>1, <2>2, <3>1, RowsStay
  <2>8. \A x \in Domains : row'[x].status = "canceled" => x \in ended'
    BY <1>2, <1>3, <2>4
  <2>9. \A x \in Domains \ ended' :
               /\ ~mail'[x] => domain'[x] = "suspended"
               /\ domain'[x] = "suspended" => row'[x].status = "suspended"
    BY <1>2, <1>3, <2>1, <2>4
  <2> QED BY <1>1, <1>2, <2>2, <2>5, <2>6, <2>7, <2>8, <2>9, IdleOrder
<1>12. ASSUME NEW d \in Domains, SweepRetries(d) PROVE OrderInv'
  <2>1. /\ sweep'.at = "pay" /\ sweep'.todo = InGrace /\ sweep.at = "retry"
        /\ UNCHANGED <<domain, mail>> /\ d \in InGrace
    BY <1>4, <1>12 DEF SweepRetries, SweepState
  <2>2. \A x \in Domains : row'[x].status = row[x].status
    <3> TAKE x \in Domains
    <3>1. row'[x] = row[x] \/ row'[x] = [row[x] EXCEPT !.lastRetry = sweep.now]
      BY <1>12 DEF SweepRetries
    <3> QED BY <1>4, <3>1 DEF Row
  <2>3. \A x \in InGrace : x \in Domains \ ended /\ row[x].status = "grace"
    BY <1>3 DEF InGrace
  <2>4. \E x \in Domains \ ended : row[x].status \in Stopped
    BY <2>1, <2>3 DEF Stopped
  <2>5. Fresh'
    BY <1>7, <2>4
  <2>6. Pursued' /\ Settled'
    BY <1>2, <2>1, <2>2, <2>4, RowsStay
  <2>7. \A x \in Domains : row'[x].status = "canceled" => x \in ended'
    BY <1>2, <1>3, <2>2
  <2>8. \A x \in sweep'.todo : row'[x].status = "grace"
    BY <2>1, <2>2, <2>3
  <2>9. \A x \in Domains \ ended' :
               /\ ~mail'[x] => domain'[x] = "suspended"
               /\ domain'[x] = "suspended" => row'[x].status = "suspended"
    BY <1>2, <1>3, <2>1, <2>2
  <2> QED BY <1>1, <1>2, <2>1, <2>5, <2>6, <2>7, <2>8, <2>9, IdleOrder
<1>13. CASE SweepHasNothingToRetry \/ SweepCannotPay
  <2>1. sweep' = SweepIdle /\ UNCHANGED <<row, domain, mail>> /\ sweep.at \in {"retry", "pay"}
    BY <1>13 DEF SweepHasNothingToRetry, SweepCannotPay
  <2>2. sweep'.at = "idle"
    BY <2>1 DEF SweepIdle
  <2>3. Fresh'
    BY <1>7, <2>1, <2>2
  <2>4. Pursued' /\ Settled'
    BY <1>2, <2>1, <2>2, RowsStay
  <2> QED BY <1>1, <1>2, <1>3, <2>1, <2>2, <2>3, <2>4, IdleOrder DEF SweepWriting
<1>14. CASE SweepSettles
  <2>1. sweep' = SweepIdle /\ UNCHANGED <<domain, mail>> /\ sweep.at = "settle"
    BY <1>14 DEF SweepSettles
  <2>2. sweep'.at = "idle"
    BY <2>1 DEF SweepIdle
  <2>3. \A x \in Domains : IF x \in sweep.todo THEN row'[x].status = "active" ELSE row'[x] = row[x]
    BY <1>14 DEF SweepSettles
  <2>4. \A x \in sweep.todo : row[x].status = "grace" /\ x \in Domains \ ended
    BY <1>5, <2>1 DEF SweepWriting
  <2>5. Fresh'
    BY <1>7, <2>1
  <2>6. ASSUME NEW f, NEW k, NEW s, LastIs(f, k, s) PROVE LastIs(f, k, s)'
    BY <1>2, <2>6 DEF LastIs
  <2>7. Pursued' /\ Settled'
    BY <1>2, <2>1, <2>6 DEF Ready, OrderInv, Pursued, Settled
  <2>8. \A x \in Domains : row'[x].status = "canceled" => x \in ended'
    BY <1>2, <1>3, <2>3
  <2>9. \A x \in Domains \ ended' :
               /\ ~mail'[x] => domain'[x] = "suspended"
               /\ domain'[x] = "suspended" => row'[x].status = "suspended"
    BY <1>2, <1>3, <2>1, <2>3, <2>4
  <2> QED BY <1>1, <1>2, <2>2, <2>5, <2>7, <2>8, <2>9, IdleOrder DEF SweepWriting
<1> QED BY <1>8, <1>9, <1>10, <1>11, <1>12, <1>13, <1>14 DEF Sweep

\* A cancellation runs by itself, and stops what is no longer billed.
LEMMA LeaveOrder ==
  ASSUME Ready, ~Overlap, NEW d \in Domains, Leave(d) \/ Leaves(d)
  PROVE  OrderInv'
<1> USE DEF LeaveFrame, hookVars, rowVars, domainVars, stripeVars
<1>1. (\A e \in EventIds : handler[e].at = "idle") /\ sweep.at = "idle"
  <2>1. Quiet \/ leaving[d] # "no"
    BY DEF Leave, Leaves, LeaveSaves, LeaveSuspends, LeaveStopsMail, MayStart
  <2> QED BY <2>1 DEF Quiet, Ready, EndedInv, Serial
<1>2. UNCHANGED <<stripe, emitted, owed, recorded, handler, sweep>>
  BY DEF Leave, Leaves, LeaveSaves, LeaveSuspends, LeaveStopsMail
<1>3. /\ \A x \in Domains : row[x].status = "canceled" <=> x \in ended
      /\ \A x \in Domains \ ended :
               /\ ~mail[x] => domain[x] = "suspended"
               /\ domain[x] = "suspended" => row[x].status = "suspended"
  BY <1>1, StoppedIdle
<1>4. /\ row \in [Domains -> Row]
      /\ domain \in [Domains -> {"active", "suspended"}] /\ mail \in [Domains -> BOOLEAN]
      /\ leaving[d] \in {"suspend", "mailOff"} => d \in ended
  BY DEF Ready, IInv, TypeOK, LeavingInOrder
<1>5. /\ ended \subseteq ended'
      /\ \A x \in Domains \ ended' :
            row'[x] = row[x] /\ domain'[x] = domain[x] /\ mail'[x] = mail[x]
      /\ \A x \in Domains : row'[x] # row[x] => x \in ended'
  BY <1>4 DEF Leave, Leaves, LeaveSaves, LeaveSuspends, LeaveStopsMail
<1>6. \A x \in Domains : row'[x].status = "canceled" => x \in ended'
  BY <1>3, <1>5
<1>7. Fresh'
  <2>1. stripe = "trialing" \/ (\E e \in owed : Early(emitted[e])) =>
          /\ sweep.at \in {"idle", "retry"}
          /\ \A x \in Domains \ ended : row[x].status = "trialing" /\ domain[x] = "active" /\ mail[x]
    BY DEF Ready, OrderInv, Fresh
  <2> QED BY <1>2, <1>5, <2>1 DEF Fresh, Early
<1>8. Pursued' /\ Settled'
  BY <1>1, <1>2, <1>5, RowsStay
<1> QED BY <1>1, <1>2, <1>3, <1>5, <1>6, <1>7, <1>8, IdleOrder DEF SweepWriting

\* An event is delivered when nothing else runs and none is owed before it.
LEMMA DeliverOrder ==
  ASSUME Ready, ~Overlap, ~Reorder, NEW e \in EventIds, Deliver(e)
  PROVE  OrderInv'
<1> USE DEF rowVars, domainVars, stripeVars
<1>1. /\ Quiet /\ e \in owed \ recorded /\ \A f \in owed : e <= f
      /\ recorded' = recorded \cup {e}
      /\ handler' = [handler EXCEPT ![e] = [Idle EXCEPT !.at = "load"]]
      /\ UNCHANGED <<row, ended, domain, mail, stripe, emitted, owed, sweep>>
  BY DEF Deliver, MayStart, InTurn
<1>2. handler'[e].at = "load" /\ \A f \in EventIds \ {e} : handler'[f] = handler[f]
  BY <1>1 DEF Ready, IInv, TypeOK, Idle
<1>3. \A f \in EventIds : handler[f].at = "idle" /\ (handler'[f].at = "idle" \/ f = e)
  BY <1>1, <1>2 DEF Quiet
<1>4. InTurnOnly'
  <2>1. e \in 1..Len(emitted)
    BY <1>1 DEF Ready, IInv, EventsAreTrue
  <2>2. owed \cap recorded = {}
    BY <1>3 DEF Ready, OrderInv, InTurnOnly
  <2>3. recorded \subseteq 1..Len(emitted)
        /\ \A g \in owed, f \in 1..Len(emitted) : g < f => f \in owed
    BY DEF Ready, OrderInv, InTurnOnly
  <2> QED BY <1>1, <1>2, <1>3, <2>1, <2>2, <2>3 DEF InTurnOnly
<1>5. Told'
  BY <1>1 DEF Ready, OrderInv, Told, Early
<1>6. Progressing'
  BY <1>2, <1>3 DEF Progressing, Progress, Paying
<1>7. Stopping'
  BY <1>1, <1>3, StoppedIdle DEF Stopping, Ready, OrderInv, SweepWriting, Quiet
<1>8. Fresh' /\ Pursued' /\ Settled'
  BY <1>1 DEF Ready, OrderInv, Fresh, Pursued, Settled, Early, LastIs
<1> QED BY <1>4, <1>5, <1>6, <1>7, <1>8 DEF OrderInv

\* Nothing is redelivered, fails or crashes: an event answered late is still being
\* handled, and then nothing is delivered.
LEMMA NoneElse ==
  ASSUME Ready, ~Overlap, MaxFailures = 0, MaxCrashes = 0
  PROVE  ~Crash /\ \A e \in EventIds : ~Redelivered(e) /\ ~HandlerFails(e)
<1>1. failures \in Nat /\ crashes \in Nat
  BY DEF Ready, IInv, TypeOK
<1>2. ~Crash /\ \A e \in EventIds : ~HandlerFails(e)
  BY <1>1 DEF Crash, HandlerFails
<1>3. ASSUME NEW e \in EventIds, Redelivered(e) PROVE FALSE
  <2>1. Quiet /\ e \in owed \cap recorded
    BY <1>3 DEF Redelivered, MayStart
  <2> QED BY <2>1 DEF Quiet, Ready, OrderInv, InTurnOnly
<1> QED BY <1>2, <1>3

\* The clock concerns deadlines only.
LEMMA DayOrder == ASSUME Ready, DayPasses PROVE OrderInv'
<1>1. UNCHANGED <<row, ended, domain, mail, stripe, emitted, owed, recorded, handler, sweep>>
  BY DEF DayPasses, rowVars, domainVars, stripeVars, hookVars
<1>2. OrderInv
  BY DEF Ready
<1>3. InTurnOnly' /\ Told' /\ Fresh' /\ Pursued' /\ Settled'
  BY <1>1, <1>2 DEF OrderInv, InTurnOnly, Told, Fresh, Pursued, Settled, Early, LastIs
<1>4. Progressing'
  BY <1>1, <1>2 DEF OrderInv, Progressing, Progress, Kind
<1>5. Stopping'
  BY <1>1, <1>2 DEF OrderInv, Stopping, Reviving
<1> QED BY <1>3, <1>4, <1>5 DEF OrderInv

-----------------------------------------------------------------------------
(* Stripe. *)

\* Events that begin with an attempt, after which come only reports of its status.
Opens(events, kind, s) ==
    /\ 1 \in 1..Len(events) /\ events[1].kind = kind
    /\ \A k \in 2..Len(events) : events[k].kind = "updated" /\ events[k].status = s

\* What Emit appends, and where.
LEMMA EmitAppends ==
  ASSUME Ready, NEW events \in Seq(Event), Emit(events)
  PROVE  /\ Len(emitted) \in Nat /\ Len(events) \in Nat
         /\ Len(emitted') = Len(emitted) + Len(events)
         /\ \A k \in 1..Len(emitted) : k \in 1..Len(emitted') /\ emitted'[k] = emitted[k]
         /\ \A k \in 1..Len(emitted') : k \notin 1..Len(emitted) =>
               /\ k - Len(emitted) \in 1..Len(events)
               /\ emitted'[k] = events[k - Len(emitted)]
               /\ k \in owed'
         /\ owed \subseteq 1..Len(emitted) /\ owed \subseteq owed'
         /\ \A k \in owed' : k \in 1..Len(emitted') /\ (k \in 1..Len(emitted) => k \in owed)
<1>1. /\ emitted \in Seq(Event) /\ owed \subseteq 1..Len(emitted)
      /\ emitted' = emitted \o events
      /\ owed' = owed \cup (Len(emitted) + 1)..(Len(emitted) + Len(events))
  BY DEF Ready, IInv, TypeOK, EventsAreTrue, Emit
<1>2. Len(emitted) \in Nat /\ Len(events) \in Nat
  BY <1>1, LenProperties
<1>3. /\ Len(emitted') = Len(emitted) + Len(events)
      /\ \A k \in 1..(Len(emitted) + Len(events)) :
            emitted'[k] = IF k <= Len(emitted) THEN emitted[k] ELSE events[k - Len(emitted)]
  BY <1>1, ConcatProperties
<1>4. \A k \in 1..Len(emitted) : k \in 1..Len(emitted') /\ emitted'[k] = emitted[k]
  BY <1>2, <1>3
<1>5. \A k \in 1..Len(emitted') : k \notin 1..Len(emitted) =>
               /\ k - Len(emitted) \in 1..Len(events)
               /\ emitted'[k] = events[k - Len(emitted)]
               /\ k \in (Len(emitted) + 1)..(Len(emitted) + Len(events))
  BY <1>2, <1>3
<1>6. \A k \in owed' : k \in 1..Len(emitted') /\ (k \in 1..Len(emitted) => k \in owed)
  <2> SUFFICES ASSUME NEW k \in owed'
               PROVE k \in 1..Len(emitted') /\ (k \in 1..Len(emitted) => k \in owed)
    OBVIOUS
  <2>1. k \in owed \/ k \in (Len(emitted) + 1)..(Len(emitted) + Len(events))
    BY <1>1
  <2>2. CASE k \in owed
    BY <1>1, <1>4, <2>2
  <2>3. CASE k \in (Len(emitted) + 1)..(Len(emitted) + Len(events))
    BY <1>2, <1>3, <2>3
  <2> QED BY <2>1, <2>2, <2>3
<1> QED BY <1>1, <1>2, <1>3, <1>4, <1>5, <1>6

\* New events are owed, come after all others and say what Stripe's status says.
LEMMA StripeTells ==
  ASSUME Ready, NEW events \in Seq(Event), Emit(events), stripe # "canceled",
         UNCHANGED <<row, ended, domain, mail>>,
         \/ sweep' = sweep
         \/ sweep.at = "pay" /\ sweep'.at \in {"idle", "settle"} /\ sweep'.todo \subseteq sweep.todo,
         \A k \in 1..Len(events) :
            /\ events[k].kind = "updated" => events[k].status # "canceled"
            /\ events[k].kind = "deleted" => stripe' = "canceled"
            /\ Early(events[k]) <=> stripe' = "trialing",
         stripe' = "trialing" => stripe = "trialing",
         stripe' = "past_due" => Opens(events, "failed", "past_due"),
         stripe' = "active" => Opens(events, "succeeded", "active")
  PROVE  OrderInv'
<1> DEFINE L == Len(emitted)
<1>1. /\ L \in Nat /\ Len(events) \in Nat
      /\ Len(emitted') = L + Len(events)
      /\ \A k \in 1..L : k \in 1..Len(emitted') /\ emitted'[k] = emitted[k]
      /\ \A k \in 1..Len(emitted') : k \notin 1..L =>
               /\ k - L \in 1..Len(events)
               /\ emitted'[k] = events[k - L]
               /\ k \in owed'
      /\ owed \subseteq 1..L /\ owed \subseteq owed'
      /\ \A k \in owed' : k \in 1..Len(emitted') /\ (k \in 1..L => k \in owed)
  BY EmitAppends
<1>2. recorded' = recorded /\ handler' = handler
  BY DEF Emit
<1>3. \A e \in EventIds : handler[e].at # "idle" => e \in 1..L
  BY DEF Ready, IInv, EventsAreTrue
<1>4. /\ \A e \in 1..L : /\ emitted[e].kind = "updated" => emitted[e].status # "canceled"
                        /\ emitted[e].kind # "deleted"
                        /\ stripe = "trialing" => Early(emitted[e])
      /\ \A e, g \in 1..L : e < g /\ Early(emitted[g]) => Early(emitted[e])
  BY DEF Ready, OrderInv, Told
<1>5. InTurnOnly'
  <2>1. /\ \A e \in owed, g \in 1..L : e < g => g \in owed
        /\ \A e \in owed \cap recorded : e \in EventIds /\ handler[e].at # "idle"
        /\ \A e \in EventIds : handler[e].at # "idle" =>
              e \in owed \cap recorded /\ \A f \in owed : e <= f
        /\ recorded \subseteq 1..L
    BY DEF Ready, OrderInv, InTurnOnly
  <2>2. ASSUME NEW e \in owed', NEW g \in 1..Len(emitted'), e < g PROVE g \in owed'
    <3>1. CASE g \notin 1..L
      BY <1>1, <3>1
    <3>2. CASE g \in 1..L
      <4>1. e \in 1..Len(emitted')
        BY <1>1
      <4>2. e \in 1..L
        BY <1>1, <2>2, <3>2, <4>1
      <4> QED BY <1>1, <2>1, <2>2, <3>2, <4>2
    <3> QED BY <3>1, <3>2
  <2>3. owed' \cap recorded = owed \cap recorded
    BY <1>1, <2>1
  <2>4. ASSUME NEW e \in EventIds, handler[e].at # "idle", NEW f \in owed' PROVE e <= f
    <3>1. CASE f \in 1..L
      BY <1>1, <2>1, <2>4, <3>1
    <3>2. CASE f \notin 1..L
      BY <1>1, <1>3, <2>4, <3>2
    <3> QED BY <3>1, <3>2
  <2>5. recorded \subseteq 1..Len(emitted')
    BY <1>1, <2>1
  <2> QED BY <1>2, <2>1, <2>2, <2>3, <2>4, <2>5 DEF InTurnOnly
<1>6. \A e \in 1..Len(emitted') : e \notin 1..L =>
         /\ emitted'[e].kind = "updated" => emitted'[e].status # "canceled"
         /\ emitted'[e].kind = "deleted" => stripe' = "canceled"
         /\ Early(emitted'[e]) <=> stripe' = "trialing"
  BY <1>1
<1>7. Told'
  <2>1. \A e \in 1..Len(emitted') :
          /\ emitted'[e].kind = "updated" => emitted'[e].status # "canceled"
          /\ emitted'[e].kind = "deleted" => stripe' = "canceled"
          /\ stripe' = "trialing" => Early(emitted'[e])
    <3> TAKE e \in 1..Len(emitted')
    <3>1. CASE e \notin 1..L
      BY <1>6, <3>1
    <3>2. CASE e \in 1..L
      <4>1. emitted'[e] = emitted[e]
        BY <1>1, <3>2
      <4>2. /\ emitted[e].kind = "updated" => emitted[e].status # "canceled"
            /\ emitted[e].kind # "deleted"
            /\ stripe = "trialing" => Early(emitted[e])
        <5>1. e \in 1..Len(emitted)
          BY <3>2
        <5> QED BY <5>1 DEF Ready, OrderInv, Told
      <4> QED BY <4>1, <4>2
    <3> QED BY <3>1, <3>2
  <2>2. ASSUME NEW e \in 1..Len(emitted'), NEW g \in 1..Len(emitted'), e < g, Early(emitted'[g])
        PROVE  Early(emitted'[e])
    <3>1. CASE g \notin 1..L
      BY <1>6, <2>1, <2>2, <3>1
    <3>2. CASE g \in 1..L
      <4>1. e \in 1..L
        BY <1>1, <2>2, <3>2
      <4> QED BY <1>1, <1>4, <2>2, <3>2, <4>1
    <3> QED BY <3>1, <3>2
  <2> QED BY <2>1, <2>2 DEF Told, Early
<1>8. Progressing'
  <2> SUFFICES ASSUME NEW e \in EventIds PROVE Progress(e)'
    BY DEF Progressing
  <2>1. Progress(e)
    BY DEF Ready, OrderInv, Progressing
  <2>2. CASE handler[e].at = "idle"
    BY <1>2, <2>2 DEF Progress, Paying
  <2>3. CASE handler[e].at # "idle"
    <3>1. Kind(e)' = Kind(e)
      BY <1>1, <1>3, <2>3 DEF Kind
    <3> QED BY <1>2, <2>1, <3>1 DEF Progress
  <2> QED BY <2>2, <2>3
<1>9. Stopping'
  <2>1. \A d, stages : Reviving(d, stages)' <=> Reviving(d, stages)
    BY <1>2 DEF Reviving
  <2> QED BY <2>1 DEF Ready, OrderInv, Stopping, SweepWriting
<1>10. Fresh'
  <2>1. stripe' = "trialing" \/ (\E e \in owed' : Early(emitted'[e])) =>
          stripe = "trialing" \/ (\E e \in owed : Early(emitted[e]))
    BY <1>1, <1>6
  <2> QED BY <2>1 DEF Ready, OrderInv, Fresh, Early
<1>11. ASSUME NEW kind, NEW s, Opens(events, kind, s)
       PROVE  \E f \in 1..Len(emitted') : LastIs(f, kind, s)' /\ f \in owed'
  <2>0. PICK f : f = L + 1
    OBVIOUS
  <2>1. f \in 1..Len(emitted') /\ f \notin 1..L /\ f - L = 1
    BY <1>1, <1>11, <2>0 DEF Opens
  <2>2. f \in owed' /\ emitted'[f] = events[1]
    BY <1>1, <2>1
  <2>3. ASSUME NEW g \in 1..Len(emitted'), f < g
        PROVE  emitted'[g].kind = "updated" /\ emitted'[g].status = s
    <3>1. g \notin 1..L /\ g - L \in 2..Len(events)
      BY <1>1, <2>0, <2>3
    <3>2. emitted'[g] = events[g - L]
      BY <1>1, <3>1
    <3> QED BY <1>11, <3>1, <3>2 DEF Opens
  <2>4. emitted'[f].kind = kind
    BY <1>11, <2>2 DEF Opens
  <2>5. LastIs(f, kind, s)'
    BY <2>1, <2>3, <2>4 DEF LastIs
  <2> QED BY <2>1, <2>2, <2>5
<1>12. Pursued' /\ Settled'
  BY <1>11 DEF Pursued, Settled
<1> QED BY <1>5, <1>7, <1>8, <1>9, <1>10, <1>12 DEF OrderInv

\* An attempt to collect an invoice, whoever asks for it.
LEMMA AttemptOrder ==
  ASSUME Ready, NEW i \in Invoices, Collected(i) \/ Declined(i), stripe # "canceled",
         UNCHANGED <<row, ended, domain, mail>>,
         \/ sweep' = sweep
         \/ sweep.at = "pay" /\ sweep'.at \in {"idle", "settle"} /\ sweep'.todo \subseteq sweep.todo
  PROVE  OrderInv'
<1>1. CASE Collected(i)
  <2> DEFINE events == <<Succeeded(i), Updated("active")>>
  <2>1. events \in Seq(Event) /\ Len(events) = 2
        /\ events[1] = Succeeded(i) /\ events[2] = Updated("active")
    BY DEF Succeeded, Updated, Event, SubStatuses
  <2>2. Emit(events) /\ stripe' = "active"
    BY <1>1 DEF Collected
  <2> HIDE DEF events
  <2>3. \A k \in 1..Len(events) : k = 1 \/ k = 2
    BY <2>1
  <2>4. \A k \in 1..Len(events) : /\ events[k].kind = "updated" => events[k].status # "canceled"
                                  /\ events[k].kind # "deleted"
                                  /\ ~Early(events[k])
    BY <2>1, <2>3 DEF Succeeded, Updated, Early
  <2>5. Opens(events, "succeeded", "active")
    BY <2>1 DEF Opens, Succeeded, Updated
  <2> QED BY <2>1, <2>2, <2>4, <2>5, StripeTells
<1>2. CASE Declined(i)
  <2>1. PICK events : /\ events \in {<<Failed(i)>>, <<Failed(i), Updated("past_due")>>}
                      /\ Emit(events)
    BY <1>2 DEF Declined
  <2>2. stripe' = "past_due"
    BY <1>2 DEF Declined
  <2>3. /\ events \in Seq(Event) /\ events[1] = Failed(i)
        /\ Len(events) = 1 \/ (Len(events) = 2 /\ events[2] = Updated("past_due"))
    <3>1. CASE events = <<Failed(i)>>
      BY <3>1 DEF Failed, Event, SubStatuses
    <3>2. CASE events = <<Failed(i), Updated("past_due")>>
      BY <3>2 DEF Failed, Updated, Event, SubStatuses
    <3> QED BY <2>1, <3>1, <3>2
  <2>4. \A k \in 1..Len(events) : k = 1 \/ (k = 2 /\ Len(events) = 2)
    <3>1. CASE Len(events) = 1
      BY <3>1
    <3>2. CASE Len(events) = 2
      BY <3>2
    <3> QED BY <2>3, <3>1, <3>2
  <2>5. \A k \in 1..Len(events) : /\ events[k].kind = "updated" => events[k].status # "canceled"
                                  /\ events[k].kind # "deleted"
                                  /\ ~Early(events[k])
    BY <2>3, <2>4 DEF Failed, Updated, Early
  <2>6. Opens(events, "failed", "past_due")
    BY <2>3 DEF Opens, Failed, Updated
  <2> QED BY <2>1, <2>2, <2>3, <2>5, <2>6, StripeTells
<1> QED BY <1>1, <1>2

\* Stripe's own steps, a new card's charge, and the sweep's retry of the payment.
LEMMA StripeOrder ==
  ASSUME Ready, \/ Stripe \/ SweepPays \/ SweepIsDeclined \/ \E d \in Domains : CardUpdated(d)
  PROVE  OrderInv'
<1> USE DEF Others, rowVars, domainVars
<1>1. CASE ZeroInvoice
  <2> DEFINE events == <<Zero, Updated("trialing")>>
  <2>1. events \in Seq(Event) /\ Len(events) = 2
        /\ events[1] = Zero /\ events[2] = Updated("trialing")
    BY DEF Zero, Updated, Event, SubStatuses
  <2>2. /\ Emit(events) /\ stripe = "trialing" /\ stripe' = "trialing"
        /\ UNCHANGED <<row, ended, domain, mail, sweep>>
    BY <1>1 DEF ZeroInvoice
  <2> HIDE DEF events
  <2>3. \A k \in 1..Len(events) : k = 1 \/ k = 2
    BY <2>1
  <2>4. \A k \in 1..Len(events) : /\ events[k].kind = "updated" => events[k].status # "canceled"
                                  /\ events[k].kind # "deleted"
                                  /\ Early(events[k])
    BY <2>1, <2>3 DEF Zero, Updated, Early
  <2> QED BY <2>1, <2>2, <2>4, StripeTells
<1>2. CASE EndSubscription
  <2> DEFINE events == <<Deleted>>
  <2>1. events \in Seq(Event) /\ Len(events) = 1 /\ events[1] = Deleted
    BY DEF Deleted, Event, SubStatuses
  <2>2. /\ Emit(events) /\ stripe # "canceled" /\ stripe' = "canceled"
        /\ UNCHANGED <<row, ended, domain, mail, sweep>>
    BY <1>2 DEF EndSubscription
  <2> HIDE DEF events
  <2>3. \A k \in 1..Len(events) : k = 1
    BY <2>1
  <2>4. \A k \in 1..Len(events) : events[k].kind = "deleted" /\ ~Early(events[k])
    BY <2>1, <2>3 DEF Deleted, Early
  <2> QED BY <2>1, <2>2, <2>4, StripeTells
<1>3. ASSUME NEW i \in Invoices, Renew(i) \/ Retry(i) PROVE OrderInv'
  <2>1. Collected(i) \/ Declined(i)
    BY <1>3 DEF Renew, Retry
  <2>2. stripe # "canceled" /\ UNCHANGED <<row, ended, domain, mail, sweep>>
    BY <1>3 DEF Renew, Retry
  <2> QED BY <2>1, <2>2, AttemptOrder
<1>4. ASSUME NEW d \in Domains, CardUpdated(d) PROVE OrderInv'
  <2> DEFINE i == row[d].failedInvoice
  <2>1. i \in Invoices
    BY <1>4 DEF CardUpdated, Ready, IInv, TypeOK, Row
  <2>2. Collected(i) /\ stripe # "canceled" /\ UNCHANGED <<row, ended, domain, mail, sweep>>
    BY <1>4 DEF CardUpdated
  <2> QED BY <2>1, <2>2, AttemptOrder
<1>5. CASE SweepPays
  <2>1. sweep \in SweepState /\ sweep.at = "pay" /\ sweep.inv \in Invoices
    BY <1>5 DEF SweepPays, Ready, IInv, TypeOK, SweepInOrder
  <2>2. /\ Collected(sweep.inv) /\ stripe # "canceled" /\ UNCHANGED <<row, ended, domain, mail>>
        /\ sweep' = [sweep EXCEPT !.at = "settle"]
    BY <1>5 DEF SweepPays, SweepTo
  <2>3. sweep'.at = "settle" /\ sweep'.todo = sweep.todo
    BY <2>1, <2>2 DEF SweepState
  <2> QED BY <2>1, <2>2, <2>3, AttemptOrder
<1>6. CASE SweepIsDeclined
  <2>1. sweep.at = "pay" /\ sweep.inv \in Invoices
    BY <1>6 DEF SweepIsDeclined, Ready, IInv, SweepInOrder
  <2>2. /\ Declined(sweep.inv) /\ stripe # "canceled" /\ UNCHANGED <<row, ended, domain, mail>>
        /\ sweep' = SweepIdle
    BY <1>6 DEF SweepIsDeclined
  <2>3. sweep'.at = "idle" /\ sweep'.todo = {}
    BY <2>2 DEF SweepIdle
  <2> QED BY <2>1, <2>2, <2>3, AttemptOrder
<1> QED BY <1>1, <1>2, <1>3, <1>4, <1>5, <1>6 DEF Stripe

-----------------------------------------------------------------------------
(* The theorems. *)

\* Every step keeps the order.
LEMMA OrderNext ==
  ASSUME ~Overlap, ~Reorder, MaxFailures = 0, MaxCrashes = 0, Ready, [Next]_vars
  PROVE  OrderInv'
<1>1. CASE Stripe \/ SweepPays \/ SweepIsDeclined \/ \E d \in Domains : CardUpdated(d)
  BY <1>1, StripeOrder
<1>2. CASE Sweep /\ ~SweepPays /\ ~SweepIsDeclined
  BY <1>2, SweepOrder
<1>3. CASE \E e \in EventIds : Deliver(e) \/ Redelivered(e) \/ HandlerFails(e) \/ Handle(e)
  BY <1>3, DeliverOrder, NoneElse, HandleOrder
<1>4. CASE \E d \in Domains : Leave(d) \/ Leaves(d)
  BY <1>4, LeaveOrder
<1>5. CASE Crash \/ DayPasses
  BY <1>5, NoneElse, DayOrder
<1>6. CASE UNCHANGED vars
  <2>1. UNCHANGED <<row, ended, domain, mail, stripe, emitted, owed, recorded, handler, sweep>>
    BY <1>6 DEF vars, rowVars, domainVars, stripeVars, hookVars
  <2>2. OrderInv
    BY DEF Ready
  <2>3. InTurnOnly' /\ Told' /\ Fresh' /\ Pursued' /\ Settled'
    BY <2>1, <2>2 DEF OrderInv, InTurnOnly, Told, Fresh, Pursued, Settled, Early, LastIs
  <2>4. Progressing'
    BY <2>1, <2>2 DEF OrderInv, Progressing, Progress, Kind
  <2>5. Stopping'
    BY <2>1, <2>2 DEF OrderInv, Stopping, Reviving
  <2> QED BY <2>3, <2>4, <2>5 DEF OrderInv
<1> QED BY <1>1, <1>2, <1>3, <1>4, <1>5, <1>6 DEF Next

\* Handled one after the other, each once and in Stripe's order, the events leave
\* the rows as the last attempt says (handleWebhookEvent, runGraceSweepOnce).
LEMMA OrderHolds ==
  ASSUME ~Overlap, ~Reorder, MaxFailures = 0, MaxCrashes = 0
  PROVE  Spec => []Ready
<1>1. Ready /\ [Next]_vars => OrderInv'
  BY OrderNext
<1>2. Init => OrderInv
  BY OrderInit
<1>3. IInv /\ EndedInv /\ OrderInv <=> Ready
  BY DEF Ready
<1> QED BY <1>1, <1>2, <1>3, Inductive, EndedInductive, PTL DEF Spec

(* A tenant that has paid all it owed is served on every domain it still    *)
(* has, for any numbers of domains, invoices and events, once nothing is    *)
(* left to handle: if events are handled one after the other in Stripe's    *)
(* order and nothing throws or crashes (invoice.payment_succeeded).         *)
THEOREM PaidAreServed ==
  ASSUME ~Overlap, ~Reorder, MaxFailures = 0, MaxCrashes = 0
  PROVE  Spec => []PaidIsServed
<1>1. Ready => PaidIsServed
  <2> SUFFICES ASSUME Ready, owed = {}, Quiet, stripe = "active", NEW d \in Domains \ ended
               PROVE  row[d].status \notin {"grace", "suspended"} /\ domain[d] = "active" /\ mail[d]
    BY DEF PaidIsServed, AtRest, PaidUp
  <2>1. row[d].status \notin Stopped
    BY DEF Ready, OrderInv, Settled
  <2>2. /\ sweep.at = "idle"
        /\ ~mail[d] => domain[d] = "suspended"
        /\ domain[d] = "suspended" => row[d].status = "suspended"
    BY StoppedIdle DEF Quiet
  <2>3. domain[d] \in {"active", "suspended"} /\ mail[d] \in BOOLEAN
    BY DEF Ready, IInv, TypeOK
  <2> QED BY <2>1, <2>2, <2>3 DEF Stopped
<1> QED BY <1>1, OrderHolds, PTL

(* Under the same conditions a tenant whose renewal is unpaid has every      *)
(* remaining row in grace or suspended, whatever status events came around   *)
(* the failed payment (customer.subscription.updated).                       *)
THEOREM UnpaidArePursued ==
  ASSUME ~Overlap, ~Reorder, MaxFailures = 0, MaxCrashes = 0
  PROVE  Spec => []UnpaidIsPursued
<1>1. Ready => UnpaidIsPursued
  BY DEF Ready, OrderInv, Pursued, UnpaidIsPursued, AtRest, Stopped
<1> QED BY <1>1, OrderHolds, PTL

=============================================================================
