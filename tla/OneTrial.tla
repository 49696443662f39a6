------------------------------ MODULE OneTrial ------------------------------
(***************************************************************************)
(* What activation promises a tenant                                       *)
(* (backend/src/services/billing.service.ts, "the tenant's ONE trial"):    *)
(* its trial starts once, with one checkout, and never moves to another    *)
(* one; its subscription is replaced only after it has ended.              *)
(***************************************************************************)
CONSTANTS Sessions,      \* Stripe checkouts, each with its subscription
          None

VARIABLES trial,         \* the checkout that started the trial
          subscription,  \* the checkout whose subscription the tenant has
          ended          \* checkouts whose subscription has ended

vars == <<trial, subscription, ended>>

Init == trial = None /\ subscription = None /\ ended = {}

Start(s) ==
    /\ trial = None
    /\ trial' = s
    /\ subscription' = s
    /\ UNCHANGED ended

Resubscribe(s) ==
    /\ trial # None
    /\ subscription \in ended
    /\ subscription' = s
    /\ UNCHANGED <<trial, ended>>

End(s) ==
    /\ ended' = ended \cup {s}
    /\ UNCHANGED <<trial, subscription>>

Next == \E s \in Sessions : Start(s) \/ Resubscribe(s) \/ End(s)

Spec == Init /\ [][Next]_vars

=============================================================================
