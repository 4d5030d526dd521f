------------------------------ MODULE Billing ------------------------------
(***************************************************************************)
(* The subscription of one tenant, its payments and its payment methods,   *)
(* with the payment provider as the code uses it: a checkout is opened,    *)
(* the customer pays or not, and the provider delivers webhooks any number *)
(* of times and in any order.  A service call reads the subscription,      *)
(* checks SubscriptionPolicy and updates it without a condition; only the  *)
(* webhook claims its payment and updates the subscription in one          *)
(* transaction.                                                            *)
(***************************************************************************)
EXTENDS Naturals

CONSTANTS Plans,     \* ranks of the plans (BILLING_PLANS), 0 is the lowest
          Payments,  \* payment rows that may be created
          Methods,   \* payment methods of the tenant
          Requests   \* API calls that may be in flight

VARIABLES subscription,  \* the Subscription document
          payment,       \* the Payment documents
          checkout,      \* the provider's checkout of each payment
          activations,   \* SubscriptionActivated events in the outbox, by the payment
          method,        \* the PaymentMethod documents
          api            \* the calls in flight

vars == <<subscription, payment, checkout, activations, method, api>>

SubscriptionStatus == {"none", "trial", "active", "past_due", "cancelled", "expired"}
Cycles == {"monthly", "annual"}
Subscription == [status : SubscriptionStatus, plan : Plans, cycle : Cycles]
\* known: providerCheckoutId is stored.  The amount, computed from the plan read
\* by the checkout, decides nothing and is left out.
Payment == [status : {"none", "pending", "succeeded", "failed"}, known : BOOLEAN]

ApiOps == {"create", "activate", "cancel", "changePlan", "expireTrial", "checkout",
           "saveMethod"}
\* pay, card: the payment row and the payment method the call works on, if any.
Api == [op : ApiOps \cup {"none"},
        step : {"idle", "read", "gateway", "store", "default"},
        plan : Plans, cycle : Cycles,
        pay : SUBSET Payments,
        card : SUBSET Methods]

LowestPlan == CHOOSE p \in Plans : \A q \in Plans : p <= q
NoSubscription == [status |-> "none", plan |-> LowestPlan, cycle |-> "monthly"]
NoPayment == [status |-> "none", known |-> FALSE]
Quiet == [op |-> "none", step |-> "idle", plan |-> LowestPlan,
          cycle |-> "monthly", pay |-> {}, card |-> {}]

TypeOK ==
  /\ subscription \in Subscription
  /\ payment \in [Payments -> Payment]
  /\ checkout \in [Payments -> {"none", "open", "paid", "declined"}]
  /\ activations \in [Payments -> Nat]
  /\ method \in [Methods -> {"none", "saved", "default"}]
  /\ api \in [Requests -> Api]

Init ==
  /\ subscription = NoSubscription
  /\ payment = [p \in Payments |-> NoPayment]
  /\ checkout = [p \in Payments |-> "none"]
  /\ activations = [p \in Payments |-> 0]
  /\ method = [m \in Methods |-> "none"]
  /\ api = [r \in Requests |-> Quiet]

-----------------------------------------------------------------------------
At(r, op, step) == api[r].op = op /\ api[r].step = step
Reply(r) == api' = [api EXCEPT ![r] = Quiet]

\* The call throws or its process dies; what it wrote stays.
Fail(r) ==
  /\ api[r].step # "idle"
  /\ Reply(r)
  /\ UNCHANGED <<subscription, payment, checkout, activations, method>>

\* SubscriptionPolicy, on the document read.  A plan changes to a higher rank
\* by upgradePlan and to a lower one by downgradePlan.
Terminal == {"cancelled", "expired"}
canActivate(s) == s.status \in {"trial", "past_due"}
canCancel(s) == s.status \notin Terminal
canChangePlan(s, plan) == s.status \notin Terminal /\ plan # s.plan
canExpireTrial(s) == s.status = "trial"

Pending == {p \in Payments : payment[p].status = "pending"}

\* initiateCheckout answers with a pending payment if there is one.
Admits(op, plan) ==
  \/ op = "create" /\ subscription.status = "none"
  \/ /\ subscription.status # "none"
     /\ \/ op = "activate" /\ canActivate(subscription)
        \/ op = "cancel" /\ canCancel(subscription)
        \/ op = "changePlan" /\ canChangePlan(subscription, plan)
        \/ op = "expireTrial" /\ canExpireTrial(subscription)
        \/ op = "checkout" /\ Pending = {}

\* A call reads the subscription and passes its checks.
Read(r, op, plan, cycle) ==
  /\ api[r].step = "idle"
  /\ Admits(op, plan)
  /\ api' = [api EXCEPT ![r] = [Quiet EXCEPT !.op = op, !.step = "read", !.plan = plan,
                                             !.cycle = cycle]]
  /\ UNCHANGED <<subscription, payment, checkout, activations, method>>

\* createSubscription: the unique index on the owner refuses a second row.
createSubscription(r) ==
  /\ At(r, "create", "read")
  /\ subscription' = IF subscription.status = "none"
                     THEN [status |-> "trial", plan |-> api[r].plan, cycle |-> api[r].cycle]
                     ELSE subscription
  /\ Reply(r)
  /\ UNCHANGED <<payment, checkout, activations, method>>

\* activateSubscription, cancelSubscription, upgradePlan, downgradePlan,
\* expireTrial: the update names its fields and has no condition.
UpdateSubscription(r) ==
  /\ api[r].op \in {"activate", "cancel", "changePlan", "expireTrial"}
  /\ api[r].step = "read"
  /\ subscription' =
       CASE api[r].op = "activate" -> [subscription EXCEPT !.status = "active"]
         [] api[r].op = "cancel" -> [subscription EXCEPT !.status = "cancelled"]
         [] api[r].op = "expireTrial" -> [subscription EXCEPT !.status = "expired"]
         [] api[r].op = "changePlan" -> [subscription EXCEPT !.plan = api[r].plan,
                                                             !.cycle = api[r].cycle]
  /\ Reply(r)
  /\ UNCHANGED <<payment, checkout, activations, method>>

-----------------------------------------------------------------------------
\* updateSubscriptionCycle by the checkout handler, before the service call.
updateSubscriptionCycle(cycle) ==
  /\ subscription.status # "none" /\ subscription.cycle # cycle
  /\ subscription' = [subscription EXCEPT !.cycle = cycle]
  /\ UNCHANGED <<payment, checkout, activations, method, api>>

\* initiateCheckout that found no pending payment creates one.
CreatePayment(r, p) ==
  /\ At(r, "checkout", "read")
  /\ payment[p].status = "none"
  /\ payment' = [payment EXCEPT ![p] = [status |-> "pending", known |-> FALSE]]
  /\ api' = [api EXCEPT ![r].step = "gateway", ![r].pay = {p}]
  /\ UNCHANGED <<subscription, checkout, activations, method>>

\* gateway.initiateCheckout: the provider opens a checkout and its answer arrives
\* or is lost; or it refuses.
GatewayAnswers(r) ==
  /\ At(r, "checkout", "gateway")
  /\ checkout' = [p \in Payments |-> IF p \in api[r].pay THEN "open" ELSE checkout[p]]
  /\ api' = [api EXCEPT ![r].step = "store"]
  /\ UNCHANGED <<subscription, payment, activations, method>>

GatewayThrows(r, opened) ==
  /\ At(r, "checkout", "gateway")
  /\ checkout' = [p \in Payments |-> IF p \in api[r].pay /\ opened THEN "open" ELSE checkout[p]]
  /\ payment' = [p \in Payments |-> IF p \in api[r].pay THEN [payment[p] EXCEPT !.status = "failed"]
                                    ELSE payment[p]]
  /\ Reply(r)
  /\ UNCHANGED <<subscription, activations, method>>

StoreCheckoutId(r) ==
  /\ At(r, "checkout", "store")
  /\ payment' = [p \in Payments |-> IF p \in api[r].pay THEN [payment[p] EXCEPT !.known = TRUE]
                                    ELSE payment[p]]
  /\ Reply(r)
  /\ UNCHANGED <<subscription, checkout, activations, method>>

\* External: the customer pays at the provider's page or the attempt fails;
\* a failed attempt can be repeated.
ProviderCharges(p) ==
  /\ checkout[p] \in {"open", "declined"}
  /\ checkout' = [checkout EXCEPT ![p] = "paid"]
  /\ UNCHANGED <<subscription, payment, activations, method, api>>

ProviderDeclines(p) ==
  /\ checkout[p] = "open"
  /\ checkout' = [checkout EXCEPT ![p] = "declined"]
  /\ UNCHANGED <<subscription, payment, activations, method, api>>

\* Mutant: the delivery that loses the claim activates all the same.
WebhookUnclaimed(p) ==
  /\ checkout[p] = "paid"
  /\ payment[p].known
  /\ canActivate(subscription)
  /\ payment' = [payment EXCEPT ![p].status = "succeeded"]
  /\ subscription' = [subscription EXCEPT !.status = "active"]
  /\ activations' = [activations EXCEPT ![p] = @ + 1]
  /\ UNCHANGED <<checkout, method, api>>

\* handleWebhook with a success event of checkout p: claim, policy, activation
\* and outbox event in one transaction.  A throw of canActivate undoes the claim.
WebhookSucceeded(p) ==
  /\ checkout[p] = "paid"
  /\ payment[p].known /\ payment[p].status = "pending"
  /\ canActivate(subscription)
  /\ payment' = [payment EXCEPT ![p].status = "succeeded"]
  /\ subscription' = [subscription EXCEPT !.status = "active"]
  /\ activations' = [activations EXCEPT ![p] = @ + 1]
  /\ UNCHANGED <<checkout, method, api>>

\* Mutant: the failure is written to whatever the payment has become.
WebhookFailsAnyway(p) ==
  /\ checkout[p] # "none"
  /\ payment[p].known
  /\ payment' = [payment EXCEPT ![p].status = "failed"]
  /\ subscription' = [subscription EXCEPT !.status = "past_due"]
  /\ UNCHANGED <<checkout, activations, method, api>>

\* Any other event of the checkout counts as a failure, and the subscription
\* becomes past due whatever its status.  (The providers send such events for
\* declined and for merely unfinished checkouts, also late.)
WebhookFailed(p) ==
  /\ checkout[p] # "none"
  /\ payment[p].known /\ payment[p].status = "pending"
  /\ payment' = [payment EXCEPT ![p].status = "failed"]
  /\ subscription' = [subscription EXCEPT !.status = "past_due"]
  /\ UNCHANGED <<checkout, activations, method, api>>

\* PaymentMethodService.upsert makes the method the default and then clears the
\* others; savePaymentMethod only runs while there is no subscription.
UpsertMethod(r, m) ==
  /\ api[r].step = "idle"
  /\ subscription.status = "none"
  /\ method' = [method EXCEPT ![m] = "default"]
  /\ api' = [api EXCEPT ![r] = [Quiet EXCEPT !.op = "saveMethod", !.step = "default",
                                             !.card = {m}]]
  /\ UNCHANGED <<subscription, payment, checkout, activations>>

\* Mutant: the method of the last call is not made the only default.
ClearNoDefault(r) ==
  /\ At(r, "saveMethod", "default")
  /\ Reply(r)
  /\ UNCHANGED <<subscription, payment, checkout, activations, method>>

ClearOtherDefaults(r) ==
  /\ At(r, "saveMethod", "default")
  /\ method' = [m \in Methods |-> IF method[m] = "default" /\ m \notin api[r].card
                                  THEN "saved" ELSE method[m]]
  /\ Reply(r)
  /\ UNCHANGED <<subscription, payment, checkout, activations>>

RemoveMethod(m) ==
  /\ method[m] # "none"
  /\ method' = [method EXCEPT ![m] = "none"]
  /\ UNCHANGED <<subscription, payment, checkout, activations, api>>

-----------------------------------------------------------------------------
Begin(r) ==
  \/ \E op \in ApiOps \ {"changePlan", "create", "saveMethod"} : Read(r, op, LowestPlan, "monthly")
  \/ \E op \in {"changePlan", "create"}, plan \in Plans, cycle \in Cycles : Read(r, op, plan, cycle)

Continue(r) ==
  \/ createSubscription(r) \/ UpdateSubscription(r)
  \/ GatewayAnswers(r) \/ StoreCheckoutId(r)
  \/ \E p \in Payments : CreatePayment(r, p)
  \/ \E opened \in BOOLEAN : GatewayThrows(r, opened)

Provider == \E p \in Payments : \/ ProviderCharges(p) \/ ProviderDeclines(p)
                                \/ WebhookSucceeded(p) \/ WebhookFailed(p)

SaveMethods == \/ \E r \in Requests : ClearOtherDefaults(r) \/ \E m \in Methods : UpsertMethod(r, m)
               \/ \E m \in Methods : RemoveMethod(m)

Next ==
  \/ \E r \in Requests : Begin(r) \/ Continue(r) \/ Fail(r)
  \/ \E cycle \in Cycles : updateSubscriptionCycle(cycle)
  \/ Provider \/ SaveMethods

Spec == Init /\ [][Next]_vars

-----------------------------------------------------------------------------
Busy == {r \in Requests : api[r].step # "idle"}

\* Every succeeded payment has activated the subscription exactly once and
\* nothing else announces an activation through the outbox, however often the
\* webhook is delivered and whatever else changes the subscription meanwhile.
ActivatedOncePerPayment ==
  \A p \in Payments :
    /\ activations[p] = IF payment[p].status = "succeeded" THEN 1 ELSE 0
    /\ payment[p].status = "succeeded" => checkout[p] = "paid"

\* A settled payment is never opened or settled again.
SettledIsFinal ==
  [][\A p \in Payments : payment[p].status \in {"succeeded", "failed"}
                           => payment'[p].status = payment[p].status]_vars

\* However calls overlap, once they have returned at most one saved payment
\* method is the default (an interrupted upsert leaves two).
OneDefaultMethod ==
  (\A r \in Requests : api[r].op # "saveMethod")
    => \A m, n \in Methods : method[m] = "default" /\ method[n] = "default" => m = n
=============================================================================
