-------------------------------- MODULE Billing --------------------------------
(***************************************************************************)
(* The plan of one tenant and the subscriptions Stripe sells it:           *)
(* tenant-service's checkout, webhook and sync handlers over the columns   *)
(* stripe_customer_id, stripe_sub_id and plan of a tenants row.            *)
(*                                                                         *)
(* Stripe reports every change in an event of its own, in any order, and   *)
(* again when it missed the answer.  The webhook always answers 200,       *)
(* whatever its statements did, so that Stripe never repeats one that      *)
(* failed.  Handlers run side by side, each a read followed by writes.     *)
(***************************************************************************)
EXTENDS Integers, FiniteSets

CONSTANTS
  Customers, Subs,        \* Stripe's ids
  NoCustomer, NoSub,      \* the columns are NULL
  Prices,                 \* the plans with a price at Stripe
  Rank,                   \* how much a plan allows
  Workers,                \* requests served at once
  MaxChanges,             \* bound: purchases, changes of price, cancellations, and faults with them
  MaxPages,               \* bound: checkout pages open or about to be
  MaxSlips                \* bound: failed calls, lost and repeated events

ASSUME IdsAssumption == NoCustomer \notin Customers /\ NoSub \notin Subs
ASSUME PricesAssumption == {"starter", "pro"} \subseteq Prices /\ "free" \notin Prices
ASSUME RankAssumption ==
  /\ Rank \in [Prices \cup {"free"} -> Nat]
  /\ \A p \in Prices : Rank["free"] < Rank["starter"] /\ Rank["starter"] <= Rank[p]
ASSUME BillingBoundsAssumption == MaxChanges \in Nat /\ MaxPages \in Nat /\ MaxSlips \in Nat

VARIABLES
  tenant,    \* the tenant's Stripe columns
  subs,      \* Stripe: subscriptions
  pages,     \* Stripe: checkout pages not completed yet
  news,      \* Stripe: events not delivered yet
  changes,   \* Stripe: how many changes there were, the time stamp of the next
  slips,     \* how many faults there were
  at,        \* where each request is
  job,       \* what it works with
  source,    \* history variable: time and kind of what it was written from
  newest,    \* history variable: the latest such time ever
  sold,      \* history variable: prices a subscription ever had
  causes     \* history variable: reasons for the tenant to differ from Stripe

stripeVars  == <<subs, pages, news, changes, sold>>
workVars    == <<at, job>>
recordVars  == <<tenant, source, newest>>
billingVars == <<tenant, stripeVars, slips, workVars, source, newest, causes>>

BillingPlans == Prices \cup {"free"}
Row    == [customer : Customers \cup {NoCustomer}, sub : Subs \cup {NoSub}, plan : BillingPlans]
Sub    == [state : {"none", "live", "ended"}, customer : Customers \cup {NoCustomer}, price : BillingPlans]
Page   == [customer : Customers, price : Prices]
Stamps == 0..MaxChanges
Event  == [type : {"completed", "updated", "deleted"}, customer : Customers, sub : Subs,
           plan : BillingPlans, stamp : Stamps]
Job    == [kind : {"none", "checkout", "sync", "told"}, row : Row, price : BillingPlans,
           stamp : Stamps, sure : BOOLEAN]
NoRow  == [customer |-> NoCustomer, sub |-> NoSub, plan |-> "free"]
NoJob  == [kind |-> "none", row |-> NoRow, price |-> "free", stamp |-> 0, sure |-> TRUE]

BillingTypeOK ==
  /\ tenant \in Row
  /\ subs \in [Subs -> Sub] /\ pages \subseteq Page /\ news \subseteq Event
  /\ changes \in Stamps /\ slips \in 0..MaxSlips
  /\ at \in [Workers -> {"idle", "pay", "fetch", "write"}] /\ job \in [Workers -> Job]
  /\ source \in [stamp : Stamps, sure : BOOLEAN] /\ newest \in Stamps
  /\ sold \subseteq Prices /\ causes \subseteq {"lost", "replaced", "several"}

BillingInit ==
  /\ tenant = NoRow
  /\ subs = [s \in Subs |-> [state |-> "none", customer |-> NoCustomer, price |-> "free"]]
  /\ pages = {} /\ news = {} /\ changes = 0 /\ slips = 0
  /\ at = [w \in Workers |-> "idle"] /\ job = [w \in Workers |-> NoJob]
  /\ source = [stamp |-> 0, sure |-> TRUE] /\ newest = 0
  /\ sold = {} /\ causes = {}

Live == {s \in Subs : subs[s].state = "live"}
Used == {tenant.customer} \cup {subs[s].customer : s \in Subs} \cup {p.customer : p \in pages}
        \cup {job[w].row.customer : w \in Workers}

To(w, l, j) == at' = [at EXCEPT ![w] = l] /\ job' = [job EXCEPT ![w] = j]
Respond(w)  == To(w, "idle", NoJob)
Slip        == slips < MaxSlips /\ changes + slips < MaxChanges /\ slips' = slips + 1
Cause(c)    == causes' = causes \cup {c}

------------------------------------------------------------------------------
(* What the owner does at Stripe; each change is reported by an event.      *)

Report(type, s, p) ==
  news' = news \cup {[type |-> type, customer |-> subs'[s].customer, sub |-> s, plan |-> p,
                      stamp |-> changes + 1]}

\* The owner pays on a checkout page.  Nothing stops a second subscription beside the first.
Purchase(p, s) ==
  /\ subs[s].state = "none" /\ changes + slips < MaxChanges
  /\ pages' = pages \ {p}
  /\ subs' = [subs EXCEPT ![s] = [state |-> "live", customer |-> p.customer, price |-> p.price]]
  /\ Report("completed", s, p.price)
  /\ changes' = changes + 1 /\ sold' = sold \cup {p.price}
  /\ IF Live # {} THEN Cause("several") ELSE UNCHANGED causes
  /\ UNCHANGED <<recordVars, slips, workVars>>

\* In the customer portal, which BillingPortal opens for the tenant's customer.
ChangePrice(s, p) ==
  /\ s \in Live /\ subs[s].customer = tenant.customer /\ p # subs[s].price /\ changes + slips < MaxChanges
  /\ subs' = [subs EXCEPT ![s].price = p]
  /\ Report("updated", s, p)
  /\ changes' = changes + 1 /\ sold' = sold \cup {p}
  /\ UNCHANGED <<recordVars, pages, slips, workVars, causes>>

\* Cancelled, or not paid any more.
EndSubscription(s) ==
  /\ s \in Live /\ changes + slips < MaxChanges
  /\ subs' = [subs EXCEPT ![s].state = "ended"]
  /\ Report("deleted", s, "free")
  /\ changes' = changes + 1
  /\ UNCHANGED <<recordVars, pages, slips, workVars, sold, causes>>

------------------------------------------------------------------------------
(* Checkout.                                                                *)

\* priceIDForPlan and GetTenantByID: from here on the handler works with this copy of the customer.
BillingCheckout(w, p) ==
  /\ at[w] = "idle" /\ Cardinality(pages) + Cardinality({v \in Workers : at[v] = "pay"}) < MaxPages
  /\ To(w, "pay", [NoJob EXCEPT !.kind = "checkout", !.row.customer = tenant.customer, !.price = p])
  /\ UNCHANGED <<recordVars, stripeVars, slips, causes>>

\* Mutant of NewCustomer: the customer is not stored.
CustomerUnstored(w) ==
  \E c \in Customers \ Used :
    /\ at[w] = "pay" /\ job[w].row.customer = NoCustomer
    /\ To(w, "pay", [job[w] EXCEPT !.row.customer = c])
    /\ UNCHANGED <<recordVars, stripeVars, slips, causes>>
\* customer.New, and UpdateTenantStripe over whatever another request has stored since; when
\* that fails the handler goes on all the same.
NewCustomer(w) ==
  \E c \in Customers \ Used :
    /\ at[w] = "pay" /\ job[w].row.customer = NoCustomer
    /\ To(w, "pay", [job[w] EXCEPT !.row.customer = c])
    /\ \/ /\ tenant' = [customer |-> c, sub |-> NoSub, plan |-> "free"]
          /\ IF tenant.customer # NoCustomer THEN Cause("replaced") ELSE UNCHANGED causes
          /\ UNCHANGED slips
       \/ Slip /\ Cause("lost") /\ UNCHANGED tenant
    /\ UNCHANGED <<stripeVars, source, newest>>

\* stripeSession.New for the handler's customer, whoever the tenant's is by now.
OpenPage(w) ==
  /\ at[w] = "pay" /\ job[w].row.customer # NoCustomer
  /\ pages' = pages \cup {[customer |-> job[w].row.customer, price |-> job[w].price]}
  /\ Respond(w)
  /\ UNCHANGED <<recordVars, subs, news, changes, sold, slips, causes>>

\* customer.New or stripeSession.New fails.
CheckoutFails(w) ==
  /\ at[w] = "pay"
  /\ Respond(w)
  /\ UNCHANGED <<recordVars, stripeVars, slips, causes>>

------------------------------------------------------------------------------
(* Webhook and sync.                                                        *)

\* Mutant of planForPriceID: the default is the largest plan.
planOrPro(p) == IF p \in Prices THEN p ELSE "pro"
\* A price it does not know, or could not fetch, counts as starter.
planForPriceID(p) == IF p \in Prices THEN p ELSE "starter"
UnknownPrice == "free"

\* A session's event carries no price, so it is fetched; the other two carry what they need.
BillingWebhook(w, e) ==
  LET told == [NoJob EXCEPT !.kind = "told", !.stamp = e.stamp,
               !.row = [customer |-> e.customer, sub |-> e.sub, plan |-> e.plan]] IN
  /\ at[w] = "idle"
  /\ CASE e.type = "completed" -> To(w, "fetch", told)
       [] e.type = "updated"   -> To(w, "write", [told EXCEPT !.row.plan = planForPriceID(e.plan)])
       [] e.type = "deleted"   -> To(w, "write", [told EXCEPT !.row.sub = NoSub])
  /\ \/ news' = news \ {e} /\ UNCHANGED slips
     \/ Slip /\ UNCHANGED news
  /\ UNCHANGED <<recordVars, subs, pages, changes, sold, causes>>

\* Stripe gives up, or the service dies on the event.
LoseEvent(e) ==
  /\ Slip /\ Cause("lost")
  /\ news' = news \ {e}
  /\ UNCHANGED <<recordVars, subs, pages, changes, sold, workVars>>

BillingSync(w) ==
  /\ at[w] = "idle" /\ tenant.sub # NoSub
  /\ To(w, "fetch", [NoJob EXCEPT !.kind = "sync", !.row = tenant])
  /\ UNCHANGED <<recordVars, stripeVars, slips, causes>>

\* stripeSub.Get: today's price, and a status nobody looks at.
Fetch(w) ==
  LET j == job[w]  s == subs[j.row.sub] IN
  /\ at[w] = "fetch"
  /\ To(w, "write", [j EXCEPT !.row.plan = planForPriceID(s.price), !.stamp = changes,
                              !.sure = s.state = "live"])
  /\ UNCHANGED <<recordVars, stripeVars, slips, causes>>

\* The webhook goes on with the default, the sync gives up.
FetchFails(w) ==
  LET j == job[w] IN
  /\ at[w] = "fetch" /\ Slip
  /\ IF j.kind = "sync" THEN Respond(w)
     ELSE To(w, "write", [j EXCEPT !.row.plan = planForPriceID(UnknownPrice), !.sure = FALSE])
  /\ UNCHANGED <<recordVars, stripeVars, causes>>

\* Mutant of WriteTenant: the plan stays.
WriteSubOnly(w) == /\ tenant' = [tenant EXCEPT !.sub = job[w].row.sub] /\ UNCHANGED causes
\* UpdateTenantStripeByCustomer changes the tenant that has the customer, if there is one;
\* UpdateTenantStripe writes the copy's customer too.
WriteTenant(w) ==
  LET j == job[w] IN
  /\ tenant' = IF j.kind = "sync" \/ tenant.customer = j.row.customer THEN j.row ELSE tenant
  /\ IF tenant.customer # j.row.customer THEN Cause("replaced") ELSE UNCHANGED causes

Write(w) ==
  LET j == job[w] IN
  /\ at[w] = "write"
  /\ WriteTenant(w)
  /\ source' = [stamp |-> j.stamp, sure |-> j.sure]
  /\ newest' = IF j.stamp > newest THEN j.stamp ELSE newest
  /\ Respond(w)
  /\ UNCHANGED <<stripeVars, slips>>

\* The UPDATE fails; its error is ignored.
WriteFails(w) ==
  /\ at[w] = "write" /\ Slip /\ Cause("lost")
  /\ Respond(w)
  /\ UNCHANGED <<recordVars, stripeVars>>

------------------------------------------------------------------------------
Shop ==
  \/ \E p \in pages, s \in Subs : Purchase(p, s)
  \/ \E s \in Subs : EndSubscription(s) \/ \E p \in Prices : ChangePrice(s, p)
Work(w) ==
  \/ NewCustomer(w) \/ OpenPage(w) \/ CheckoutFails(w)
  \/ Fetch(w) \/ FetchFails(w) \/ Write(w) \/ WriteFails(w)
Handle(w) ==
  \/ \E p \in Prices : BillingCheckout(w, p)
  \/ BillingSync(w)
  \/ \E e \in news : BillingWebhook(w, e)

BillingNext ==
  \/ Shop \/ \E e \in news : LoseEvent(e)
  \/ \E w \in Workers : Handle(w) \/ Work(w)

BillingSpec == BillingInit /\ [][BillingNext]_billingVars

------------------------------------------------------------------------------
\* When Stripe has told everything and no request is under way, the tenant says what Stripe says:
\* the live subscription and its plan, or none and "free".  Excepted is a tenant that
\*  - was written from an older report than one before it (they overtook each other),
\*  - was written from a subscription already over or a price that could not be fetched,
\*  - missed a report ("lost"), whose customer another checkout or a sync overwrote
\*    ("replaced"), or whose owner bought a second subscription beside the first ("several").
AllTold == news = {} /\ \A w \in Workers : at[w] = "idle"
InStep ==
  AllTold /\ causes = {} /\ source = [stamp |-> newest, sure |-> TRUE] =>
    IF Live = {} THEN tenant.sub = NoSub /\ tenant.plan = "free"
    ELSE \A s \in Live : tenant.sub = s /\ tenant.plan = subs[s].price

\* Whoever pays is known: the customer of a live subscription, and of every page on which one
\* may be bought, is the tenant's, unless two checkouts each made a customer, a sync wrote an
\* old one back, or the UPDATE that stores it failed.
PayerKnown ==
  causes \cap {"lost", "replaced"} = {} =>
    /\ \A s \in Live : subs[s].customer = tenant.customer
    /\ \A p \in pages : p.customer = tenant.customer

\* No order of reports, no guess and no stale copy gives a tenant more than was ever sold to it.
NeverAboveSold == tenant.plan # "free" => \E p \in sold : Rank[tenant.plan] <= Rank[p]
=============================================================================
