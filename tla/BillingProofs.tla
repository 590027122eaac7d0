------------------------------ MODULE BillingProofs ------------------------------
(***************************************************************************)
(* Machine-checked proofs about Billing, for any number of customers,      *)
(* subscriptions, prices, requests, changes and faults.                    *)
(***************************************************************************)
EXTENDS Billing, TLAPS

\* The steps of Stripe and of the handlers, each with what it works on: every proof below
\* goes through them one by one.
LEMMA StepKinds ==
  ASSUME BillingNext
  PROVE  \/ \E p \in pages, s \in Subs : Purchase(p, s)
         \/ \E s \in Subs, p \in Prices : ChangePrice(s, p)
         \/ \E s \in Subs : EndSubscription(s)
         \/ \E e \in news : LoseEvent(e)
         \/ \E w \in Workers, p \in Prices : BillingCheckout(w, p)
         \/ \E w \in Workers, e \in news : BillingWebhook(w, e)
         \/ \E w \in Workers : BillingSync(w)
         \/ \E w \in Workers : NewCustomer(w)
         \/ \E w \in Workers : OpenPage(w)
         \/ \E w \in Workers : CheckoutFails(w)
         \/ \E w \in Workers : Fetch(w)
         \/ \E w \in Workers : FetchFails(w)
         \/ \E w \in Workers : Write(w)
         \/ \E w \in Workers : WriteFails(w)
BY DEF BillingNext, Shop, Work, Handle

------------------------------------------------------------------------------
(* Type correctness.  A live subscription has a customer, a request that    *)
(* opens a page has a price for it, one that asks Stripe a subscription.    *)

Stocked ==
  /\ \A s \in Subs : subs[s].state # "none" => subs[s].customer \in Customers
  /\ \A w \in Workers : /\ at[w] = "pay" => job[w].price \in Prices
                        /\ at[w] = "fetch" => job[w].row.sub \in Subs
BInv == BillingTypeOK /\ Stocked

LEMMA PlanType ==
  ASSUME NEW p
  PROVE  planForPriceID(p) \in Prices
BY PricesAssumption DEF planForPriceID

LEMMA BInvInit == BillingInit => BInv
BY BillingBoundsAssumption
DEF BillingInit, BInv, BillingTypeOK, Stocked, NoRow, NoJob, Row, Sub, Job, Stamps, BillingPlans

\* A change at Stripe and its event.
LEMMA ReportType ==
  ASSUME BillingTypeOK, NEW t \in {"completed", "updated", "deleted"}, NEW s \in Subs,
         NEW p \in BillingPlans, subs'[s].customer \in Customers,
         changes + slips < MaxChanges, changes' = changes + 1, Report(t, s, p)
  PROVE  news' \subseteq Event /\ changes' \in Stamps
BY BillingBoundsAssumption DEF BillingTypeOK, Report, Event, Stamps

LEMMA ToType ==
  ASSUME BillingTypeOK, NEW w \in Workers, NEW l \in {"idle", "pay", "fetch", "write"},
         NEW j \in Job, To(w, l, j)
  PROVE  /\ at' \in [Workers -> {"idle", "pay", "fetch", "write"}]
         /\ job' \in [Workers -> Job]
         /\ at'[w] = l /\ job'[w] = j
         /\ \A v \in Workers \ {w} : at'[v] = at[v] /\ job'[v] = job[v]
BY DEF BillingTypeOK, To

LEMMA NoJobType == NoJob \in Job
BY BillingBoundsAssumption DEF NoJob, NoRow, Job, Row, BillingPlans, Stamps

\* The handlers change some fields of a job.
LEMMA JobChange ==
  ASSUME NEW j \in Job
  PROVE  /\ \A p \in BillingPlans : [j EXCEPT !.row.plan = p] \in Job
         /\ \A p \in BillingPlans : [j EXCEPT !.row.plan = p, !.sure = FALSE] \in Job
         /\ \A p \in BillingPlans, n \in Stamps, b \in BOOLEAN :
               [j EXCEPT !.row.plan = p, !.stamp = n, !.sure = b] \in Job
         /\ [j EXCEPT !.row.sub = NoSub] \in Job
<1>1. j.row \in Row /\ \A p \in BillingPlans : [j.row EXCEPT !.plan = p] \in Row
  BY DEF Job, Row
<1>2. [j.row EXCEPT !.sub = NoSub] \in Row
  BY <1>1 DEF Row
<1>3. \A r \in Row : /\ [j EXCEPT !.row = r] \in Job
                     /\ [j EXCEPT !.row = r, !.sure = FALSE] \in Job
                     /\ \A n \in Stamps, b \in BOOLEAN :
                           [j EXCEPT !.row = r, !.stamp = n, !.sure = b] \in Job
  BY DEF Job
<1>4. QED
  BY <1>1, <1>2, <1>3

LEMMA SlipType ==
  ASSUME BillingTypeOK, Slip
  PROVE  slips' \in 0..MaxSlips
BY BillingBoundsAssumption DEF BillingTypeOK, Slip, Stamps

LEMMA ShopType ==
  ASSUME BInv, NEW s \in Subs,
         \/ \E p \in pages : Purchase(p, s)
         \/ \E p \in Prices : ChangePrice(s, p)
         \/ EndSubscription(s)
  PROVE  BInv'
<1> BillingTypeOK /\ Stocked
  BY DEF BInv
<1>1. ASSUME NEW p \in pages, Purchase(p, s)
      PROVE  BInv'
  <2>1. p.customer \in Customers /\ p.price \in Prices
    BY DEF BillingTypeOK, Page
  <2>2. subs' \in [Subs -> Sub] /\ subs'[s].customer = p.customer
        /\ \A x \in Subs \ {s} : subs'[x] = subs[x]
    BY <1>1, <2>1 DEF Purchase, BillingTypeOK, Sub, BillingPlans
  <2>3. news' \subseteq Event /\ changes' \in Stamps
    BY <1>1, <2>1, <2>2, ReportType DEF Purchase, BillingPlans
  <2>4. QED
    BY <1>1, <2>1, <2>2, <2>3, ZenonT(60)
    DEF Purchase, Cause, BInv, BillingTypeOK, Stocked, recordVars, workVars
<1>2. ASSUME NEW p \in Prices, ChangePrice(s, p)
      PROVE  BInv'
  <2>1. subs' \in [Subs -> Sub] /\ subs'[s].customer = subs[s].customer
        /\ subs'[s].state = subs[s].state /\ subs[s].customer \in Customers
        /\ \A x \in Subs \ {s} : subs'[x] = subs[x]
    BY <1>2 DEF ChangePrice, Live, Stocked, BillingTypeOK, Sub, BillingPlans
  <2>2. news' \subseteq Event /\ changes' \in Stamps
    BY <1>2, <2>1, ReportType DEF ChangePrice, BillingPlans
  <2>3. QED
    BY <1>2, <2>1, <2>2
    DEF ChangePrice, BInv, BillingTypeOK, Stocked, recordVars, workVars
<1>3. CASE EndSubscription(s)
  <2>1. subs' \in [Subs -> Sub] /\ subs'[s].customer = subs[s].customer
        /\ subs[s].customer \in Customers
        /\ \A x \in Subs \ {s} : subs'[x] = subs[x]
    BY <1>3 DEF EndSubscription, Live, Stocked, BillingTypeOK, Sub, BillingPlans
  <2>2. news' \subseteq Event /\ changes' \in Stamps
    BY <1>3, <2>1, ReportType DEF EndSubscription, BillingPlans
  <2>3. QED
    BY <1>3, <2>1, <2>2
    DEF EndSubscription, BInv, BillingTypeOK, Stocked, recordVars, workVars
<1>4. QED
  BY <1>1, <1>2, <1>3

LEMMA HandleType ==
  ASSUME BInv, NEW w \in Workers,
         \/ \E p \in Prices : BillingCheckout(w, p)
         \/ \E e \in news : BillingWebhook(w, e)
         \/ BillingSync(w)
  PROVE  BInv'
<1> BillingTypeOK /\ Stocked
  BY DEF BInv
<1>1. ASSUME NEW p \in Prices, BillingCheckout(w, p)
      PROVE  BInv'
  <2> DEFINE j == [NoJob EXCEPT !.kind = "checkout", !.row.customer = tenant.customer, !.price = p]
  <2>1. j \in Job /\ j.price = p
    <3>1. [NoJob.row EXCEPT !.customer = tenant.customer] \in Row /\ p \in BillingPlans
      BY NoJobType DEF BillingTypeOK, Job, Row, BillingPlans
    <3>2. QED
      BY <3>1, NoJobType DEF Job
  <2>2. To(w, "pay", j)
    BY <1>1 DEF BillingCheckout
  <2> HIDE DEF j
  <2>3. Stocked'
    BY <1>1, <2>1, <2>2, ToType DEF BillingCheckout, Stocked, stripeVars
  <2>4. QED
    BY <1>1, <2>1, <2>2, <2>3, ToType
    DEF BillingCheckout, BInv, BillingTypeOK, recordVars, stripeVars
<1>2. ASSUME NEW e \in news, BillingWebhook(w, e)
      PROVE  BInv'
  <2>1. /\ e.type \in {"completed", "updated", "deleted"} /\ e.sub \in Subs
        /\ e.customer \in Customers /\ e.plan \in BillingPlans /\ e.stamp \in Stamps
    BY DEF BillingTypeOK, Event
  <2>2. PICK l \in {"fetch", "write"}, j \in Job :
          To(w, l, j) /\ (l = "fetch" => j.row.sub \in Subs)
    <3> DEFINE told == [NoJob EXCEPT !.kind = "told", !.stamp = e.stamp,
                        !.row = [customer |-> e.customer, sub |-> e.sub, plan |-> e.plan]]
    <3>1. told \in Job /\ told.row.sub \in Subs
      <4>1. [customer |-> e.customer, sub |-> e.sub, plan |-> e.plan] \in Row
        BY <2>1 DEF Row
      <4>2. QED
        BY <2>1, <4>1 DEF NoJob, Job, BillingPlans
    <3>2. CASE e.type = "completed"
      BY <1>2, <3>1, <3>2 DEF BillingWebhook
    <3>3. CASE e.type = "updated"
      <4>1. [told EXCEPT !.row.plan = planForPriceID(e.plan)] \in Job
        BY <3>1, PlanType, JobChange DEF BillingPlans
      <4>2. To(w, "write", [told EXCEPT !.row.plan = planForPriceID(e.plan)])
        BY <1>2, <3>3 DEF BillingWebhook
      <4>3. QED
        BY <4>1, <4>2
    <3>4. CASE e.type = "deleted"
      <4>1. [told EXCEPT !.row.sub = NoSub] \in Job
        BY <2>1, <3>1, JobChange
      <4>2. To(w, "write", [told EXCEPT !.row.sub = NoSub])
        BY <1>2, <3>4 DEF BillingWebhook
      <4>3. QED
        BY <4>1, <4>2
    <3>5. QED
      BY <2>1, <3>2, <3>3, <3>4
  <2>3. news' \subseteq Event /\ slips' \in 0..MaxSlips
    BY <1>2, SlipType DEF BillingWebhook, BillingTypeOK
  <2>4. UNCHANGED <<recordVars, subs, pages, changes, sold, causes>>
    BY <1>2 DEF BillingWebhook
  <2>5. Stocked'
    BY <2>2, <2>4, ToType DEF Stocked
  <2>6. QED
    BY <2>2, <2>3, <2>4, <2>5, ToType DEF BInv, BillingTypeOK, recordVars
<1>3. CASE BillingSync(w)
  <2> DEFINE j == [NoJob EXCEPT !.kind = "sync", !.row = tenant]
  <2>1. j \in Job /\ j.row.sub \in Subs
    <3>1. tenant \in Row /\ tenant.sub \in Subs
      BY <1>3 DEF BillingSync, BillingTypeOK, Row
    <3>2. QED
      BY <3>1, NoJobType DEF Job
  <2>2. To(w, "fetch", j)
    BY <1>3 DEF BillingSync
  <2> HIDE DEF j
  <2>3. QED
    BY <1>3, <2>1, <2>2, ToType
    DEF BillingSync, BInv, BillingTypeOK, Stocked, recordVars, stripeVars
<1>4. QED
  BY <1>1, <1>2, <1>3

\* The job of a checkout that has made a customer.
LEMMA NewCustomerJob ==
  ASSUME BInv, NEW w \in Workers, NewCustomer(w)
  PROVE  \E c \in Customers \ Used, j \in Job :
           /\ To(w, "pay", j) /\ j.row.customer = c /\ j.price = job[w].price
           /\ at[w] = "pay" /\ job[w].row.customer = NoCustomer
           /\ \/ /\ tenant' = [customer |-> c, sub |-> NoSub, plan |-> "free"]
                 /\ IF tenant.customer # NoCustomer THEN Cause("replaced") ELSE UNCHANGED causes
                 /\ UNCHANGED slips
              \/ Slip /\ Cause("lost") /\ UNCHANGED tenant
           /\ UNCHANGED <<stripeVars, source, newest>>
<1> job[w] \in Job
  BY DEF BInv, BillingTypeOK
<1>1. PICK c \in Customers \ Used :
           /\ To(w, "pay", [job[w] EXCEPT !.row.customer = c])
           /\ at[w] = "pay" /\ job[w].row.customer = NoCustomer
           /\ \/ /\ tenant' = [customer |-> c, sub |-> NoSub, plan |-> "free"]
                 /\ IF tenant.customer # NoCustomer THEN Cause("replaced") ELSE UNCHANGED causes
                 /\ UNCHANGED slips
              \/ Slip /\ Cause("lost") /\ UNCHANGED tenant
           /\ UNCHANGED <<stripeVars, source, newest>>
  BY DEF NewCustomer
<1>2. PICK j : j = [job[w] EXCEPT !.row.customer = c]
  OBVIOUS
<1>3. j \in Job /\ j.row.customer = c /\ j.price = job[w].price
  BY <1>2 DEF Job, Row
<1>4. QED
  BY <1>1, <1>2, <1>3

LEMMA PayType ==
  ASSUME BInv, NEW w \in Workers, NewCustomer(w) \/ OpenPage(w) \/ CheckoutFails(w)
  PROVE  BInv'
<1> BillingTypeOK /\ Stocked
  BY DEF BInv
<1>1. CASE NewCustomer(w)
  <2>1. PICK c \in Customers \ Used, j \in Job :
           /\ To(w, "pay", j) /\ j.price = job[w].price /\ at[w] = "pay"
           /\ \/ /\ tenant' = [customer |-> c, sub |-> NoSub, plan |-> "free"]
                 /\ IF tenant.customer # NoCustomer THEN Cause("replaced") ELSE UNCHANGED causes
                 /\ UNCHANGED slips
              \/ Slip /\ Cause("lost") /\ UNCHANGED tenant
           /\ UNCHANGED <<stripeVars, source, newest>>
    BY <1>1, NewCustomerJob
  <2>2. tenant' \in Row
    BY <2>1 DEF BillingTypeOK, Row, BillingPlans
  <2>3. slips' \in 0..MaxSlips /\ causes' \subseteq {"lost", "replaced", "several"}
    BY <2>1, SlipType DEF Cause, BillingTypeOK
  <2>4. QED
    BY <2>1, <2>2, <2>3, ToType DEF BInv, BillingTypeOK, Stocked, stripeVars
<1>2. CASE OpenPage(w) \/ CheckoutFails(w)
  <2>1. /\ Respond(w) /\ at[w] = "pay"
        /\ UNCHANGED <<tenant, subs, news, changes, sold, source, newest, slips, causes>>
    BY <1>2 DEF OpenPage, CheckoutFails, recordVars, stripeVars
  <2>2. job[w].price \in Prices /\ job[w].row.customer \in Customers \cup {NoCustomer}
    BY <2>1 DEF Stocked, BillingTypeOK, Job, Row
  <2>3. pages' \subseteq Page
    BY <1>2, <2>2 DEF OpenPage, CheckoutFails, stripeVars, BillingTypeOK, Page
  <2>4. QED
    BY <2>1, <2>3, ToType, NoJobType DEF Respond, BInv, BillingTypeOK, Stocked
<1>3. QED
  BY <1>1, <1>2

LEMMA FetchType ==
  ASSUME BInv, NEW w \in Workers, Fetch(w) \/ FetchFails(w)
  PROVE  BInv'
<1> BillingTypeOK /\ Stocked
  BY DEF BInv
<1>1. PICK l \in {"idle", "write"}, j \in Job : To(w, l, j)
  <2>1. ASSUME NEW p, NEW n \in Stamps, NEW b \in BOOLEAN
        PROVE  [job[w] EXCEPT !.row.plan = planForPriceID(p), !.stamp = n, !.sure = b] \in Job
    BY <2>1, PlanType, JobChange DEF BillingTypeOK, BillingPlans
  <2>2. CASE Fetch(w)
    BY <2>1, <2>2 DEF Fetch, BillingTypeOK
  <2>3. CASE FetchFails(w)
    <3>1. [job[w] EXCEPT !.row.plan = planForPriceID(UnknownPrice), !.sure = FALSE] \in Job
      <4>1. job[w] \in Job /\ planForPriceID(UnknownPrice) \in BillingPlans
        BY PlanType DEF BillingTypeOK, BillingPlans
      <4>2. QED
        BY <4>1, JobChange
    <3>2. QED
      BY <2>3, <3>1, NoJobType DEF FetchFails, Respond
  <2>4. QED
    BY <2>2, <2>3
<1>2. slips' \in 0..MaxSlips /\ UNCHANGED <<recordVars, stripeVars, causes>>
  BY SlipType DEF Fetch, FetchFails, BillingTypeOK
<1>3. QED
  BY <1>1, <1>2, ToType DEF BInv, BillingTypeOK, Stocked, recordVars, stripeVars

LEMMA WriteType ==
  ASSUME BInv, NEW w \in Workers, Write(w) \/ WriteFails(w)
  PROVE  BInv'
<1> BillingTypeOK /\ Stocked
  BY DEF BInv
<1>1. job[w] \in Job
  BY DEF BillingTypeOK
<1>2. tenant' \in Row /\ source' \in [stamp : Stamps, sure : BOOLEAN] /\ newest' \in Stamps
  BY <1>1 DEF Write, WriteFails, WriteTenant, BillingTypeOK, Job, recordVars
<1>3. slips' \in 0..MaxSlips /\ causes' \subseteq {"lost", "replaced", "several"}
  BY SlipType DEF Write, WriteFails, WriteTenant, Cause, BillingTypeOK
<1>4. UNCHANGED stripeVars /\ Respond(w)
  BY DEF Write, WriteFails
<1>5. QED
  BY <1>2, <1>3, <1>4, ToType, NoJobType
  DEF Respond, BInv, BillingTypeOK, Stocked, stripeVars

LEMMA BInvNext == BInv /\ [BillingNext]_billingVars => BInv'
<1> SUFFICES ASSUME BInv, [BillingNext]_billingVars PROVE BInv'
  OBVIOUS
<1>1. CASE UNCHANGED billingVars
  BY <1>1 DEF BInv, BillingTypeOK, Stocked, billingVars, stripeVars, workVars
<1>2. ASSUME NEW e \in news, LoseEvent(e)
      PROVE  BInv'
  BY <1>2, SlipType
  DEF LoseEvent, Cause, BInv, BillingTypeOK, Stocked, recordVars, workVars
<1>3. QED
  BY <1>1, <1>2, StepKinds, ShopType, HandleType, PayType, FetchType, WriteType

\* Every variable keeps its type.
THEOREM TypeCorrect == BillingSpec => []BillingTypeOK
<1>1. BInv => BillingTypeOK
  BY DEF BInv
<1>2. QED
  BY <1>1, BInvInit, BInvNext, PTL DEF BillingSpec

------------------------------------------------------------------------------
(* No tenant gets more than was sold to it.  Nothing is reported, fetched   *)
(* or written before something was sold, and each plan under way is one     *)
(* that a price sold so far covers.                                         *)

Covered(p) == p = "free" \/ \E q \in sold : Rank[p] <= Rank[q]
SoldInv ==
  /\ Covered(tenant.plan) /\ (tenant.sub # NoSub => sold # {})
  /\ \A s \in Subs : /\ subs[s].price = "free" \/ subs[s].price \in sold
                     /\ subs[s].state # "none" => sold # {}
  /\ \A e \in news : sold # {} /\ (e.plan = "free" \/ e.plan \in sold)
  /\ \A w \in Workers : at[w] \in {"fetch", "write"} => sold # {} /\ Covered(job[w].row.plan)

LEMMA SoldCovers ==
  ASSUME BillingTypeOK, NEW p, p = "free" \/ p \in sold
  PROVE  Covered(p) /\ (sold # {} => Covered(planForPriceID(p)))
<1>1. \A q \in sold : Rank[q] \in Nat /\ Rank["starter"] <= Rank[q]
  BY RankAssumption DEF BillingTypeOK
<1>2. Covered(p)
  BY <1>1 DEF Covered
<1>3. ASSUME sold # {}
      PROVE  Covered(planForPriceID(p))
  <2>1. Covered("starter")
    BY <1>1, <1>3 DEF Covered
  <2>2. QED
    BY <1>2, <2>1 DEF planForPriceID
<1>4. QED
  BY <1>2, <1>3

LEMMA SoldInvInit == BillingInit => SoldInv
BY DEF BillingInit, SoldInv, Covered, NoRow

LEMMA SoldInvNext == BInv /\ SoldInv /\ [BillingNext]_billingVars => SoldInv'
<1> SUFFICES ASSUME BInv, SoldInv, [BillingNext]_billingVars PROVE SoldInv'
  OBVIOUS
<1> BillingTypeOK /\ Stocked
  BY DEF BInv
<1> NoJob.row.plan = "free" /\ NoJob.row.sub = NoSub
  BY DEF NoJob, NoRow
<1>1. CASE UNCHANGED billingVars
  BY <1>1 DEF SoldInv, Covered, billingVars, stripeVars, workVars
<1>2. ASSUME NEW p \in pages, NEW s \in Subs, Purchase(p, s)
      PROVE  SoldInv'
  <2>1. /\ sold' = sold \cup {p.price} /\ UNCHANGED <<tenant, at, job>>
        /\ subs' = [subs EXCEPT ![s] = [state |-> "live", customer |-> p.customer, price |-> p.price]]
        /\ \A e \in news' : e \in news \/ e.plan = p.price
    BY <1>2 DEF Purchase, Report, recordVars, workVars
  <2>2. QED
    BY <2>1 DEF SoldInv, Covered, BillingTypeOK
<1>3. ASSUME NEW s \in Subs, NEW p \in Prices, ChangePrice(s, p)
      PROVE  SoldInv'
  <2>1. /\ sold' = sold \cup {p} /\ UNCHANGED <<tenant, at, job>>
        /\ subs' = [subs EXCEPT ![s].price = p]
        /\ \A e \in news' : e \in news \/ e.plan = p
    BY <1>3 DEF ChangePrice, Report, recordVars, workVars
  <2>2. QED
    BY <2>1 DEF SoldInv, Covered, BillingTypeOK, Sub
<1>4. ASSUME NEW s \in Subs, EndSubscription(s)
      PROVE  SoldInv'
  <2>1. /\ UNCHANGED <<tenant, at, job, sold>> /\ subs[s].price \in Prices \cup {"free"}
        /\ subs' = [subs EXCEPT ![s].state = "ended"]
        /\ \A e \in news' : e \in news \/ e.plan = "free"
    BY <1>4 DEF EndSubscription, Report, recordVars, workVars, BillingTypeOK, Sub, BillingPlans
  <2>2. sold # {}
    BY <1>4 DEF EndSubscription, Live, SoldInv
  <2>3. QED
    BY <2>1, <2>2 DEF SoldInv, Covered, BillingTypeOK, Sub
<1>5. ASSUME NEW e \in news, LoseEvent(e)
      PROVE  SoldInv'
  BY <1>5 DEF LoseEvent, SoldInv, Covered, recordVars, workVars
<1>6. ASSUME NEW w \in Workers, NEW p \in Prices, BillingCheckout(w, p)
      PROVE  SoldInv'
  BY <1>6 DEF BillingCheckout, To, SoldInv, Covered, BillingTypeOK, recordVars, stripeVars
<1>7. ASSUME NEW w \in Workers, NEW e \in news, BillingWebhook(w, e)
      PROVE  SoldInv'
  <2>1. Covered(e.plan) /\ Covered(planForPriceID(e.plan)) /\ sold # {}
    BY SoldCovers DEF SoldInv
  <2>2. PICK l, j : To(w, l, j) /\ Covered(j.row.plan)
    <3> DEFINE r == [customer |-> e.customer, sub |-> e.sub, plan |-> e.plan]
               told == [NoJob EXCEPT !.kind = "told", !.stamp = e.stamp, !.row = r]
               updated == [told EXCEPT !.row.plan = planForPriceID(e.plan)]
               deleted == [told EXCEPT !.row.sub = NoSub]
    <3>1. told.row.plan = e.plan /\ updated.row.plan = planForPriceID(e.plan)
          /\ deleted.row.plan = e.plan
      BY DEF NoJob
    <3>2. To(w, "fetch", told) \/ To(w, "write", updated) \/ To(w, "write", deleted)
      BY <1>7 DEF BillingWebhook, BillingTypeOK, Event
    <3> HIDE DEF told, updated, deleted
    <3>3. QED
      BY <2>1, <3>1, <3>2
  <2>3. UNCHANGED <<tenant, subs, sold>> /\ news' \subseteq news
    BY <1>7 DEF BillingWebhook, recordVars
  <2>4. QED
    BY <2>1, <2>2, <2>3 DEF To, SoldInv, Covered, BillingTypeOK
<1>8. ASSUME NEW w \in Workers, BillingSync(w)
      PROVE  SoldInv'
  <2>1. PICK j : To(w, "fetch", j) /\ j.row = tenant
    <3> DEFINE copy == [NoJob EXCEPT !.kind = "sync", !.row = tenant]
    <3>1. copy.row = tenant
      BY DEF NoJob
    <3>2. To(w, "fetch", copy)
      BY <1>8 DEF BillingSync
    <3> HIDE DEF copy
    <3>3. QED
      BY <3>1, <3>2
  <2>2. UNCHANGED <<tenant, subs, sold, news>> /\ sold # {}
    BY <1>8 DEF BillingSync, recordVars, stripeVars, SoldInv
  <2>3. QED
    BY <2>1, <2>2 DEF To, SoldInv, Covered, BillingTypeOK
<1>9. ASSUME NEW w \in Workers, NewCustomer(w) \/ OpenPage(w) \/ CheckoutFails(w)
      PROVE  SoldInv'
  <2>1. PICK l \in {"idle", "pay"}, j \in Job : To(w, l, j)
    BY <1>9, NewCustomerJob, NoJobType DEF OpenPage, CheckoutFails, Respond
  <2>2. /\ UNCHANGED <<subs, sold, news>>
        /\ tenant' = tenant \/ (tenant'.plan = "free" /\ tenant'.sub = NoSub)
    <3>1. CASE NewCustomer(w)
      BY <3>1, NewCustomerJob DEF stripeVars
    <3>2. CASE OpenPage(w) \/ CheckoutFails(w)
      BY <3>2 DEF OpenPage, CheckoutFails, recordVars, stripeVars
    <3>3. QED
      BY <1>9, <3>1, <3>2
  <2>3. QED
    BY <2>1, <2>2 DEF To, SoldInv, Covered, BillingTypeOK
<1>10. ASSUME NEW w \in Workers, Fetch(w) \/ FetchFails(w)
       PROVE  SoldInv'
  <2>1. sold # {} /\ job[w].row.sub \in Subs
    BY <1>10 DEF Fetch, FetchFails, SoldInv, Stocked
  <2>2. Covered(planForPriceID(subs[job[w].row.sub].price)) /\ Covered(planForPriceID(UnknownPrice))
    BY <2>1, SoldCovers DEF SoldInv, UnknownPrice
  <2>3. PICK l, j : /\ l \in {"write", "idle"} /\ To(w, l, j)
                    /\ l = "write" => Covered(j.row.plan)
    <3> PICK b \in BOOLEAN : b = (subs[job[w].row.sub].state = "live")
      OBVIOUS
    <3> DEFINE known == [job[w] EXCEPT !.row.plan = planForPriceID(subs[job[w].row.sub].price),
                          !.stamp = changes, !.sure = b]
               default == [job[w] EXCEPT !.row.plan = planForPriceID(UnknownPrice), !.sure = FALSE]
    <3>1. known.row.plan = planForPriceID(subs[job[w].row.sub].price)
      BY DEF BillingTypeOK, Job, Row
    <3>2. default.row.plan = planForPriceID(UnknownPrice)
      BY DEF BillingTypeOK, Job, Row
    <3>3. To(w, "write", known) \/ To(w, "write", default) \/ To(w, "idle", NoJob)
      BY <1>10 DEF Fetch, FetchFails, Respond
    <3> HIDE DEF known, default
    <3>4. QED
      BY <2>2, <3>1, <3>2, <3>3
  <2>4. UNCHANGED <<tenant, subs, sold, news>>
    BY <1>10 DEF Fetch, FetchFails, recordVars, stripeVars
  <2>5. \A v \in Workers : at'[v] \in {"fetch", "write"} => sold # {} /\ Covered(job'[v].row.plan)
    <3>1. at \in [Workers -> {"idle", "pay", "fetch", "write"}] /\ job \in [Workers -> Job]
      BY DEF BillingTypeOK
    <3>2. at'[w] = l /\ job'[w] = j /\ \A v \in Workers \ {w} : at'[v] = at[v] /\ job'[v] = job[v]
      BY <2>3, <3>1 DEF To
    <3>3. QED
      BY <2>1, <2>3, <3>2 DEF SoldInv, Covered
  <2>6. QED
    BY <2>4, <2>5 DEF SoldInv, Covered
<1>11. ASSUME NEW w \in Workers, Write(w) \/ WriteFails(w)
       PROVE  SoldInv'
  <2>1. To(w, "idle", NoJob) /\ UNCHANGED <<subs, sold, news>> /\ tenant' \in {tenant, job[w].row}
    BY <1>11 DEF Write, WriteFails, WriteTenant, Respond, recordVars, stripeVars
  <2>2. sold # {} /\ Covered(job[w].row.plan)
    BY <1>11 DEF Write, WriteFails, SoldInv
  <2>3. QED
    BY <2>1, <2>2 DEF To, SoldInv, Covered, BillingTypeOK
<1>12. QED
  BY <1>1, <1>2, <1>3, <1>4, <1>5, <1>6, <1>7, <1>8, <1>9, <1>10, <1>11, StepKinds

\* Whatever Stripe's reports say in whatever order, and whichever are lost, repeated, guessed or
\* written from a stale copy, a tenant has no plan above the largest ever sold to it.
THEOREM NothingUnsold == BillingSpec => []NeverAboveSold
<1>1. SoldInv => NeverAboveSold
  BY DEF SoldInv, Covered, NeverAboveSold
<1>2. QED
  BY <1>1, BInvInit, BInvNext, SoldInvInit, SoldInvNext, PTL DEF BillingSpec

------------------------------------------------------------------------------
(* Whoever pays is known.  A checkout that found a customer still finds it  *)
(* the tenant's, unless one of the causes has struck.                       *)

PayInv ==
  causes \cap {"lost", "replaced"} = {} =>
    /\ \A s \in Live : subs[s].customer = tenant.customer
    /\ \A p \in pages : p.customer = tenant.customer
    /\ \A w \in Workers : at[w] = "pay" /\ job[w].row.customer # NoCustomer =>
         job[w].row.customer = tenant.customer

LEMMA PayInvInit == BillingInit => PayInv
BY DEF BillingInit, PayInv, Live

LEMMA PayInvNext == BInv /\ PayInv /\ [BillingNext]_billingVars => PayInv'
<1> SUFFICES ASSUME BInv, PayInv, [BillingNext]_billingVars PROVE PayInv'
  OBVIOUS
<1> BillingTypeOK /\ Stocked
  BY DEF BInv
<1>1. CASE UNCHANGED billingVars
  BY <1>1 DEF PayInv, Live, billingVars, stripeVars, workVars
<1>2. ASSUME NEW p \in pages, NEW s \in Subs, Purchase(p, s)
      PROVE  PayInv'
  <2>1. /\ pages' \subseteq pages /\ UNCHANGED <<tenant, at, job>> /\ causes \subseteq causes'
        /\ subs' = [subs EXCEPT ![s] = [state |-> "live", customer |-> p.customer, price |-> p.price]]
    BY <1>2 DEF Purchase, Cause, recordVars, workVars
  <2>2. QED
    BY <2>1 DEF PayInv, Live, BillingTypeOK
<1>3. ASSUME NEW s \in Subs, (\E p \in Prices : ChangePrice(s, p)) \/ EndSubscription(s)
      PROVE  PayInv'
  <2>1. /\ UNCHANGED <<tenant, pages, at, job, causes>>
        /\ \A x \in Subs : subs'[x].customer = subs[x].customer /\ (x \in Live' => x \in Live)
    BY <1>3 DEF ChangePrice, EndSubscription, Live, recordVars, workVars, BillingTypeOK, Sub
  <2>2. QED
    BY <2>1 DEF PayInv, Live
<1>4. ASSUME NEW e \in news, LoseEvent(e)
      PROVE  PayInv'
  BY <1>4 DEF LoseEvent, Cause, PayInv
<1>5. ASSUME NEW w \in Workers, NEW p \in Prices, BillingCheckout(w, p)
      PROVE  PayInv'
  <2>1. PICK j : To(w, "pay", j) /\ j.row.customer = tenant.customer
    <3> DEFINE copy == [NoJob EXCEPT !.kind = "checkout", !.row.customer = tenant.customer, !.price = p]
    <3>1. copy.row.customer = tenant.customer
      BY DEF NoJob, NoRow
    <3>2. To(w, "pay", copy)
      BY <1>5 DEF BillingCheckout
    <3> HIDE DEF copy
    <3>3. QED
      BY <3>1, <3>2
  <2>2. QED
    BY <1>5, <2>1 DEF BillingCheckout, To, PayInv, Live, BillingTypeOK, recordVars, stripeVars
<1>6. ASSUME NEW w \in Workers, NEW l \in {"idle", "fetch", "write"}, NEW j, To(w, l, j),
             UNCHANGED <<tenant, subs, pages>>, causes \subseteq causes'
      PROVE  PayInv'
  BY <1>6 DEF To, PayInv, Live, BillingTypeOK
<1>7. ASSUME NEW w \in Workers, NEW e \in news, BillingWebhook(w, e)
      PROVE  PayInv'
  <2>1. \E l \in {"idle", "fetch", "write"} : \E j : To(w, l, j)
    BY <1>7 DEF BillingWebhook, BillingTypeOK, Event
  <2>2. UNCHANGED <<tenant, subs, pages, causes>>
    BY <1>7 DEF BillingWebhook, recordVars
  <2>3. QED
    BY <1>6, <2>1, <2>2
<1>8. ASSUME NEW w \in Workers, BillingSync(w) \/ Fetch(w) \/ FetchFails(w) \/ WriteFails(w)
      PROVE  PayInv'
  <2>1. \E l \in {"idle", "fetch", "write"} : \E j : To(w, l, j)
    BY <1>8 DEF BillingSync, Fetch, FetchFails, WriteFails, Respond
  <2>2. UNCHANGED <<tenant, subs, pages>> /\ causes \subseteq causes'
    BY <1>8 DEF BillingSync, Fetch, FetchFails, WriteFails, Cause, recordVars, stripeVars
  <2>3. QED
    BY <1>6, <2>1, <2>2
<1>9. ASSUME NEW w \in Workers, OpenPage(w) \/ CheckoutFails(w)
      PROVE  PayInv'
  <2>1. /\ To(w, "idle", NoJob) /\ UNCHANGED <<tenant, subs, causes>> /\ at[w] = "pay"
        /\ \A p \in pages' : \/ p \in pages
                             \/ job[w].row.customer # NoCustomer /\ p.customer = job[w].row.customer
    BY <1>9 DEF OpenPage, CheckoutFails, Respond, recordVars, stripeVars
  <2>2. QED
    BY <2>1 DEF To, PayInv, Live, BillingTypeOK
<1>10. ASSUME NEW w \in Workers, NewCustomer(w)
       PROVE  PayInv'
  <2>1. PICK c \in Customers, j \in Job :
          /\ To(w, "pay", j) /\ j.row.customer = c /\ UNCHANGED <<subs, pages>>
          /\ \/ tenant'.customer = c /\ causes \subseteq causes'
                /\ (tenant.customer # NoCustomer => "replaced" \in causes')
             \/ "lost" \in causes'
    BY <1>10, NewCustomerJob DEF Cause, stripeVars
  <2>2. CASE "lost" \in causes' \/ "replaced" \in causes'
    BY <2>2 DEF PayInv
  <2>3. CASE tenant.customer = NoCustomer /\ tenant'.customer = c /\ causes \subseteq causes'
    <3>1. CASE causes' \cap {"lost", "replaced"} # {}
      BY <3>1 DEF PayInv
    <3>2. CASE causes' \cap {"lost", "replaced"} = {}
      <4>1. pages = {}
        BY <2>3, <3>2, IdsAssumption DEF PayInv, BillingTypeOK, Page
      <4>2. Live = {}
        BY <2>3, <3>2, IdsAssumption DEF PayInv, Stocked, Live
      <4>3. \A v \in Workers : at[v] = "pay" => job[v].row.customer = NoCustomer
        BY <2>3, <3>2 DEF PayInv
      <4>4. QED
        BY <2>1, <2>3, <4>1, <4>2, <4>3 DEF To, PayInv, Live, BillingTypeOK
    <3>3. QED
      BY <3>1, <3>2
  <2>4. QED
    BY <2>1, <2>2, <2>3
<1>11. ASSUME NEW w \in Workers, Write(w)
       PROVE  PayInv'
  <2>1. /\ To(w, "idle", NoJob) /\ UNCHANGED <<subs, pages>> /\ causes \subseteq causes'
        /\ "replaced" \in causes' \/ tenant'.customer = tenant.customer
    BY <1>11 DEF Write, WriteTenant, Respond, Cause, stripeVars
  <2>2. QED
    BY <2>1 DEF To, PayInv, Live, BillingTypeOK
<1>12. QED
  BY <1>1, <1>2, <1>3, <1>4, <1>5, <1>7, <1>8, <1>9, <1>10, <1>11, StepKinds

\* Whoever holds a live subscription or an open checkout page is the tenant's customer, unless
\* two checkouts or a sync replaced the customer, or a failed statement lost it.
THEOREM PayerIsKnown == BillingSpec => []PayerKnown
<1>1. PayInv => PayerKnown
  BY DEF PayInv, PayerKnown
<1>2. QED
  BY <1>1, BInvInit, BInvNext, PayInvInit, PayInvNext, PTL DEF BillingSpec

------------------------------------------------------------------------------
(* In step with Stripe.  Stamps order what the handlers work with: only the  *)
(* last change has the stamp `changes', and until no cause has struck,       *)
(* whatever carries this stamp agrees with Stripe, and something on its way  *)
(* to the tenant carries it until the tenant was written from it.            *)

Agrees(r) == IF Live = {} THEN r.sub = NoSub /\ r.plan = "free"
             ELSE \A s \in Live : r.sub = s /\ r.plan = subs[s].price
UnderWay(w) == at[w] \in {"fetch", "write"}

Clock ==
  /\ newest <= changes /\ source.stamp <= newest
  /\ \A e \in news : e.stamp <= changes
  /\ \A w \in Workers : /\ UnderWay(w) => job[w].stamp <= changes
                        /\ at[w] = "fetch" /\ job[w].kind = "sync" => job[w].stamp = 0

Single    == /\ \A s, t \in Live : s = t
             /\ \A s \in Live : subs[s].price \in Prices
Customary == /\ tenant.customer = NoCustomer => tenant.sub = NoSub /\ tenant.plan = "free"
             /\ \A w \in Workers : UnderWay(w) => job[w].row.customer \in Customers
NewsAgree == \A e \in news : e.stamp = changes =>
               /\ e.type = "updated" => e.sub \in Live /\ e.plan = subs[e.sub].price
               /\ e.type = "deleted" => Live = {} /\ e.plan = "free"
JobsAgree == \A w \in Workers :
               at[w] = "write" /\ job[w].sure /\ job[w].stamp = changes => Agrees(job[w].row)
RecordAgrees == source = [stamp |-> changes, sure |-> TRUE] => Agrees(tenant)
Carried == newest < changes => \/ \E e \in news : e.stamp = changes
                               \/ \E w \in Workers : UnderWay(w) /\ job[w].stamp = changes
StepInv == causes = {} =>
             Single /\ Customary /\ NewsAgree /\ JobsAgree /\ RecordAgrees /\ Carried

LEMMA StampsInit == BillingInit => Clock /\ StepInv
<1> SUFFICES ASSUME BillingInit PROVE Clock /\ StepInv
  OBVIOUS
<1>1. Live = {}
  BY DEF BillingInit, Live
<1>2. QED
  BY <1>1 DEF BillingInit, Clock, StepInv, UnderWay, Single, Customary, NewsAgree, JobsAgree, RecordAgrees,
              Carried, Agrees, NoRow

LEMMA InStepFromStamps == BInv /\ Clock /\ StepInv => InStep
<1> SUFFICES ASSUME BInv, Clock, StepInv, AllTold, causes = {}, source = [stamp |-> newest, sure |-> TRUE]
             PROVE  Agrees(tenant)
  BY DEF InStep, Agrees
<1>1. newest \in Nat /\ changes \in Nat
  BY BillingBoundsAssumption DEF BInv, BillingTypeOK, Stamps
<1>2. ~(newest < changes)
  BY DEF StepInv, Carried, AllTold, UnderWay
<1>3. newest = changes
  BY <1>1, <1>2 DEF Clock
<1>4. QED
  BY <1>3 DEF StepInv, RecordAgrees

\* The handlers' jobs.
LEMMA ReportJob ==
  ASSUME BInv, NEW w \in Workers, NEW e \in news, BillingWebhook(w, e)
  PROVE  \E l \in {"fetch", "write"}, j \in Job :
           /\ To(w, l, j) /\ j.stamp = e.stamp /\ j.kind = "told" /\ j.row.customer = e.customer
           /\ \/ l = "fetch"
              \/ e.type = "updated" /\ j.row.sub = e.sub /\ j.row.plan = planForPriceID(e.plan)
              \/ e.type = "deleted" /\ j.row.sub = NoSub /\ j.row.plan = e.plan
<1>1. /\ e.type \in {"completed", "updated", "deleted"} /\ e.sub \in Subs
      /\ e.customer \in Customers /\ e.plan \in BillingPlans /\ e.stamp \in Stamps
  BY DEF BInv, BillingTypeOK, Event
<1>2. PICK r : r = [customer |-> e.customer, sub |-> e.sub, plan |-> e.plan]
  OBVIOUS
<1>3. PICK told : told = [NoJob EXCEPT !.kind = "told", !.stamp = e.stamp, !.row = r]
  OBVIOUS
<1>4. /\ told \in Job /\ told.stamp = e.stamp /\ told.kind = "told" /\ told.row = r
  <2>1. r \in Row
    BY <1>1, <1>2 DEF Row
  <2>2. QED
    BY <1>1, <1>3, <2>1 DEF NoJob, Job, BillingPlans
<1>5. CASE e.type = "completed"
  <2>1. To(w, "fetch", told)
    BY <1>2, <1>3, <1>5 DEF BillingWebhook
  <2>2. told.row.customer = e.customer
    BY <1>2, <1>4
  <2>3. QED
    BY <1>4, <2>1, <2>2
<1>6. CASE e.type = "updated"
  <2>1. PICK j : j = [told EXCEPT !.row.plan = planForPriceID(e.plan)]
    OBVIOUS
  <2>2. j \in Job
    BY <1>4, <2>1, PlanType, JobChange DEF BillingPlans
  <2>3. /\ j.stamp = e.stamp /\ j.kind = "told" /\ j.row.customer = e.customer
        /\ j.row.sub = e.sub /\ j.row.plan = planForPriceID(e.plan)
    BY <1>2, <1>4, <2>1 DEF Job
  <2>4. To(w, "write", j)
    BY <1>2, <1>3, <1>6, <2>1 DEF BillingWebhook
  <2>5. QED
    BY <1>6, <2>2, <2>3, <2>4
<1>7. CASE e.type = "deleted"
  <2>1. PICK j : j = [told EXCEPT !.row.sub = NoSub]
    OBVIOUS
  <2>2. j \in Job
    BY <1>4, <2>1, JobChange
  <2>3. /\ j.stamp = e.stamp /\ j.kind = "told" /\ j.row.customer = e.customer
        /\ j.row.sub = NoSub /\ j.row.plan = e.plan
    BY <1>2, <1>4, <2>1 DEF Job
  <2>4. To(w, "write", j)
    BY <1>2, <1>3, <1>7, <2>1 DEF BillingWebhook
  <2>5. QED
    BY <1>7, <2>2, <2>3, <2>4
<1>8. QED
  BY <1>1, <1>5, <1>6, <1>7

LEMMA SyncJob ==
  ASSUME BInv, NEW w \in Workers, BillingSync(w)
  PROVE  \E j \in Job : To(w, "fetch", j) /\ j.kind = "sync" /\ j.stamp = 0 /\ j.row = tenant
<1>1. PICK j : j = [NoJob EXCEPT !.kind = "sync", !.row = tenant]
  OBVIOUS
<1>2. j \in Job /\ j.kind = "sync" /\ j.stamp = 0 /\ j.row = tenant
  BY <1>1, NoJobType DEF BInv, BillingTypeOK, Job, NoJob
<1>3. To(w, "fetch", j)
  BY <1>1 DEF BillingSync
<1>4. QED
  BY <1>2, <1>3

LEMMA FetchedJob ==
  ASSUME BInv, NEW w \in Workers, Fetch(w)
  PROVE  \E j \in Job :
           /\ To(w, "write", j) /\ j.stamp = changes
           /\ j.row.customer = job[w].row.customer /\ j.row.sub = job[w].row.sub
           /\ j.row.plan = planForPriceID(subs[job[w].row.sub].price)
           /\ j.sure => job[w].row.sub \in Live
<1>1. PICK b \in BOOLEAN : b = (subs[job[w].row.sub].state = "live")
  OBVIOUS
<1>2. PICK i, p : i = job[w] /\ p = planForPriceID(subs[job[w].row.sub].price)
  OBVIOUS
<1>3. PICK j : j = [i EXCEPT !.row.plan = p, !.stamp = changes, !.sure = b]
  OBVIOUS
<1>4. i \in Job /\ i.row \in Row /\ p \in BillingPlans /\ i.row.sub \in Subs
  BY <1>2, PlanType DEF BInv, BillingTypeOK, Job, BillingPlans, Fetch, Stocked
<1>5. j \in Job
  BY <1>3, <1>4, JobChange DEF BInv, BillingTypeOK
<1>6. /\ j.stamp = changes /\ j.row.customer = i.row.customer /\ j.row.sub = i.row.sub
      /\ j.row.plan = p /\ j.sure = b
  BY <1>3, <1>4 DEF Job, Row
<1>7. To(w, "write", j)
  BY <1>1, <1>2, <1>3 DEF Fetch
<1>8. QED
  BY <1>1, <1>2, <1>4, <1>5, <1>6, <1>7 DEF Live

LEMMA UnfetchedJob ==
  ASSUME BInv, NEW w \in Workers, FetchFails(w)
  PROVE  \/ To(w, "idle", NoJob) /\ job[w].kind = "sync"
         \/ \E j \in Job : /\ To(w, "write", j) /\ j.stamp = job[w].stamp
                           /\ j.row.customer = job[w].row.customer /\ ~j.sure
<1>1. PICK i, p : i = job[w] /\ p = planForPriceID(UnknownPrice)
  OBVIOUS
<1>2. PICK j : j = [i EXCEPT !.row.plan = p, !.sure = FALSE]
  OBVIOUS
<1>3. i \in Job /\ i.row \in Row /\ p \in BillingPlans
  BY <1>1, PlanType DEF BInv, BillingTypeOK, Job, BillingPlans
<1>4. j \in Job
  BY <1>2, <1>3, JobChange
<1>5. j.stamp = i.stamp /\ j.row.customer = i.row.customer /\ ~j.sure
  BY <1>2, <1>3 DEF Job, Row
<1>6. (To(w, "idle", NoJob) /\ i.kind = "sync") \/ To(w, "write", j)
  BY <1>1, <1>2 DEF FetchFails, Respond
<1>7. QED
  BY <1>1, <1>4, <1>5, <1>6

\* A request goes on with another job; nothing else changes that the stamps are about.
LEMMA JobMoves ==
  ASSUME BInv, StepInv, NEW w \in Workers, NEW l \in {"idle", "pay", "fetch", "write"}, NEW j \in Job,
         To(w, l, j), UNCHANGED <<tenant, subs, changes, source, newest>>, causes' = {} => causes = {},
         causes' = {} /\ l \in {"fetch", "write"} => j.row.customer \in Customers,
         causes' = {} /\ l = "write" /\ j.sure /\ j.stamp = changes => Agrees(j.row),
         \A e \in news' : e \in news,
         causes' = {} /\ newest < changes =>
           \A e \in news : e.stamp = changes /\ e \notin news' => l \in {"fetch", "write"} /\ j.stamp = changes,
         causes' = {} /\ newest < changes /\ UnderWay(w) /\ job[w].stamp = changes =>
           l \in {"fetch", "write"} /\ j.stamp = changes
  PROVE  StepInv'
<1> BillingTypeOK
  BY DEF BInv
<1> SUFFICES ASSUME causes' = {}
             PROVE  (Single /\ Customary /\ NewsAgree /\ JobsAgree /\ RecordAgrees /\ Carried)'
  BY DEF StepInv
<1>1. Single /\ Customary /\ NewsAgree /\ JobsAgree /\ RecordAgrees /\ Carried
  BY DEF StepInv
<1>2. at'[w] = l /\ job'[w] = j /\ \A v \in Workers \ {w} : at'[v] = at[v] /\ job'[v] = job[v]
  BY ToType
<1>3. Live' = Live /\ \A r : Agrees(r)' = Agrees(r)
  BY DEF Live, Agrees
<1>4. Single' /\ NewsAgree'
  BY <1>1, <1>3 DEF Single, NewsAgree
<1>5. Customary'
  BY <1>1, <1>2 DEF Customary, UnderWay
<1>6. JobsAgree'
  <2> SUFFICES ASSUME NEW v \in Workers, NEW r, r = job'[v].row,
                      at'[v] = "write", job'[v].sure, job'[v].stamp = changes
               PROVE  Agrees(r)'
    BY DEF JobsAgree, Agrees
  <2>1. CASE v = w
    BY <1>2, <1>3, <2>1
  <2>2. CASE v # w
    <3>1. Agrees(job[v].row) /\ job'[v] = job[v]
      BY <1>1, <1>2, <2>2 DEF JobsAgree
    <3>2. QED
      BY <1>3, <3>1
  <2>3. QED
    BY <2>1, <2>2
<1>7. RecordAgrees'
  <2>1. PICK r : r = tenant /\ r = tenant'
    OBVIOUS
  <2>2. QED
    BY <1>1, <1>3, <2>1 DEF RecordAgrees
<1>8. Carried'
  <2> SUFFICES ASSUME newest < changes
               PROVE  \/ \E e \in news' : e.stamp = changes
                      \/ \E v \in Workers : UnderWay(v)' /\ job'[v].stamp = changes
    BY DEF Carried
  <2>1. CASE l \in {"fetch", "write"} /\ j.stamp = changes
    BY <1>2, <2>1 DEF UnderWay
  <2>2. CASE ~(l \in {"fetch", "write"} /\ j.stamp = changes)
    <3>1. \A e \in news : e.stamp = changes => e \in news'
      BY <2>2
    <3>2. ~(UnderWay(w) /\ job[w].stamp = changes)
      BY <2>2
    <3>3. (\E e \in news : e.stamp = changes) \/ \E v \in Workers \ {w} : UnderWay(v) /\ job[v].stamp = changes
      BY <1>1, <3>2 DEF Carried
    <3>4. QED
      BY <1>2, <3>1, <3>3 DEF UnderWay
  <2>3. QED
    BY <2>1, <2>2
<1>9. QED
  BY <1>4, <1>5, <1>6, <1>7, <1>8

LEMMA ClockMoves ==
  ASSUME BInv, Clock, NEW w \in Workers, NEW l \in {"idle", "pay", "fetch", "write"}, NEW j \in Job,
         To(w, l, j), UNCHANGED <<changes, source, newest>>, \A e \in news' : e \in news,
         l \in {"fetch", "write"} => j.stamp <= changes,
         l = "fetch" /\ j.kind = "sync" => j.stamp = 0
  PROVE  Clock'
<1>1. at'[w] = l /\ job'[w] = j /\ \A v \in Workers \ {w} : at'[v] = at[v] /\ job'[v] = job[v]
  BY ToType DEF BInv
<1>2. QED
  BY <1>1 DEF Clock, UnderWay

\* A change at Stripe: nothing carries its stamp yet but its own event.
LEMMA ChangeMoves ==
  ASSUME BInv, Clock, StepInv, NEW s \in Subs,
         changes' = changes + 1, UNCHANGED <<tenant, source, newest, at, job>>,
         NEW e, news' = news \cup {e}, e.stamp = changes + 1,
         causes' = {} => /\ causes = {} /\ Single'
                         /\ e.type = "updated" => e.sub \in Live' /\ e.plan = subs'[e.sub].price
                         /\ e.type = "deleted" => Live' = {} /\ e.plan = "free"
  PROVE  Clock' /\ StepInv'
<1>1. changes \in Nat /\ newest \in Nat /\ source.stamp \in Nat
      /\ (\A f \in news : f.stamp \in Nat) /\ (\A w \in Workers : job[w].stamp \in Nat)
  BY BillingBoundsAssumption DEF BInv, BillingTypeOK, Stamps, Event, Job
<1>2. Clock'
  BY <1>1 DEF Clock, UnderWay
<1>3. /\ \A f \in news : f.stamp # changes'
      /\ \A w \in Workers : UnderWay(w) => job[w].stamp # changes'
      /\ source.stamp # changes'
  BY <1>1 DEF Clock
<1> SUFFICES ASSUME causes' = {}
             PROVE  (Single /\ Customary /\ NewsAgree /\ JobsAgree /\ RecordAgrees /\ Carried)'
  BY <1>2 DEF StepInv
<1>4. Customary'
  BY DEF StepInv, Customary, UnderWay
<1>5. NewsAgree'
  BY <1>3 DEF NewsAgree
<1>6. JobsAgree'
  BY <1>3 DEF JobsAgree, UnderWay
<1>7. RecordAgrees'
  BY <1>3 DEF RecordAgrees
<1>8. Carried'
  BY DEF Carried
<1>9. QED
  BY <1>4, <1>5, <1>6, <1>7, <1>8

LEMMA ShopStamps ==
  ASSUME BInv, Clock, StepInv, NEW s \in Subs,
         \/ \E p \in pages : Purchase(p, s)
         \/ \E p \in Prices : ChangePrice(s, p)
         \/ EndSubscription(s)
  PROVE  Clock' /\ StepInv'
<1> BillingTypeOK
  BY DEF BInv
<1>1. ASSUME NEW p \in pages, Purchase(p, s)
      PROVE  Clock' /\ StepInv'
  <2>1. PICK e : e = [type |-> "completed", customer |-> subs'[s].customer, sub |-> s, plan |-> p.price,
                      stamp |-> changes + 1]
    OBVIOUS
  <2>2. /\ changes' = changes + 1 /\ UNCHANGED <<tenant, source, newest, at, job>>
        /\ news' = news \cup {e} /\ e.stamp = changes + 1 /\ e.type = "completed"
        /\ subs' = [subs EXCEPT ![s] = [state |-> "live", customer |-> p.customer, price |-> p.price]]
        /\ IF Live # {} THEN causes' = causes \cup {"several"} ELSE causes' = causes
    BY <1>1, <2>1 DEF Purchase, Report, Cause, recordVars, workVars
  <2>3. ASSUME causes' = {}
        PROVE  causes = {} /\ Single'
    <3>1. Live = {} /\ causes = {}
      BY <2>2, <2>3
    <3>2. Live' \subseteq {s}
      BY <2>2, <3>1 DEF Live, BillingTypeOK
    <3>3. subs'[s].price \in Prices
      BY <2>2 DEF BillingTypeOK, Page
    <3>4. QED
      BY <3>1, <3>2, <3>3 DEF Single
  <2>4. QED
    BY <2>2, <2>3, ChangeMoves
<1>2. ASSUME NEW p \in Prices, ChangePrice(s, p)
      PROVE  Clock' /\ StepInv'
  <2>1. PICK e : e = [type |-> "updated", customer |-> subs'[s].customer, sub |-> s, plan |-> p,
                      stamp |-> changes + 1]
    OBVIOUS
  <2>2. /\ changes' = changes + 1 /\ UNCHANGED <<tenant, source, newest, at, job, causes>>
        /\ news' = news \cup {e} /\ e.stamp = changes + 1 /\ e.type = "updated" /\ e.sub = s /\ e.plan = p
        /\ subs' = [subs EXCEPT ![s].price = p] /\ s \in Live
    BY <1>2, <2>1 DEF ChangePrice, Report, recordVars, workVars
  <2>3. Live' = Live /\ subs'[s].price = p /\ \A x \in Subs \ {s} : subs'[x] = subs[x]
    BY <2>2 DEF Live, BillingTypeOK, Sub
  <2>4. ASSUME causes' = {}
        PROVE  Single'
    BY <2>2, <2>3, <2>4 DEF StepInv, Single
  <2>5. QED
    BY <2>2, <2>3, <2>4, ChangeMoves
<1>3. CASE EndSubscription(s)
  <2>1. PICK e : e = [type |-> "deleted", customer |-> subs'[s].customer, sub |-> s, plan |-> "free",
                      stamp |-> changes + 1]
    OBVIOUS
  <2>2. /\ changes' = changes + 1 /\ UNCHANGED <<tenant, source, newest, at, job, causes>>
        /\ news' = news \cup {e} /\ e.stamp = changes + 1 /\ e.type = "deleted" /\ e.plan = "free"
        /\ subs' = [subs EXCEPT ![s].state = "ended"] /\ s \in Live
    BY <1>3, <2>1 DEF EndSubscription, Report, recordVars, workVars
  <2>3. Live' = Live \ {s}
    BY <2>2 DEF Live, BillingTypeOK, Sub
  <2>4. ASSUME causes' = {}
        PROVE  Live' = {}
    BY <2>2, <2>3, <2>4 DEF StepInv, Single
  <2>5. ASSUME causes' = {}
        PROVE  Single'
    BY <2>4, <2>5 DEF Single
  <2>6. QED
    BY <2>2, <2>4, <2>5, ChangeMoves
<1>4. QED
  BY <1>1, <1>2, <1>3

LEMMA HandlerStamps ==
  ASSUME BInv, Clock, StepInv, NEW w \in Workers,
         \/ \E p \in Prices : BillingCheckout(w, p)
         \/ \E e \in news : BillingWebhook(w, e)
         \/ BillingSync(w)
         \/ OpenPage(w) \/ CheckoutFails(w)
  PROVE  Clock' /\ StepInv'
<1> BillingTypeOK
  BY DEF BInv
<1>1. ASSUME NEW p \in Prices, BillingCheckout(w, p)
      PROVE  Clock' /\ StepInv'
  <2>1. PICK j : j = [NoJob EXCEPT !.kind = "checkout", !.row.customer = tenant.customer, !.price = p]
    OBVIOUS
  <2>2. j \in Job
    <3>1. [NoJob.row EXCEPT !.customer = tenant.customer] \in Row /\ p \in BillingPlans
      BY NoJobType DEF BillingTypeOK, Job, Row, BillingPlans
    <3>2. QED
      BY <2>1, <3>1, NoJobType DEF Job
  <2>3. To(w, "pay", j) /\ at[w] = "idle" /\ UNCHANGED <<recordVars, stripeVars, causes>>
    BY <1>1, <2>1 DEF BillingCheckout
  <2>4. ~UnderWay(w)
    BY <2>3 DEF UnderWay
  <2>5. QED
    BY <2>2, <2>3, <2>4, JobMoves, ClockMoves DEF recordVars, stripeVars
<1>2. ASSUME NEW e \in news, BillingWebhook(w, e)
      PROVE  Clock' /\ StepInv'
  <2>1. PICK l \in {"fetch", "write"}, j \in Job :
           /\ To(w, l, j) /\ j.stamp = e.stamp /\ j.kind = "told" /\ j.row.customer = e.customer
           /\ \/ l = "fetch"
              \/ e.type = "updated" /\ j.row.sub = e.sub /\ j.row.plan = planForPriceID(e.plan)
              \/ e.type = "deleted" /\ j.row.sub = NoSub /\ j.row.plan = e.plan
    BY <1>2, ReportJob
  <2>2. /\ at[w] = "idle" /\ UNCHANGED <<recordVars, subs, changes, causes>>
        /\ \A f \in news' : f \in news
        /\ \A f \in news : f \notin news' => f = e
    BY <1>2 DEF BillingWebhook
  <2>3. e.customer \in Customers /\ ~UnderWay(w)
    BY <2>2 DEF UnderWay, BillingTypeOK, Event
  <2>4. ASSUME causes' = {}, l = "write", j.sure, j.stamp = changes
        PROVE  Agrees(j.row)
    <3>1. NewsAgree /\ Single
      BY <2>2, <2>4 DEF StepInv
    <3>2. CASE e.type = "updated" /\ j.row.sub = e.sub /\ j.row.plan = planForPriceID(e.plan)
      <4>1. e.sub \in Live /\ e.plan = subs[e.sub].price /\ e.plan \in Prices
        BY <2>1, <2>4, <3>1, <3>2 DEF NewsAgree, Single
      <4>2. \A s \in Live : s = e.sub
        BY <3>1, <4>1 DEF Single
      <4>3. QED
        BY <3>2, <4>1, <4>2 DEF Agrees, planForPriceID
    <3>3. CASE e.type = "deleted" /\ j.row.sub = NoSub /\ j.row.plan = e.plan
      BY <2>1, <2>4, <3>1, <3>3 DEF NewsAgree, Agrees
    <3>4. QED
      BY <2>1, <2>4, <3>2, <3>3
  <2>5. Clock'
    BY <2>1, <2>2, ClockMoves DEF recordVars, Clock
  <2>6. StepInv'
    BY <2>1, <2>2, <2>3, <2>4, JobMoves DEF recordVars
  <2>7. QED
    BY <2>5, <2>6
<1>3. CASE BillingSync(w)
  <2>1. PICK j \in Job : To(w, "fetch", j) /\ j.kind = "sync" /\ j.stamp = 0 /\ j.row = tenant
    BY <1>3, SyncJob
  <2>2. at[w] = "idle" /\ tenant.sub # NoSub /\ UNCHANGED <<recordVars, stripeVars, causes>>
    BY <1>3 DEF BillingSync
  <2>3. ASSUME causes' = {}
        PROVE  j.row.customer \in Customers
    BY <2>1, <2>2, <2>3 DEF StepInv, Customary, BillingTypeOK, Row
  <2>4. ~UnderWay(w) /\ 0 <= changes
    BY <2>2, BillingBoundsAssumption DEF UnderWay, BillingTypeOK, Stamps
  <2>5. QED
    BY <2>1, <2>2, <2>3, <2>4, JobMoves, ClockMoves DEF recordVars, stripeVars
<1>4. CASE OpenPage(w) \/ CheckoutFails(w)
  <2>1. /\ To(w, "idle", NoJob) /\ at[w] = "pay"
        /\ UNCHANGED <<recordVars, subs, news, changes, causes>>
    BY <1>4 DEF OpenPage, CheckoutFails, Respond, stripeVars
  <2>2. ~UnderWay(w)
    BY <2>1 DEF UnderWay
  <2>3. QED
    BY <2>1, <2>2, NoJobType, JobMoves, ClockMoves DEF recordVars
<1>5. QED
  BY <1>1, <1>2, <1>3, <1>4

\* A new customer's row has no subscription, as the row without a customer before it.
LEMMA NewCustomerStamps ==
  ASSUME BInv, Clock, StepInv, NEW w \in Workers, NewCustomer(w)
  PROVE  Clock' /\ StepInv'
<1> BillingTypeOK
  BY DEF BInv
<1>1. PICK c \in Customers, j \in Job :
        /\ To(w, "pay", j) /\ at[w] = "pay" /\ UNCHANGED <<subs, news, changes, source, newest>>
        /\ \/ /\ tenant' = [customer |-> c, sub |-> NoSub, plan |-> "free"]
              /\ IF tenant.customer # NoCustomer THEN "replaced" \in causes' ELSE causes' = causes
           \/ "lost" \in causes'
  BY NewCustomerJob DEF Cause, stripeVars
<1>2. Clock'
  BY <1>1, NoJobType, ClockMoves
<1>3. /\ at'[w] = "pay"
      /\ \A v \in Workers \ {w} : at'[v] = at[v] /\ job'[v] = job[v]
  BY <1>1, ToType
<1> SUFFICES ASSUME causes' = {}
             PROVE  (Single /\ Customary /\ NewsAgree /\ JobsAgree /\ RecordAgrees /\ Carried)'
  BY <1>2 DEF StepInv
<1>4. /\ tenant' = [customer |-> c, sub |-> NoSub, plan |-> "free"]
      /\ tenant.customer = NoCustomer /\ causes = {}
  BY <1>1
<1>5. Single /\ Customary /\ NewsAgree /\ JobsAgree /\ RecordAgrees /\ Carried
  BY <1>4 DEF StepInv
<1>6. tenant.sub = NoSub /\ tenant.plan = "free"
  BY <1>4, <1>5 DEF Customary
<1>7. Live' = Live /\ \A r : Agrees(r)' = Agrees(r)
  BY <1>1 DEF Live, Agrees
<1>8. Single' /\ NewsAgree'
  BY <1>1, <1>5, <1>7 DEF Single, NewsAgree
<1>9. Customary'
  BY <1>3, <1>4, <1>5, IdsAssumption DEF Customary, UnderWay
<1>10. JobsAgree'
  <2> SUFFICES ASSUME NEW v \in Workers, NEW r, r = job'[v].row,
                      at'[v] = "write", job'[v].sure, job'[v].stamp = changes
               PROVE  Agrees(r)'
    BY <1>1 DEF JobsAgree, Agrees
  <2>1. v # w /\ Agrees(job[v].row) /\ r = job[v].row
    BY <1>3, <1>5 DEF JobsAgree
  <2>2. QED
    BY <1>7, <2>1
<1>11. RecordAgrees'
  <2> SUFFICES ASSUME source = [stamp |-> changes, sure |-> TRUE]
               PROVE  Agrees(tenant)'
    BY <1>1 DEF RecordAgrees
  <2>1. Agrees(tenant)
    BY <1>5 DEF RecordAgrees
  <2>2. QED
    BY <1>1, <1>4, <1>6, <1>7, <2>1 DEF Agrees
<1>12. Carried'
  BY <1>1, <1>3, <1>5 DEF Carried, UnderWay
<1>13. QED
  BY <1>8, <1>9, <1>10, <1>11, <1>12

LEMMA FetchStamps ==
  ASSUME BInv, Clock, StepInv, NEW w \in Workers, Fetch(w) \/ FetchFails(w) \/ WriteFails(w)
  PROVE  Clock' /\ StepInv'
<1> BillingTypeOK
  BY DEF BInv
<1>1. CASE Fetch(w)
  <2>1. PICK j \in Job :
           /\ To(w, "write", j) /\ j.stamp = changes
           /\ j.row.customer = job[w].row.customer /\ j.row.sub = job[w].row.sub
           /\ j.row.plan = planForPriceID(subs[job[w].row.sub].price)
           /\ j.sure => job[w].row.sub \in Live
    BY <1>1, FetchedJob
  <2>2. at[w] = "fetch" /\ UNCHANGED <<recordVars, stripeVars, causes>> /\ changes <= changes
    BY <1>1, BillingBoundsAssumption DEF Fetch, BillingTypeOK, Stamps
  <2>3. ASSUME causes' = {}
        PROVE  j.row.customer \in Customers
    BY <2>1, <2>2, <2>3 DEF StepInv, Customary, UnderWay
  <2>4. ASSUME causes' = {}, j.sure
        PROVE  Agrees(j.row)
    <3>1. Single
      BY <2>2, <2>4 DEF StepInv
    <3>2. PICK s : s = job[w].row.sub
      OBVIOUS
    <3>3. s \in Live /\ subs[s].price \in Prices /\ \A t \in Live : t = s
      BY <2>1, <2>4, <3>1, <3>2 DEF Single
    <3>4. j.row.sub = s /\ j.row.plan = subs[s].price
      BY <2>1, <3>2, <3>3 DEF planForPriceID
    <3>5. QED
      BY <3>3, <3>4 DEF Agrees
  <2>5. Clock'
    BY <2>1, <2>2, ClockMoves DEF recordVars, stripeVars
  <2>6. StepInv'
    BY <2>1, <2>2, <2>3, <2>4, JobMoves DEF recordVars, stripeVars
  <2>7. QED
    BY <2>5, <2>6
<1>2. CASE FetchFails(w)
  <2>1. at[w] = "fetch" /\ UNCHANGED <<recordVars, stripeVars, causes>>
    BY <1>2 DEF FetchFails
  <2>2. CASE To(w, "idle", NoJob) /\ job[w].kind = "sync"
    <3>1. job[w].stamp = 0
      BY <2>1, <2>2 DEF Clock
    <3>2. newest < changes => job[w].stamp # changes
      BY <3>1, BillingBoundsAssumption DEF BillingTypeOK, Stamps
    <3>3. QED
      BY <2>1, <2>2, <3>2, NoJobType, JobMoves, ClockMoves DEF recordVars, stripeVars
  <2>3. CASE \E j \in Job : /\ To(w, "write", j) /\ j.stamp = job[w].stamp
                            /\ j.row.customer = job[w].row.customer /\ ~j.sure
    <3>1. PICK j \in Job : /\ To(w, "write", j) /\ j.stamp = job[w].stamp
                           /\ j.row.customer = job[w].row.customer /\ ~j.sure
      BY <2>3
    <3>2. ASSUME causes' = {}
          PROVE  j.row.customer \in Customers
      BY <2>1, <3>1, <3>2 DEF StepInv, Customary, UnderWay
    <3>3. j.stamp <= changes
      BY <2>1, <3>1 DEF Clock, UnderWay
    <3>4. QED
      BY <2>1, <3>1, <3>2, <3>3, JobMoves, ClockMoves DEF recordVars, stripeVars
  <2>4. QED
    BY <1>2, <2>2, <2>3, UnfetchedJob
<1>3. CASE WriteFails(w)
  <2>1. To(w, "idle", NoJob) /\ UNCHANGED <<recordVars, stripeVars>> /\ causes' # {}
    BY <1>3 DEF WriteFails, Respond, Cause
  <2>2. QED
    BY <2>1, NoJobType, ClockMoves DEF recordVars, stripeVars, StepInv
<1>4. QED
  BY <1>1, <1>2, <1>3

LEMMA WriteStamps ==
  ASSUME BInv, Clock, StepInv, NEW w \in Workers, Write(w)
  PROVE  Clock' /\ StepInv'
<1> BillingTypeOK
  BY DEF BInv
<1>1. PICK j \in Job : j = job[w]
  BY DEF BillingTypeOK
<1>2. /\ at[w] = "write" /\ To(w, "idle", NoJob) /\ UNCHANGED <<subs, news, changes>>
      /\ source' = [stamp |-> j.stamp, sure |-> j.sure]
      /\ newest' = IF j.stamp > newest THEN j.stamp ELSE newest
      /\ tenant' = IF j.kind = "sync" \/ tenant.customer = j.row.customer THEN j.row ELSE tenant
      /\ IF tenant.customer # j.row.customer THEN "replaced" \in causes' ELSE causes' = causes
  BY <1>1 DEF Write, WriteTenant, Respond, Cause, stripeVars
<1>3. /\ at'[w] = "idle"
      /\ \A v \in Workers \ {w} : at'[v] = at[v] /\ job'[v] = job[v]
  BY <1>2, NoJobType, ToType
<1>4. /\ changes \in Nat /\ newest \in Nat /\ j.stamp \in Nat /\ j.stamp <= changes
  BY <1>1, <1>2, BillingBoundsAssumption DEF BillingTypeOK, Stamps, Job, Clock, UnderWay
<1>5. newest' \in Nat /\ newest' <= changes /\ j.stamp <= newest' /\ newest <= newest'
  BY <1>2, <1>4 DEF Clock
<1>6. Clock'
  BY <1>2, <1>3, <1>5 DEF Clock, UnderWay
<1> SUFFICES ASSUME causes' = {}
             PROVE  (Single /\ Customary /\ NewsAgree /\ JobsAgree /\ RecordAgrees /\ Carried)'
  BY <1>6 DEF StepInv
<1>7. tenant' = j.row /\ causes = {}
  BY <1>2
<1>8. Single /\ Customary /\ NewsAgree /\ JobsAgree /\ RecordAgrees /\ Carried
  BY <1>7 DEF StepInv
<1>9. Live' = Live /\ \A r : Agrees(r)' = Agrees(r)
  BY <1>2 DEF Live, Agrees
<1>10. Single' /\ NewsAgree'
  BY <1>2, <1>8, <1>9 DEF Single, NewsAgree
<1>11. Customary'
  <2>1. j.row.customer \in Customers
    BY <1>1, <1>2, <1>8 DEF Customary, UnderWay
  <2>2. QED
    BY <1>3, <1>7, <1>8, <2>1, IdsAssumption DEF Customary, UnderWay
<1>12. JobsAgree'
  <2> SUFFICES ASSUME NEW v \in Workers, NEW r, r = job'[v].row,
                      at'[v] = "write", job'[v].sure, job'[v].stamp = changes
               PROVE  Agrees(r)'
    BY <1>2 DEF JobsAgree, Agrees
  <2>1. v # w /\ Agrees(job[v].row) /\ r = job[v].row
    BY <1>3, <1>8 DEF JobsAgree
  <2>2. QED
    BY <1>9, <2>1
<1>13. RecordAgrees'
  <2> SUFFICES ASSUME source' = [stamp |-> changes, sure |-> TRUE]
               PROVE  Agrees(tenant)'
    BY <1>2 DEF RecordAgrees
  <2>1. j.stamp = changes /\ j.sure
    BY <1>2 DEF Job
  <2>2. Agrees(j.row)
    BY <1>1, <1>2, <1>8, <2>1 DEF JobsAgree
  <2>3. QED
    BY <1>2, <1>7, <1>9, <2>2 DEF Agrees
<1>14. Carried'
  <2> SUFFICES ASSUME newest' < changes
               PROVE  \/ \E e \in news : e.stamp = changes
                      \/ \E v \in Workers : UnderWay(v)' /\ job'[v].stamp = changes
    BY <1>2 DEF Carried
  <2>1. newest < changes /\ j.stamp # changes
    BY <1>4, <1>5
  <2>2. \/ \E e \in news : e.stamp = changes
        \/ \E v \in Workers \ {w} : UnderWay(v) /\ job[v].stamp = changes
    BY <1>1, <1>8, <2>1 DEF Carried
  <2>3. QED
    BY <1>3, <2>2 DEF UnderWay
<1>15. QED
  BY <1>10, <1>11, <1>12, <1>13, <1>14

LEMMA StampsNext == BInv /\ Clock /\ StepInv /\ [BillingNext]_billingVars => Clock' /\ StepInv'
<1> SUFFICES ASSUME BInv, Clock, StepInv, [BillingNext]_billingVars PROVE Clock' /\ StepInv'
  OBVIOUS
<1>1. CASE UNCHANGED billingVars
  BY <1>1 DEF billingVars, stripeVars, workVars, Clock, StepInv, UnderWay, Single, Customary, NewsAgree,
     JobsAgree, RecordAgrees, Carried, Agrees, Live
<1>2. ASSUME NEW e \in news, LoseEvent(e)
      PROVE  Clock' /\ StepInv'
  <2>1. UNCHANGED <<source, newest, changes, at, job>> /\ news' \subseteq news /\ causes' # {}
    BY <1>2 DEF LoseEvent, Cause, recordVars, workVars
  <2>2. QED
    BY <2>1 DEF Clock, UnderWay, StepInv
<1>3. QED
  BY <1>1, <1>2, StepKinds, ShopStamps, HandlerStamps, NewCustomerStamps, FetchStamps, WriteStamps

\* When everything was told and nothing is under way, the tenant's plan is what Stripe charges
\* for, whatever the order of the reports, unless one of the named causes struck or the last
\* write was older than another or guessed (billing_handlers.go).
THEOREM PlanInStep == BillingSpec => []InStep
BY BInvInit, BInvNext, StampsInit, StampsNext, InStepFromStamps, PTL DEF BillingSpec
==============================================================================
