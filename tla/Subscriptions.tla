------------------------------- MODULE Subscriptions -------------------------------
(***************************************************************************)
(* How a business becomes a customer: handleSignup, the checkout, the      *)
(* notices of the payment processor and the operator's changes of plan.    *)
(*                                                                         *)
(* A signup is one transaction over tenants and users, with an INSERT into *)
(* subscriptions made outside of it. The uniqueness of an RFC depends on a  *)
(* table that is not in the migrations: a refusal and a failing INSERT are *)
(* always possible. tenants.active, tenants.plan and the dates of the trial *)
(* are left out: only the operator's screen shows them. So are the prices. *)
(***************************************************************************)

CONSTANTS
  Tenants,    \* the ids a tenant may be given
  Emails,
  Signups,    \* the calls of POST /signup
  Asked,      \* the plans asked for at signup, and by the operator
  NoTenant    \* no tenant

(* The plans that have a price, which is written together with the plan.   *)
Plans == {"starter", "business", "pro"}

ASSUME NoTenantAssumption == NoTenant \notin Tenants

VARIABLES
  signup,  \* each call of POST /signup
  tenant,  \* the table tenants: how far the row of each is
  user,    \* the table users: the tenant of an e-mail address
  sub      \* the table subscriptions

vars == <<signup, tenant, user, sub>>

Signup == [at: {"new", "checked", "tenant", "user", "sub", "ok", "error"},
           email: Emails, plan: Asked, tenant: Tenants \cup {NoTenant}]

Tenant == {"free", "uncommitted", "committed", "gone"}

NoSub == [status |-> "none", plan |-> "starter"]

Sub == [status: {"none", "trial", "active", "past_due"}, plan: Plans]

(* The values of the tables; among them, that a subscription has one of the *)
(* plans that can be billed.                                                *)
TypeOK ==
  /\ signup \in [Signups -> Signup]
  /\ tenant \in [Tenants -> Tenant]
  /\ user \in [Emails -> Tenants \cup {NoTenant}]
  /\ sub \in [Tenants -> Sub]

Init ==
  /\ signup \in [Signups -> [at: {"new"}, email: Emails, plan: Asked,
                             tenant: {NoTenant}]]
  /\ tenant = [t \in Tenants |-> "free"]
  /\ user = [e \in Emails |-> NoTenant]
  /\ sub = [t \in Tenants |-> NoSub]

-----------------------------------------------------------------------------------
(* handleSignup.                                                           *)

(* An unknown plan becomes the cheapest one.                               *)
PlanOf(plan) == IF plan \in Plans THEN plan ELSE "starter"

Move(c, at, t) ==
  signup' = [signup EXCEPT ![c] = [at |-> at, email |-> signup[c].email,
               plan |-> signup[c].plan, tenant |-> t]]

(* No committed user has the address; the password is hashed next, which    *)
(* takes a while.                                                          *)
Check(c) ==
  /\ signup[c].at = "new"
  /\ user[signup[c].email] = NoTenant
  /\ Move(c, "checked", NoTenant)
  /\ UNCHANGED <<tenant, user, sub>>

InsertTenant(c, t) ==
  /\ signup[c].at = "checked"
  /\ tenant[t] = "free"
  /\ tenant' = [tenant EXCEPT ![t] = "uncommitted"]
  /\ Move(c, "tenant", t)
  /\ UNCHANGED <<user, sub>>

(* An uncommitted row with the address makes the INSERT wait.               *)
Waits(c) ==
  \E d \in Signups \ {c} :
    signup[d].email = signup[c].email /\ signup[d].at \in {"user", "sub"}

(* Wrong: the user who has the address already is moved to the new tenant.  *)
InsertUserTakesOver(c) ==
  /\ signup[c].at = "tenant"
  /\ ~ Waits(c)
  /\ Move(c, "user", signup[c].tenant)
  /\ UNCHANGED <<tenant, user, sub>>

(* Wrong: outside of the transaction, like the subscription.                *)
InsertUserOutside(c) ==
  /\ signup[c].at = "tenant"
  /\ ~ Waits(c)
  /\ user[signup[c].email] = NoTenant
  /\ user' = [user EXCEPT ![signup[c].email] = signup[c].tenant]
  /\ Move(c, "user", signup[c].tenant)
  /\ UNCHANGED <<tenant, sub>>

InsertUser(c) ==
  /\ signup[c].at = "tenant"
  /\ ~ Waits(c)
  /\ user[signup[c].email] = NoTenant
  /\ Move(c, "user", signup[c].tenant)
  /\ UNCHANGED <<tenant, user, sub>>

(* A statement of its own, on another connection; nobody looks at its      *)
(* error.                                                                  *)
InsertSubscription(c) ==
  LET t == signup[c].tenant IN
  /\ signup[c].at = "user"
  /\ \/ sub' = [sub EXCEPT ![t] =
          [status |-> "trial", plan |-> PlanOf(signup[c].plan)]]
     \/ UNCHANGED sub
  /\ Move(c, "sub", t)
  /\ UNCHANGED <<tenant, user>>

(* The commit may succeed although its confirmation is lost.               *)
Commit(c) ==
  LET t == signup[c].tenant IN
  /\ signup[c].at = "sub"
  /\ tenant' = [tenant EXCEPT ![t] = "committed"]
  /\ user' = [user EXCEPT ![signup[c].email] = t]
  /\ \E at \in {"ok", "error"} : Move(c, at, t)
  /\ UNCHANGED <<sub>>

(* A refusal, a statement's error or a browser that left: the transaction   *)
(* is rolled back. The id of its tenant is not given again.                 *)
Fail(c) ==
  /\ signup[c].at \in {"new", "checked", "tenant", "user", "sub"}
  /\ tenant' = [t \in Tenants |-> IF t = signup[c].tenant THEN "gone" ELSE tenant[t]]
  /\ Move(c, "error", NoTenant)
  /\ UNCHANGED <<user, sub>>

HandleSignup(c) ==
  \/ Check(c)
  \/ \E t \in Tenants : InsertTenant(c, t)
  \/ InsertUser(c)
  \/ InsertSubscription(c)
  \/ Commit(c)
  \/ Fail(c)

-----------------------------------------------------------------------------------
(* The checkout that follows a signup, the payment processor, the operator. *)

(* UPDATE subscriptions SET status WHERE tenant_id: a row that is not there *)
(* is no error, and nobody looks at one.                                   *)
SetStatus(t, status) ==
  \/ sub' = IF sub[t].status = "none" THEN sub
            ELSE [sub EXCEPT ![t].status = status]
  \/ UNCHANGED sub

(* A card that is accepted; the other ways to pay write nothing here.        *)
CheckoutCard(c) ==
  /\ signup[c].at = "ok"
  /\ SetStatus(signup[c].tenant, "active")
  /\ UNCHANGED <<signup, tenant, user>>

(* The processor's notices, in any order and any number of times. The first *)
(* eight characters of an order's id are taken for the tenant's.           *)
HandleOpenpayWebhook(t) ==
  /\ tenant[t] = "committed"
  /\ \E status \in {"active", "past_due"} : SetStatus(t, status)
  /\ UNCHANGED <<signup, tenant, user>>

(* Wrong: the subscription takes any plan.                                  *)
PatchAnyPlan(t, plan) ==
  /\ tenant[t] = "committed"
  /\ sub[t].status # "none"
  /\ sub' = [sub EXCEPT ![t].plan = plan]
  /\ UNCHANGED <<signup, tenant, user>>

(* The plan of the tenant, and, if it has a price, that of the subscription, *)
(* are two statements, each of which may fail unnoticed.                   *)
HandleAdminTenantByID(t, plan) ==
  /\ tenant[t] = "committed"
  /\ plan \in Plans
  /\ sub[t].status # "none"
  /\ sub' = [sub EXCEPT ![t].plan = plan]
  /\ UNCHANGED <<signup, tenant, user>>

-----------------------------------------------------------------------------------
Next ==
  \/ \E c \in Signups : HandleSignup(c) \/ CheckoutCard(c)
  \/ \E t \in Tenants : HandleOpenpayWebhook(t)
  \/ \E t \in Tenants, plan \in Asked : HandleAdminTenantByID(t, plan)

Spec == Init /\ [][Next]_vars

-----------------------------------------------------------------------------------
(* What makes the accounts correct.                                         *)

(* A tenant has exactly one user and a user has a tenant, whatever signups  *)
(* with the same address run together, fail or are abandoned.              *)
AccountsAreWhole ==
  /\ \A e \in Emails : user[e] # NoTenant => tenant[user[e]] = "committed"
  /\ \A t \in Tenants :
       tenant[t] = "committed" =>
         \E e \in Emails : \A f \in Emails : user[f] = t <=> f = e

(* A signup that was answered "ok" opened an account its user can enter,    *)
(* and no other signup takes it away.                                      *)
OkMeansAccount ==
  \A c \in Signups :
    signup[c].at = "ok" => user[signup[c].email] = signup[c].tenant

===================================================================================
