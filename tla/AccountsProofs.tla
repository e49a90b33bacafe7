------------------------------ MODULE AccountsProofs ------------------------------
(***************************************************************************)
(* That accounts are whole, that an "ok" means an account, and that resets *)
(* of passwords stay apart, for any number of signups, requests, addresses *)
(* and tenants.                                                            *)
(*                                                                         *)
(* What makes it inductive, for the accounts, is the life of a tenant's    *)
(* row: the signup that inserted it is the only one that has it until its  *)
(* commit, and the signup that holds an address finds it free. For the     *)
(* resets it is that a token keeps to its user from the request to the     *)
(* reset that spends it.                                                   *)
(*                                                                         *)
(* And that the login's limiters hold their limit and refuse nobody         *)
(* without cause: their lists and the requests they let in are in step.     *)
(***************************************************************************)
EXTENDS PasswordReset, Login, FiniteSetTheorems, TLAPS

(* The transaction is open, and has the address.                            *)
IsOpen(c) == signup[c].at \in {"tenant", "user", "sub"}
Holds(c) == signup[c].at \in {"user", "sub"}

(* An open transaction has an uncommitted tenant of its own, and what it    *)
(* holds is its own and free.                                              *)
OpenHasTenant ==
  \A c \in Signups :
    /\ signup[c].at \in {"new", "checked"} => signup[c].tenant = NoTenant
    /\ IsOpen(c) => signup[c].tenant \in Tenants /\ tenant[signup[c].tenant] = "uncommitted"
    /\ signup[c].at = "ok" => signup[c].tenant \in Tenants

(* No two open transactions have the same tenant.                          *)
OpenIsAlone ==
  \A c, d \in Signups :
    IsOpen(c) /\ IsOpen(d) /\ signup[c].tenant = signup[d].tenant => c = d

(* The address an open transaction has inserted has no committed user.     *)
AddressIsFree ==
  \A c \in Signups : Holds(c) => user[signup[c].email] = NoTenant

(* The unique index: no two open transactions have inserted one address.   *)
AddressIsHeldOnce ==
  \A c, d \in Signups :
    Holds(c) /\ Holds(d) /\ signup[c].email = signup[d].email => c = d

(* The inductive invariant of the accounts.                                *)
IAccounts ==
  /\ TypeOK
  /\ OpenHasTenant /\ OpenIsAlone /\ AddressIsFree /\ AddressIsHeldOnce
  /\ AccountsAreWhole /\ OkMeansAccount

-----------------------------------------------------------------------------------
(* The accounts.                                                           *)

(* There are no signups and no tenants.                                    *)
LEMMA AccountsInit == Init => IAccounts
PROOF
<1> SUFFICES ASSUME Init PROVE IAccounts
  OBVIOUS
<1>1. TypeOK
  BY DEF Init, TypeOK, Signup, Tenant, Sub, NoSub, Plans
<1>2. \A c \in Signups : signup[c].at = "new" /\ signup[c].tenant = NoTenant
  BY DEF Init
<1>3. OpenHasTenant /\ OpenIsAlone /\ AddressIsFree /\ AddressIsHeldOnce
  BY <1>2 DEF OpenHasTenant, OpenIsAlone, AddressIsFree, AddressIsHeldOnce, IsOpen, Holds
<1>4. AccountsAreWhole /\ OkMeansAccount
  BY <1>2 DEF Init, AccountsAreWhole, OkMeansAccount
<1> QED
  BY <1>1, <1>3, <1>4 DEF IAccounts

(* What a step of a signup does to the signups.                             *)
LEMMA MoveMeans ==
  ASSUME TypeOK, NEW c \in Signups,
         NEW at \in {"new", "checked", "tenant", "user", "sub", "ok", "error"},
         NEW t \in Tenants \cup {NoTenant}, Move(c, at, t)
  PROVE  /\ signup' \in [Signups -> Signup]
         /\ signup'[c].at = at /\ signup'[c].tenant = t /\ signup'[c].email = signup[c].email
         /\ \A d \in Signups : d # c => signup'[d] = signup[d]
  BY DEF TypeOK, Move, Signup

(* handleSignup looks for the address.                                     *)
LEMMA CheckKeeps ==
  ASSUME IAccounts, NEW c \in Signups, Check(c)
  PROVE  IAccounts'
PROOF
<1> USE DEF IAccounts
<1>1. /\ signup' \in [Signups -> Signup]
      /\ signup'[c].at = "checked" /\ signup'[c].tenant = NoTenant
      /\ signup'[c].email = signup[c].email
      /\ \A d \in Signups : d # c => signup'[d] = signup[d]
  BY MoveMeans DEF Check
<1>2. UNCHANGED <<tenant, user, sub>>
  BY DEF Check
<1>3. TypeOK'
  BY <1>1, <1>2 DEF TypeOK
<1>4. (OpenHasTenant /\ OpenIsAlone /\ AddressIsFree /\ AddressIsHeldOnce)'
  BY <1>1, <1>2 DEF OpenHasTenant, OpenIsAlone, AddressIsFree, AddressIsHeldOnce, IsOpen, Holds
<1>5. (AccountsAreWhole /\ OkMeansAccount)'
  BY <1>1, <1>2 DEF AccountsAreWhole, OkMeansAccount
<1> QED
  BY <1>3, <1>4, <1>5

(* The transaction begins with a tenant that is new.                       *)
LEMMA InsertTenantKeeps ==
  ASSUME IAccounts, NEW c \in Signups, NEW t \in Tenants, InsertTenant(c, t)
  PROVE  IAccounts'
PROOF
<1> USE DEF IAccounts
<1>1. /\ signup' \in [Signups -> Signup]
      /\ signup'[c].at = "tenant" /\ signup'[c].tenant = t
      /\ signup'[c].email = signup[c].email
      /\ \A d \in Signups : d # c => signup'[d] = signup[d]
  BY MoveMeans DEF InsertTenant
<1>2. /\ tenant[t] = "free" /\ tenant' = [tenant EXCEPT ![t] = "uncommitted"]
      /\ UNCHANGED <<user, sub>>
  BY DEF InsertTenant
<1>3. TypeOK'
  BY <1>1, <1>2 DEF TypeOK, Tenant
<1>4. OpenHasTenant' /\ OpenIsAlone'
  BY <1>1, <1>2 DEF TypeOK, OpenHasTenant, OpenIsAlone, IsOpen
<1>5. AddressIsFree' /\ AddressIsHeldOnce'
  BY <1>1, <1>2 DEF AddressIsFree, AddressIsHeldOnce, Holds
<1>6. AccountsAreWhole'
  BY <1>2 DEF TypeOK, AccountsAreWhole
<1>7. OkMeansAccount'
  BY <1>1, <1>2 DEF OkMeansAccount
<1> QED
  BY <1>3, <1>4, <1>5, <1>6, <1>7

(* The INSERT into users waits for an address that another transaction     *)
(* holds.                                                                  *)
LEMMA InsertUserKeeps ==
  ASSUME IAccounts, NEW c \in Signups, InsertUser(c)
  PROVE  IAccounts'
PROOF
<1> USE DEF IAccounts
<1>0. signup[c].tenant \in Tenants /\ signup[c].at = "tenant"
  BY DEF InsertUser, OpenHasTenant, IsOpen
<1>1. /\ signup' \in [Signups -> Signup]
      /\ signup'[c].at = "user" /\ signup'[c].tenant = signup[c].tenant
      /\ signup'[c].email = signup[c].email
      /\ \A d \in Signups : d # c => signup'[d] = signup[d]
  BY <1>0, MoveMeans DEF InsertUser
<1>2. /\ UNCHANGED <<tenant, user, sub>>
      /\ user[signup[c].email] = NoTenant
      /\ \A d \in Signups : Holds(d) /\ d # c => signup[d].email # signup[c].email
  BY DEF InsertUser, Waits, Holds
<1>3. TypeOK'
  BY <1>1, <1>2 DEF TypeOK
<1>4. OpenHasTenant' /\ OpenIsAlone'
  BY <1>0, <1>1, <1>2 DEF OpenHasTenant, OpenIsAlone, IsOpen
<1>5. AddressIsFree' /\ AddressIsHeldOnce'
  BY <1>0, <1>1, <1>2 DEF AddressIsFree, AddressIsHeldOnce, Holds
<1>6. (AccountsAreWhole /\ OkMeansAccount)'
  BY <1>1, <1>2 DEF AccountsAreWhole, OkMeansAccount
<1> QED
  BY <1>3, <1>4, <1>5, <1>6

(* The trial is inserted.                                                  *)
LEMMA InsertSubscriptionKeeps ==
  ASSUME IAccounts, NEW c \in Signups, InsertSubscription(c)
  PROVE  IAccounts'
PROOF
<1> USE DEF IAccounts
<1>0. signup[c].tenant \in Tenants /\ signup[c].at = "user"
  BY DEF InsertSubscription, OpenHasTenant, IsOpen
<1>1. /\ signup' \in [Signups -> Signup]
      /\ signup'[c].at = "sub" /\ signup'[c].tenant = signup[c].tenant
      /\ signup'[c].email = signup[c].email
      /\ \A d \in Signups : d # c => signup'[d] = signup[d]
  BY <1>0, MoveMeans DEF InsertSubscription
<1>2. UNCHANGED <<tenant, user>>
  BY DEF InsertSubscription
<1>3. sub' \in [Tenants -> Sub]
  <2>1. [status |-> "trial", plan |-> PlanOf(signup[c].plan)] \in Sub
    BY DEF Sub, PlanOf, Plans
  <2> QED
    BY <1>0, <2>1 DEF InsertSubscription, TypeOK
<1>4. TypeOK'
  BY <1>1, <1>2, <1>3 DEF TypeOK
<1>5. OpenHasTenant' /\ OpenIsAlone'
  BY <1>0, <1>1, <1>2 DEF OpenHasTenant, OpenIsAlone, IsOpen
<1>6. AddressIsFree' /\ AddressIsHeldOnce'
  BY <1>0, <1>1, <1>2 DEF AddressIsFree, AddressIsHeldOnce, Holds
<1>7. (AccountsAreWhole /\ OkMeansAccount)'
  BY <1>1, <1>2 DEF AccountsAreWhole, OkMeansAccount
<1> QED
  BY <1>4, <1>5, <1>6, <1>7

(* The address is free and the tenant nobody's: one user, one tenant.       *)
LEMMA CommitKeeps ==
  ASSUME IAccounts, NEW c \in Signups, Commit(c)
  PROVE  IAccounts'
PROOF
<1> USE DEF IAccounts
<1> DEFINE t == signup[c].tenant
           e == signup[c].email
<1>0. /\ t \in Tenants /\ e \in Emails /\ signup[c].at = "sub"
      /\ tenant[t] = "uncommitted" /\ user[e] = NoTenant
  BY DEF Commit, OpenHasTenant, IsOpen, AddressIsFree, Holds, TypeOK, Signup
<1>1. PICK at \in {"ok", "error"} : Move(c, at, t)
  BY DEF Commit
<1>2. /\ signup' \in [Signups -> Signup]
      /\ signup'[c].at = at /\ signup'[c].tenant = t /\ signup'[c].email = e
      /\ \A d \in Signups : d # c => signup'[d] = signup[d]
  BY <1>0, <1>1, MoveMeans
<1>3. /\ tenant' = [tenant EXCEPT ![t] = "committed"]
      /\ user' = [user EXCEPT ![e] = t]
      /\ sub' = sub
  BY DEF Commit
<1>4. TypeOK'
  BY <1>0, <1>2, <1>3 DEF TypeOK, Tenant
<1>5. OpenHasTenant' /\ OpenIsAlone'
  BY <1>0, <1>2, <1>3 DEF TypeOK, OpenHasTenant, OpenIsAlone, IsOpen
<1>6. AddressIsFree' /\ AddressIsHeldOnce'
  BY <1>0, <1>2, <1>3 DEF TypeOK, AddressIsFree, AddressIsHeldOnce, Holds
<1>7. AccountsAreWhole'
  <2>1. ASSUME NEW f \in Emails, user'[f] # NoTenant
        PROVE  tenant'[user'[f]] = "committed"
    BY <1>0, <1>3, <2>1 DEF TypeOK, AccountsAreWhole
  <2>2. ASSUME NEW u \in Tenants, tenant'[u] = "committed"
        PROVE  \E g \in Emails : \A f \in Emails : user'[f] = u <=> f = g
    <3>1. CASE u = t
      <4>1. \A f \in Emails : user[f] # t
        BY <1>0, NoTenantAssumption DEF AccountsAreWhole
      <4> QED
        BY <1>0, <1>3, <3>1, <4>1 DEF TypeOK
    <3>2. CASE u # t
      <4>1. PICK g \in Emails : \A f \in Emails : user[f] = u <=> f = g
        BY <1>0, <1>3, <2>2, <3>2 DEF TypeOK, AccountsAreWhole
      <4>2. g # e
        BY <1>0, <2>2, <4>1, NoTenantAssumption
      <4> QED
        BY <1>0, <1>3, <3>2, <4>1, <4>2 DEF TypeOK
    <3> QED
      BY <3>1, <3>2
  <2> QED
    BY <2>1, <2>2 DEF AccountsAreWhole
<1>8. OkMeansAccount'
  <2> SUFFICES ASSUME NEW d \in Signups, signup'[d].at = "ok"
               PROVE  user'[signup'[d].email] = signup'[d].tenant
    BY DEF OkMeansAccount
  <2>1. CASE d = c
    BY <1>0, <1>2, <1>3, <2>1 DEF TypeOK
  <2>2. CASE d # c
    <3>1. signup'[d] = signup[d] /\ user[signup[d].email] = signup[d].tenant
      BY <1>2, <2>2 DEF OkMeansAccount
    <3>2. signup[d].tenant \in Tenants /\ signup[d].email \in Emails
      BY <3>1 DEF OpenHasTenant, TypeOK, Signup
    <3>3. signup[d].email # e
      BY <1>0, <3>1, <3>2, NoTenantAssumption
    <3> QED
      BY <1>3, <3>1, <3>2, <3>3 DEF TypeOK
  <2> QED
    BY <2>1, <2>2
<1> QED
  BY <1>4, <1>5, <1>6, <1>7, <1>8

(* An error rolls the transaction back.                                    *)
LEMMA FailKeeps ==
  ASSUME IAccounts, NEW c \in Signups, Fail(c)
  PROVE  IAccounts'
PROOF
<1> USE DEF IAccounts
<1> DEFINE t == signup[c].tenant
<1>0. t = NoTenant \/ (t \in Tenants /\ tenant[t] = "uncommitted" /\ IsOpen(c))
  BY DEF Fail, OpenHasTenant, IsOpen
<1>1. /\ signup' \in [Signups -> Signup]
      /\ signup'[c].at = "error" /\ signup'[c].tenant = NoTenant
      /\ signup'[c].email = signup[c].email
      /\ \A d \in Signups : d # c => signup'[d] = signup[d]
  BY MoveMeans DEF Fail
<1>2. /\ tenant' = [u \in Tenants |-> IF u = t THEN "gone" ELSE tenant[u]]
      /\ UNCHANGED <<user, sub>>
  BY DEF Fail
<1>3. TypeOK'
  BY <1>1, <1>2 DEF TypeOK, Tenant
<1>4. OpenHasTenant'
  <2> SUFFICES ASSUME NEW d \in Signups, d # c
               PROVE  IsOpen(d) => tenant'[signup[d].tenant] = "uncommitted"
    BY <1>1 DEF OpenHasTenant, IsOpen
  <2>1. ASSUME IsOpen(d) PROVE signup[d].tenant \in Tenants /\ signup[d].tenant # t
    BY <1>0, <2>1, NoTenantAssumption DEF OpenHasTenant, OpenIsAlone
  <2> QED
    BY <1>2, <2>1 DEF OpenHasTenant
<1>5. OpenIsAlone' /\ AddressIsFree' /\ AddressIsHeldOnce'
  BY <1>1, <1>2 DEF OpenIsAlone, AddressIsFree, AddressIsHeldOnce, IsOpen, Holds
<1>6. AccountsAreWhole'
  <2>1. ASSUME NEW u \in Tenants
        PROVE  tenant'[u] = "committed" <=> tenant[u] = "committed"
    BY <1>0, <1>2, NoTenantAssumption
  <2> QED
    BY <1>2, <2>1 DEF TypeOK, AccountsAreWhole
<1>7. OkMeansAccount'
  BY <1>1, <1>2 DEF OkMeansAccount
<1> QED
  BY <1>3, <1>4, <1>5, <1>6, <1>7

(* The checkout, the processor and the operator write subscriptions only.   *)
LEMMA OthersKeep ==
  ASSUME IAccounts, sub' \in [Tenants -> Sub], UNCHANGED <<signup, tenant, user>>
  PROVE  IAccounts'
  BY DEF IAccounts, TypeOK, OpenHasTenant, OpenIsAlone, AddressIsFree, AddressIsHeldOnce,
         AccountsAreWhole, OkMeansAccount, IsOpen, Holds

(* A change of status keeps the plan.                                      *)
LEMMA SetStatusIsTyped ==
  ASSUME TypeOK, NEW t \in Tenants, NEW status \in {"trial", "active", "past_due"},
         SetStatus(t, status)
  PROVE  sub' \in [Tenants -> Sub]
  BY DEF TypeOK, SetStatus, Sub

(* Every step keeps the accounts.                                          *)
LEMMA AccountsNext == IAccounts /\ [Next]_vars => IAccounts'
PROOF
<1> SUFFICES ASSUME IAccounts, [Next]_vars PROVE IAccounts'
  OBVIOUS
<1>0. TypeOK
  BY DEF IAccounts
<1>1. ASSUME NEW c \in Signups, HandleSignup(c)
      PROVE  IAccounts'
  BY <1>1, CheckKeeps, InsertTenantKeeps, InsertUserKeeps, InsertSubscriptionKeeps,
     CommitKeeps, FailKeeps DEF HandleSignup
<1>2. ASSUME NEW c \in Signups, CheckoutCard(c)
      PROVE  IAccounts'
  <2>1. signup[c].tenant \in Tenants
    BY <1>2 DEF CheckoutCard, IAccounts, OpenHasTenant
  <2> QED
    BY <1>0, <1>2, <2>1, SetStatusIsTyped, OthersKeep DEF CheckoutCard
<1>3. ASSUME NEW t \in Tenants, HandleOpenpayWebhook(t)
      PROVE  IAccounts'
  BY <1>0, <1>3, SetStatusIsTyped, OthersKeep DEF HandleOpenpayWebhook
<1>4. ASSUME NEW t \in Tenants, NEW plan \in Asked, HandleAdminTenantByID(t, plan)
      PROVE  IAccounts'
  <2>1. sub' \in [Tenants -> Sub]
    BY <1>0, <1>4 DEF HandleAdminTenantByID, TypeOK, Sub
  <2> QED
    BY <1>4, <2>1, OthersKeep DEF HandleAdminTenantByID
<1>5. CASE UNCHANGED vars
  BY <1>0, <1>5, OthersKeep DEF vars, TypeOK
<1> QED
  BY <1>1, <1>2, <1>3, <1>4, <1>5 DEF Next

(* The resets.                                                             *)

(* The values of the tokens, the requests and the passwords.               *)
ResetTypeOK ==
  /\ password \in [Emails -> Resets \cup {NoReset}]
  /\ row \in [Emails -> Forgots \cup {NoToken, EmptyToken}]
  /\ newest \in [Emails -> Forgots \cup {NoToken, EmptyToken}]
  /\ forgot \in [Forgots -> [at: {"new", "found", "stored", "mailed"}, user: Emails \cup {NoUser}]]
  /\ reset \in [Resets -> [at: {"new", "hashing", "set", "ok"},
                           token: Forgots \cup {NoToken}, user: Emails \cup {NoUser}]]
  /\ spent \subseteq Forgots

(* Who asked for a token is known from the first step on, and a spent one   *)
(* was mailed.                                                             *)
TokensHaveOwner ==
  /\ \A f \in Forgots : forgot[f].at # "new" => forgot[f].user \in Emails
  /\ \A e \in Emails : newest[e] \in Forgots =>
       forgot[newest[e]].at \in {"stored", "mailed"} /\ forgot[newest[e]].user = e
  /\ \A f \in spent : forgot[f].at = "mailed"

(* A reset works with a token that was mailed to its user.                  *)
ResetsHaveToken ==
  \A r \in Resets : reset[r].at # "new" =>
    /\ reset[r].token \in Forgots
    /\ reset[r].user \in Emails
    /\ forgot[reset[r].token] = [at |-> "mailed", user |-> reset[r].user]

(* A password that was reset is that of a reset of the same user.          *)
PasswordsHaveReset ==
  \A e \in Emails : password[e] # NoReset =>
    reset[password[e]].at \in {"set", "ok"} /\ reset[password[e]].user = e

(* The inductive invariant of the resets.                                  *)
IResets ==
  /\ ResetTypeOK /\ TokensHaveOwner /\ ResetsHaveToken /\ PasswordsHaveReset
  /\ NewestTokenStays

(* It says that a password is set with a token that was mailed to its      *)
(* user.                                                                   *)
LEMMA OwnPasswords == IResets => PasswordsAreOwn
PROOF
<1> SUFFICES ASSUME IResets, NEW e \in Emails, password[e] # NoReset
             PROVE  \E f \in Forgots : /\ forgot[f] = [at |-> "mailed", user |-> e]
                                       /\ reset[password[e]].token = f
  BY DEF PasswordsAreOwn
<1>1. password[e] \in Resets
  BY DEF IResets, ResetTypeOK
<1>2. reset[password[e]].at # "new" /\ reset[password[e]].user = e
  BY DEF IResets, PasswordsHaveReset
<1> QED
  BY <1>1, <1>2 DEF IResets, ResetsHaveToken

(* No token was asked for yet.                                             *)
LEMMA ResetsInit == InitResets => IResets
PROOF
<1> SUFFICES ASSUME InitResets PROVE IResets
  OBVIOUS
<1>1. ResetTypeOK
  BY DEF InitResets, ResetTypeOK
<1>2. TokensHaveOwner /\ ResetsHaveToken /\ PasswordsHaveReset /\ NewestTokenStays
  BY NothingAssumption
  DEF InitResets, TokensHaveOwner, ResetsHaveToken, PasswordsHaveReset, NewestTokenStays
<1> QED
  BY <1>1, <1>2 DEF IResets

(* What the steps of a request have in common: no reset, no password.       *)
LEMMA FindUserKeeps ==
  ASSUME IResets, NEW f \in Forgots, NEW e \in Emails, FindUser(f, e)
  PROVE  IResets'
PROOF
<1> USE DEF IResets
<1>1. /\ forgot[f].at = "new"
      /\ forgot' = [forgot EXCEPT ![f] = [at |-> "found", user |-> e]]
      /\ UNCHANGED <<password, row, expired, reset, newest, spent>>
  BY DEF FindUser
<1>2. ResetTypeOK'
  BY <1>1 DEF ResetTypeOK
<1>3. TokensHaveOwner'
  BY <1>1 DEF ResetTypeOK, TokensHaveOwner
<1>4. ResetsHaveToken' /\ PasswordsHaveReset'
  BY <1>1 DEF ResetTypeOK, ResetsHaveToken, PasswordsHaveReset
<1>5. NewestTokenStays'
  BY <1>1 DEF NewestTokenStays
<1> QED
  BY <1>2, <1>3, <1>4, <1>5

(* A token that is stored now, if only an empty one, cannot have been spent. *)
LEMMA StoreTokenKeeps ==
  ASSUME IResets, NEW f \in Forgots, StoreToken(f)
  PROVE  IResets'
PROOF
<1> USE DEF IResets
<1> DEFINE e == forgot[f].user
<1>0. e \in Emails /\ forgot[f].at = "found"
  BY DEF StoreToken, TokensHaveOwner
<1>1. PICK token \in {f, EmptyToken} :
        /\ row' = [row EXCEPT ![e] = token]
        /\ newest' = [newest EXCEPT ![e] = token]
        /\ forgot' = [forgot EXCEPT ![f].at = "stored"]
        /\ UNCHANGED <<password, expired, reset, spent>>
  BY DEF StoreToken
<1>2. /\ forgot'[f].at = "stored" /\ forgot'[f].user = e
      /\ \A g \in Forgots : g # f => forgot'[g] = forgot[g]
  BY <1>1 DEF ResetTypeOK
<1>3. ResetTypeOK'
  BY <1>0, <1>1 DEF ResetTypeOK
<1>4. TokensHaveOwner'
  BY <1>0, <1>1, <1>2, NothingAssumption DEF ResetTypeOK, TokensHaveOwner
<1>5. ResetsHaveToken' /\ PasswordsHaveReset'
  BY <1>0, <1>1, <1>2 DEF ResetsHaveToken, PasswordsHaveReset
<1>6. NewestTokenStays'
  <2>1. token \notin spent
    BY <1>0, NothingAssumption DEF ResetTypeOK, TokensHaveOwner
  <2> QED
    BY <1>0, <1>1, <2>1 DEF ResetTypeOK, NewestTokenStays
<1> QED
  BY <1>3, <1>4, <1>5, <1>6

(* A request moves on although nothing was stored, or its mail goes out.    *)
LEMMA RequestKeeps ==
  ASSUME IResets, NEW f \in Forgots, StoreFails(f) \/ MailToken(f)
  PROVE  IResets'
PROOF
<1> USE DEF IResets
<1>1. PICK at \in {"stored", "mailed"} :
        /\ forgot' = [forgot EXCEPT ![f].at = at]
        /\ forgot[f].at = "found" \/ (forgot[f].at = "stored" /\ at = "mailed")
        /\ UNCHANGED <<password, row, expired, reset, newest, spent>>
  BY DEF StoreFails, MailToken
<1>2. /\ forgot'[f].at = at /\ forgot'[f].user = forgot[f].user
      /\ \A g \in Forgots : g # f => forgot'[g] = forgot[g]
  BY <1>1 DEF ResetTypeOK
<1>3. ResetTypeOK'
  BY <1>1 DEF ResetTypeOK
<1>4. TokensHaveOwner'
  BY <1>1, <1>2 DEF ResetTypeOK, TokensHaveOwner
<1>5. ResetsHaveToken' /\ PasswordsHaveReset'
  BY <1>1, <1>2 DEF ResetsHaveToken, PasswordsHaveReset
<1>6. NewestTokenStays'
  BY <1>1 DEF NewestTokenStays
<1> QED
  BY <1>3, <1>4, <1>5, <1>6

(* The row's token is the newest one of its user, and was asked for by it.  *)
LEMMA CheckTokenKeeps ==
  ASSUME IResets, NEW r \in Resets, NEW f \in Forgots, CheckToken(r, f)
  PROVE  IResets'
PROOF
<1> USE DEF IResets
<1>1. PICK e \in Emails :
        /\ row[e] = f
        /\ reset' = [reset EXCEPT ![r] = [at |-> "hashing", token |-> f, user |-> e]]
  BY DEF CheckToken
<1>2. /\ reset[r].at = "new" /\ forgot[f].at = "mailed"
      /\ UNCHANGED <<password, row, expired, forgot, newest, spent>>
  BY DEF CheckToken
<1>3. forgot[f] = [at |-> "mailed", user |-> e]
  <2>1. newest[e] = f
    BY <1>1, NothingAssumption DEF NewestTokenStays
  <2>2. forgot[f].user = e
    BY <2>1, NothingAssumption DEF TokensHaveOwner
  <2> QED
    BY <1>2, <2>2 DEF ResetTypeOK
<1>4. /\ reset'[r].at = "hashing" /\ reset'[r].token = f /\ reset'[r].user = e
      /\ \A s \in Resets : s # r => reset'[s] = reset[s]
  BY <1>1 DEF ResetTypeOK
<1>5. ResetTypeOK'
  BY <1>1, <1>2 DEF ResetTypeOK
<1>6. TokensHaveOwner' /\ NewestTokenStays'
  BY <1>2 DEF TokensHaveOwner, NewestTokenStays
<1>7. ResetsHaveToken'
  BY <1>2, <1>3, <1>4 DEF ResetsHaveToken
<1>8. PasswordsHaveReset'
  BY <1>2, <1>4 DEF ResetTypeOK, PasswordsHaveReset
<1> QED
  BY <1>5, <1>6, <1>7, <1>8

(* The password of the user of the token is set.                           *)
LEMMA SetPasswordKeeps ==
  ASSUME IResets, NEW r \in Resets, SetPassword(r)
  PROVE  IResets'
PROOF
<1> USE DEF IResets
<1>1. /\ reset[r].at = "hashing"
      /\ password' = [password EXCEPT ![reset[r].user] = r] \/ UNCHANGED password
      /\ reset' = [reset EXCEPT ![r].at = "set"]
      /\ UNCHANGED <<row, expired, forgot, newest, spent>>
  BY DEF SetPassword
<1>2. /\ reset'[r].at = "set" /\ reset'[r].token = reset[r].token
      /\ reset'[r].user = reset[r].user
      /\ \A s \in Resets : s # r => reset'[s] = reset[s]
  BY <1>1 DEF ResetTypeOK
<1>3. reset[r].user \in Emails
  BY <1>1 DEF ResetsHaveToken
<1>4. ResetTypeOK'
  BY <1>1, <1>3 DEF ResetTypeOK
<1>5. TokensHaveOwner' /\ NewestTokenStays'
  BY <1>1 DEF TokensHaveOwner, NewestTokenStays
<1>6. ResetsHaveToken'
  BY <1>1, <1>2 DEF ResetsHaveToken
<1>7. PasswordsHaveReset'
  BY <1>1, <1>2, <1>3 DEF ResetTypeOK, PasswordsHaveReset
<1> QED
  BY <1>4, <1>5, <1>6, <1>7

(* What is spent is this reset's token: a newer one stays.                  *)
LEMMA DeleteTokenKeeps ==
  ASSUME IResets, NEW r \in Resets, DeleteToken(r)
  PROVE  IResets'
PROOF
<1> USE DEF IResets
<1> DEFINE f == reset[r].token
<1>1. /\ reset[r].at = "set"
      /\ row' = [e \in Emails |-> IF row[e] = f THEN NoToken ELSE row[e]]
      /\ spent' = spent \cup {f}
      /\ reset' = [reset EXCEPT ![r].at = "ok"]
      /\ UNCHANGED <<password, expired, forgot, newest>>
  BY DEF DeleteToken
<1>2. /\ reset'[r].at = "ok" /\ reset'[r].token = f /\ reset'[r].user = reset[r].user
      /\ \A s \in Resets : s # r => reset'[s] = reset[s]
  BY <1>1 DEF ResetTypeOK
<1>3. f \in Forgots /\ forgot[f].at = "mailed"
  <2>1. f \in Forgots /\ forgot[f] = [at |-> "mailed", user |-> reset[r].user]
    BY <1>1 DEF ResetsHaveToken
  <2> QED
    BY <2>1
<1>4. ResetTypeOK'
  BY <1>1, <1>3 DEF ResetTypeOK
<1>5. TokensHaveOwner'
  BY <1>1, <1>3 DEF TokensHaveOwner
<1>6. ResetsHaveToken' /\ PasswordsHaveReset'
  BY <1>1, <1>2 DEF ResetTypeOK, ResetsHaveToken, PasswordsHaveReset
<1>7. NewestTokenStays'
  BY <1>1, <1>3, NothingAssumption DEF ResetTypeOK, NewestTokenStays
<1> QED
  BY <1>4, <1>5, <1>6, <1>7

(* The token is left in the table.                                         *)
LEMMA DeleteFailsKeeps ==
  ASSUME IResets, NEW r \in Resets, DeleteFails(r)
  PROVE  IResets'
PROOF
<1> USE DEF IResets
<1>1. /\ reset[r].at = "set"
      /\ reset' = [reset EXCEPT ![r].at = "ok"]
      /\ UNCHANGED <<password, row, expired, forgot, newest, spent>>
  BY DEF DeleteFails
<1>2. /\ reset'[r].at = "ok" /\ reset'[r].token = reset[r].token
      /\ reset'[r].user = reset[r].user
      /\ \A s \in Resets : s # r => reset'[s] = reset[s]
  BY <1>1 DEF ResetTypeOK
<1>3. ResetTypeOK'
  BY <1>1 DEF ResetTypeOK
<1>4. TokensHaveOwner' /\ NewestTokenStays'
  BY <1>1 DEF TokensHaveOwner, NewestTokenStays
<1>5. ResetsHaveToken' /\ PasswordsHaveReset'
  BY <1>1, <1>2 DEF ResetTypeOK, ResetsHaveToken, PasswordsHaveReset
<1> QED
  BY <1>3, <1>4, <1>5

(* A step of something else.                                               *)
LEMMA SameResets ==
  ASSUME IResets, UNCHANGED <<password, row, forgot, reset, newest, spent>>
  PROVE  IResets'
  BY DEF IResets, ResetTypeOK, TokensHaveOwner, ResetsHaveToken, PasswordsHaveReset,
         NewestTokenStays

(* Every step keeps the resets.                                            *)
LEMMA ResetsNext == IResets /\ NextReset => IResets'
PROOF
<1> SUFFICES ASSUME IResets, NextReset PROVE IResets'
  OBVIOUS
<1>1. ASSUME NEW f \in Forgots,
             (\E e \in Emails : FindUser(f, e)) \/ StoreToken(f) \/ StoreFails(f) \/ MailToken(f)
      PROVE  IResets'
  BY <1>1, FindUserKeeps, StoreTokenKeeps, RequestKeeps
<1>2. ASSUME NEW e \in Emails, Expire(e)
      PROVE  IResets'
  BY <1>2, SameResets DEF Expire
<1>3. ASSUME NEW r \in Resets,
             \/ \E f \in Forgots : CheckToken(r, f)
             \/ SetPassword(r) \/ DeleteToken(r) \/ DeleteFails(r)
      PROVE  IResets'
  BY <1>3, CheckTokenKeeps, SetPasswordKeeps, DeleteTokenKeeps, DeleteFailsKeeps
<1> QED
  BY <1>1, <1>2, <1>3 DEF NextReset

-----------------------------------------------------------------------------------
(* Both together.                                                          *)

(* No step of a signup, of a notice or of a reset breaks either invariant. *)
LEMMA Invariance == AccountsSpec => [](IAccounts /\ IResets)
PROOF
<1>1. InitAccounts => IAccounts /\ IResets
  BY AccountsInit, ResetsInit DEF InitAccounts
<1>2. IAccounts /\ IResets /\ [NextAccounts]_<<vars, resets>> => (IAccounts /\ IResets)'
  <2> SUFFICES ASSUME IAccounts, IResets, [NextAccounts]_<<vars, resets>>
               PROVE  IAccounts' /\ IResets'
    OBVIOUS
  <2>1. CASE Next /\ UNCHANGED resets
    BY <2>1, AccountsNext, SameResets DEF resets
  <2>2. CASE NextReset /\ UNCHANGED vars
    BY <2>2, AccountsNext, ResetsNext
  <2>3. CASE UNCHANGED <<vars, resets>>
    BY <2>3, AccountsNext, SameResets DEF resets
  <2> QED
    BY <2>1, <2>2, <2>3 DEF NextAccounts
<1> QED
  BY <1>1, <1>2, PTL DEF AccountsSpec

(* The tables have their values, and every subscription, whatever notices   *)
(* and changes of plan arrive, a plan that can be billed.                  *)
THEOREM TypeCorrect == AccountsSpec => []TypeOK
PROOF
<1>1. IAccounts => TypeOK
  BY DEF IAccounts
<1> QED
  BY <1>1, Invariance, PTL

(* A committed tenant has exactly one user and a user has a committed       *)
(* tenant, however signups meet, fail or lose their confirmation.          *)
THEOREM WholeAccounts == AccountsSpec => []AccountsAreWhole
PROOF
<1>1. IAccounts => AccountsAreWhole
  BY DEF IAccounts
<1> QED
  BY <1>1, Invariance, PTL

(* A signup that was answered "ok" has its account, for ever.               *)
THEOREM OkIsAccount == AccountsSpec => []OkMeansAccount
PROOF
<1>1. IAccounts => OkMeansAccount
  BY DEF IAccounts
<1> QED
  BY <1>1, Invariance, PTL

(* What was stored last for a user, a token or an empty one, is only taken  *)
(* away by the reset that spends it, and a password was set with a token    *)
(* that was mailed to its user.                                            *)
THEOREM ResetsAreApart == AccountsSpec => []ResetsStayApart
PROOF
<1>1. IResets => ResetsStayApart
  BY OwnPasswords DEF IResets, ResetsStayApart
<1> QED
  BY <1>1, Invariance, PTL

-----------------------------------------------------------------------------------
(* The login's limiters.                                                   *)

(* The types of the limiter's state.                                       *)
LimiterTypeOK ==
  /\ now \in Nat
  /\ counts \in [Keys -> SUBSET [by: Requests, at: Nat]]
  /\ pc \in [Requests -> {"idle", "limited", "tooMany", "admitted", "answered"}]
  /\ req \in [Requests -> Origin \cup {NoOrigin}]
  /\ admitted \in [Requests -> Nat \cup {Never}]

(* A request that has not come was not let in, and one that has come has an *)
(* origin.                                                                 *)
NobodyIsEarly ==
  \A r \in Requests : IF pc[r] = "idle" THEN admitted[r] = Never ELSE req[r] \in Origin

(* The list of a key holds attempts that were let in, each with its time.   *)
AttemptsWereAdmitted ==
  \A k \in Keys : \A a \in counts[k] : admitted[a.by] = a.at /\ Key(req[a.by]) = k

(* What the limits are about is in the lists: whatever lies in the short    *)
(* window, and in the list of a key with a port what lies in the long one.  *)
AdmissionsAreRemembered ==
  \A k \in Keys :
    /\ \A r \in Counted(k, ShortWindow) : Attempt(r, admitted[r]) \in counts[k]
    /\ k \notin Hosts =>
         \A r \in Counted(k, LongWindow) : Attempt(r, admitted[r]) \in counts[k]

(* What makes the limit inductive: a list has a request for each of its    *)
(* attempts, and every request that counts is in its list.                 *)
LimiterInv ==
  /\ LimiterTypeOK
  /\ NobodyIsEarly /\ AttemptsWereAdmitted /\ AdmissionsAreRemembered
  /\ LimitHolds

(* A number of requests is finite.                                         *)
LEMMA RequestsAreFinite ==
  ASSUME NEW S \in SUBSET Requests
  PROVE  IsFiniteSet(S) /\ Cardinality(S) \in Nat
<1> QED
  BY KeysAssumption, FS_Subset, FS_CardinalityType

(* The requests of a key's recent attempts: they are as many as the         *)
(* attempts, and they count for the key.                                   *)
LEMMA RecentAreCounted ==
  ASSUME LimiterInv, NEW k \in Keys, NEW w \in Nat
  PROVE  LET recent == Recent(counts[k], w) IN
         /\ IsFiniteSet(recent)
         /\ Cardinality(recent) \in Nat
         /\ Cardinality(recent) =< Cardinality(Counted(k, w))
<1> DEFINE recent == Recent(counts[k], w)
           f == [a \in recent |-> a.by]
<1>1. \A a \in recent : /\ a \in counts[k] /\ a.by \in Requests /\ a.at \in Nat
                        /\ a = Attempt(a.by, a.at)
                        /\ now - a.at < w
  BY DEF LimiterInv, LimiterTypeOK, Recent, Attempt
<1>2. \A a \in recent : admitted[a.by] = a.at /\ Key(req[a.by]) = k
  BY <1>1 DEF LimiterInv, AttemptsWereAdmitted
<1>3. \A a \in recent : f[a] \in Counted(k, w)
  BY <1>1, <1>2 DEF Counted, Never
<1>4. \A a, b \in recent : f[a] = f[b] => a = b
  BY <1>1, <1>2
<1>5. IsFiniteSet(Counted(k, w)) /\ Cardinality(Counted(k, w)) \in Nat
  BY RequestsAreFinite DEF Counted
<1>6. f \in Injection(recent, Counted(k, w))
  <2>1. f \in [recent -> Counted(k, w)] /\ DOMAIN f = recent
    BY <1>3
  <2> HIDE DEF f, recent
  <2> QED
    BY <1>4, <2>1 DEF Injection, IsInjective
<1> HIDE DEF recent, f
<1>7. IsFiniteSet(recent) /\ Cardinality(recent) =< Cardinality(Counted(k, w))
  BY <1>5, <1>6, FS_Injection
<1>8. Cardinality(recent) \in Nat
  BY <1>7, FS_CardinalityType
<1> QED
  BY <1>7, <1>8 DEF recent

(* The other way round: what is remembered is counted among the recent.     *)
LEMMA CountedAreRecent ==
  ASSUME LimiterInv, NEW k \in Keys, NEW w \in Nat, NEW v \in Nat, w =< v,
         \A r \in Counted(k, w) : Attempt(r, admitted[r]) \in counts[k]
  PROVE  Cardinality(Counted(k, w)) =< Cardinality(Recent(counts[k], v))
<1> DEFINE recent == Recent(counts[k], v)
           f == [r \in Counted(k, w) |-> Attempt(r, admitted[r])]
<1>1. \A r \in Counted(k, w) : r \in Requests /\ admitted[r] \in Nat /\ now - admitted[r] < w
  BY DEF LimiterInv, LimiterTypeOK, Counted
<1>2. \A r \in Counted(k, w) : f[r] \in recent
  <2>1. now \in Nat
    BY DEF LimiterInv, LimiterTypeOK
  <2> QED
    BY <1>1, <2>1 DEF Recent, Attempt
<1>3. \A r, s \in Counted(k, w) : f[r] = f[s] => r = s
  BY DEF Attempt
<1>4. IsFiniteSet(recent)
  BY RecentAreCounted
<1>5. f \in Injection(Counted(k, w), recent)
  <2>1. f \in [Counted(k, w) -> recent] /\ DOMAIN f = Counted(k, w)
    BY <1>2
  <2> HIDE DEF f, recent
  <2> QED
    BY <1>3, <2>1 DEF Injection, IsInjective
<1> HIDE DEF recent, f
<1>6. Cardinality(Counted(k, w)) =< Cardinality(recent)
  BY <1>4, <1>5, FS_Injection
<1> QED
  BY <1>6 DEF recent

(* One more request counts for at most one more.                           *)
LEMMA OneMoreRequest ==
  ASSUME NEW S \in SUBSET Requests, NEW r \in Requests, NEW T \in SUBSET (S \cup {r})
  PROVE  Cardinality(T) =< Cardinality(S) + 1
<1>1. IsFiniteSet(S) /\ IsFiniteSet(S \cup {r}) /\ Cardinality(S) \in Nat
      /\ IsFiniteSet(T) /\ Cardinality(T) \in Nat /\ Cardinality(S \cup {r}) \in Nat
  BY RequestsAreFinite
<1>2. Cardinality(S \cup {r}) =< Cardinality(S) + 1
  BY <1>1, FS_AddElement
<1>3. Cardinality(T) =< Cardinality(S \cup {r})
  BY <1>1, FS_Subset
<1> QED
  BY <1>1, <1>2, <1>3

(* Less is counted: time has passed, or nothing has happened.              *)
LEMMA LimitStays ==
  ASSUME LimitHolds, \A k \in Keys, w \in {ShortWindow, LongWindow} :
                       Counted(k, w)' \subseteq Counted(k, w)
  PROVE  LimitHolds'
<1>1. MaxAttempts \in Nat
  BY WindowsAssumption
<1>2. ASSUME NEW k \in Keys, NEW w \in {ShortWindow, LongWindow},
             Cardinality(Counted(k, w)) =< MaxAttempts
      PROVE  Cardinality(Counted(k, w)') =< MaxAttempts
  <2>1. /\ IsFiniteSet(Counted(k, w)) /\ Cardinality(Counted(k, w)) \in Nat
    BY RequestsAreFinite DEF Counted
  <2>2. Cardinality(Counted(k, w)') =< Cardinality(Counted(k, w))
        /\ Cardinality(Counted(k, w)') \in Nat
    BY <2>1, FS_Subset, FS_CardinalityType
  <2> QED
    BY <1>1, <1>2, <2>1, <2>2
<1> QED
  BY <1>2 DEF LimitHolds

(* Time passes: windows move on, and fewer requests count.                 *)
LEMMA TickKeepsLimit ==
  ASSUME LimiterInv, Tick
  PROVE  LimiterInv'
<1>1. now \in Nat /\ now' = now + 1 /\ UNCHANGED <<counts, pc, req, admitted>>
  BY DEF Tick, LimiterInv, LimiterTypeOK
<1>2. ShortWindow \in Nat /\ LongWindow \in Nat
  BY WindowsAssumption
<1>3. \A k \in Keys, w \in {ShortWindow, LongWindow} : Counted(k, w)' \subseteq Counted(k, w)
  <2>1. \A r \in Requests : admitted[r] \in Nat \cup {Never}
    BY DEF LimiterInv, LimiterTypeOK
  <2> QED
    BY <1>1, <1>2, <2>1 DEF Counted, Never
<1>4. LimitHolds'
  BY <1>3, LimitStays DEF LimiterInv
<1>5. AdmissionsAreRemembered'
  BY <1>1, <1>3 DEF LimiterInv, AdmissionsAreRemembered
<1>6. LimiterTypeOK'
  BY <1>1 DEF LimiterInv, LimiterTypeOK
<1> QED
  BY <1>1, <1>4, <1>5, <1>6 DEF LimiterInv, NobodyIsEarly, AttemptsWereAdmitted

(* A refused or passed second limiter: nobody's admission changes, and what *)
(* the host's list forgets lies outside of the short window.               *)
LEMMA SecondLimitKeepsLimit ==
  ASSUME LimiterInv, NEW r \in Requests, SecondLimit(r)
  PROVE  LimiterInv'
<1>1. PICK h : h = req[r].host
  OBVIOUS
<1>2. PICK recent : recent = Recent(counts[h], ShortWindow)
  OBVIOUS
<1>3. PICK place \in {"tooMany", "admitted"} :
        /\ pc[r] = "limited"
        /\ pc' = [pc EXCEPT ![r] = place]
        /\ counts' = [counts EXCEPT ![h] = recent]
        /\ UNCHANGED <<now, req, admitted>>
  BY <1>1, <1>2 DEF SecondLimit, Goto
<1>4. req[r] \in Origin
  BY <1>3 DEF LimiterInv, NobodyIsEarly
<1>5. h \in Hosts /\ h \in Keys
  BY <1>1, <1>4 DEF Origin, Keys
<1>6. LimiterTypeOK
  BY DEF LimiterInv
<1>7. recent \subseteq counts[h]
  BY <1>2 DEF Recent
<1>8. \A k \in Keys : counts'[k] = IF k = h THEN recent ELSE counts[k]
  BY <1>3, <1>6 DEF LimiterTypeOK
<1>9. LimiterTypeOK'
  <2>1. counts[h] \in SUBSET [by: Requests, at: Nat]
    BY <1>5, <1>6 DEF LimiterTypeOK
  <2>2. recent \in SUBSET [by: Requests, at: Nat]
    BY <1>7, <2>1
  <2>3. counts' \in [Keys -> SUBSET [by: Requests, at: Nat]]
    BY <1>3, <1>6, <2>2 DEF LimiterTypeOK
  <2>4. pc' \in [Requests -> {"idle", "limited", "tooMany", "admitted", "answered"}]
    BY <1>3, <1>6 DEF LimiterTypeOK
  <2> QED
    BY <1>3, <1>6, <2>3, <2>4 DEF LimiterTypeOK
<1>10. NobodyIsEarly'
  BY <1>3, <1>4, <1>6 DEF LimiterInv, NobodyIsEarly, LimiterTypeOK
<1>11. AttemptsWereAdmitted'
  BY <1>3, <1>7, <1>8 DEF LimiterInv, AttemptsWereAdmitted
<1>12. \A k \in Keys, w \in {ShortWindow, LongWindow} : Counted(k, w)' = Counted(k, w)
  BY <1>3 DEF Counted
<1>13. AdmissionsAreRemembered'
  <2> SUFFICES ASSUME NEW k \in Keys
               PROVE  /\ \A s \in Counted(k, ShortWindow) :
                           Attempt(s, admitted[s]) \in counts'[k]
                      /\ k \notin Hosts =>
                           \A s \in Counted(k, LongWindow) : Attempt(s, admitted[s]) \in counts'[k]
    BY <1>3, <1>12 DEF AdmissionsAreRemembered
  <2>1. CASE k = h
    <3>1. \A s \in Counted(k, ShortWindow) :
            Attempt(s, admitted[s]) \in counts[k] /\ now - admitted[s] < ShortWindow
      BY DEF LimiterInv, AdmissionsAreRemembered, Counted
    <3>2. \A s \in Counted(k, ShortWindow) : Attempt(s, admitted[s]) \in recent
      BY <1>2, <2>1, <3>1 DEF Recent, Attempt
    <3> QED
      BY <1>5, <1>8, <2>1, <3>2
  <2>2. CASE k # h
    BY <1>8, <2>2 DEF LimiterInv, AdmissionsAreRemembered
  <2> QED
    BY <2>1, <2>2
<1>14. LimitHolds'
  BY <1>12 DEF LimiterInv, LimitHolds
<1> QED
  BY <1>9, <1>10, <1>11, <1>13, <1>14 DEF LimiterInv

(* What comes after the limiters does not touch them.                      *)
LEMMA AuthenticateKeepsLimit ==
  ASSUME LimiterInv, NEW r \in Requests, Authenticate(r)
  PROVE  LimiterInv'
<1>1. /\ pc[r] = "admitted"
      /\ pc' = [pc EXCEPT ![r] = "answered"]
      /\ UNCHANGED <<now, counts, req, admitted>>
  BY DEF Authenticate, Goto
<1>2. LimiterTypeOK' /\ NobodyIsEarly'
  BY <1>1 DEF LimiterInv, LimiterTypeOK, NobodyIsEarly
<1> QED
  BY <1>1, <1>2 DEF LimiterInv, AttemptsWereAdmitted, AdmissionsAreRemembered, LimitHolds, Counted

(* The first limiter, refusing: it forgets what is older than the windows.  *)
LEMMA RefusalKeepsLimit ==
  ASSUME LimiterInv, NEW r \in Requests, NEW o \in Origin, NEW recent,
         recent = Recent(counts[Key(o)], LongWindow),
         pc[r] = "idle",
         req' = [req EXCEPT ![r] = o],
         counts' = [counts EXCEPT ![Key(o)] = recent],
         pc' = [pc EXCEPT ![r] = "tooMany"],
         UNCHANGED <<now, admitted>>
  PROVE  LimiterInv'
<1>1. PICK k \in Keys : k = Key(o)
  BY DEF Key, Origin, Keys
<1>2. LimiterTypeOK
  BY DEF LimiterInv
<1>3. \A s \in Requests : req'[s] = IF s = r THEN o ELSE req[s]
  BY <1>2 DEF LimiterTypeOK
<1>4. \A l \in Keys : counts'[l] = IF l = k THEN recent ELSE counts[l]
  BY <1>1, <1>2 DEF LimiterTypeOK
<1>5. admitted[r] = Never
  BY DEF LimiterInv, NobodyIsEarly
<1>6. recent \subseteq counts[k]
  BY <1>1 DEF Recent
<1>7. LimiterTypeOK'
  <2>1. recent \in SUBSET [by: Requests, at: Nat]
    BY <1>2, <1>6 DEF LimiterTypeOK
  <2>2. counts' \in [Keys -> SUBSET [by: Requests, at: Nat]]
    BY <1>2, <2>1 DEF LimiterTypeOK
  <2>3. pc' \in [Requests -> {"idle", "limited", "tooMany", "admitted", "answered"}]
    BY <1>2 DEF LimiterTypeOK
  <2>4. req' \in [Requests -> Origin \cup {NoOrigin}]
    BY <1>2 DEF LimiterTypeOK
  <2> QED
    BY <1>2, <2>2, <2>3, <2>4 DEF LimiterTypeOK
<1>8. NobodyIsEarly'
  BY <1>2, <1>3 DEF LimiterInv, NobodyIsEarly, LimiterTypeOK
<1>9. AttemptsWereAdmitted'
  <2>1. \A l \in Keys : \A a \in counts[l] : a.by \in Requests /\ a.at \in Nat /\ a.by # r
    BY <1>2, <1>5 DEF LimiterInv, AttemptsWereAdmitted, LimiterTypeOK, Never
  <2> QED
    BY <1>3, <1>4, <1>6, <2>1 DEF LimiterInv, AttemptsWereAdmitted
<1>10. \A l \in Keys, w \in {ShortWindow, LongWindow} : Counted(l, w)' = Counted(l, w)
  BY <1>3, <1>5 DEF Counted
<1>11. AdmissionsAreRemembered'
  <2> SUFFICES ASSUME NEW l \in Keys
               PROVE  /\ \A s \in Counted(l, ShortWindow) :
                           Attempt(s, admitted[s]) \in counts'[l]
                      /\ l \notin Hosts =>
                           \A s \in Counted(l, LongWindow) : Attempt(s, admitted[s]) \in counts'[l]
    BY <1>10 DEF AdmissionsAreRemembered
  <2>1. CASE l = k
    <3>1. \A w \in {ShortWindow, LongWindow} : \A s \in Counted(l, w) : now - admitted[s] < LongWindow
      <4>1. \A s \in Requests : admitted[s] = Never \/ now - admitted[s] \in Int
        BY <1>2 DEF LimiterTypeOK
      <4> QED
        BY <4>1, WindowsAssumption DEF Counted
    <3>2. \A s \in Requests : Attempt(s, admitted[s]) \in counts[l] /\ now - admitted[s] < LongWindow
                              => Attempt(s, admitted[s]) \in recent
      BY <1>1, <2>1 DEF Recent, Attempt
    <3>3. \A w \in {ShortWindow, LongWindow} : Counted(l, w) \subseteq Requests
      BY DEF Counted
    <3> QED
      BY <1>4, <2>1, <3>1, <3>2, <3>3 DEF LimiterInv, AdmissionsAreRemembered
  <2>2. CASE l # k
    BY <1>4, <2>2 DEF LimiterInv, AdmissionsAreRemembered
  <2> QED
    BY <2>1, <2>2
<1>12. LimitHolds'
  BY <1>10 DEF LimiterInv, LimitHolds
<1> QED
  BY <1>7, <1>8, <1>9, <1>11, <1>12 DEF LimiterInv

(* The first limiter, letting in: fewer than MaxAttempts attempts were       *)
(* recent, and so fewer requests counted.                                  *)
LEMMA AdmissionKeepsLimit ==
  ASSUME LimiterInv, NEW r \in Requests, NEW o \in Origin, NEW recent,
         recent = Recent(counts[Key(o)], LongWindow),
         pc[r] = "idle",
         Cardinality(recent) < MaxAttempts,
         req' = [req EXCEPT ![r] = o],
         counts' = [counts EXCEPT ![Key(o)] = recent \cup {Attempt(r, now)}],
         pc' = [pc EXCEPT ![r] = "limited"],
         admitted' = [admitted EXCEPT ![r] = now],
         UNCHANGED now
  PROVE  LimiterInv'
<1>1. PICK k \in Keys : k = Key(o)
  BY DEF Key, Origin, Keys
<1>2. LimiterTypeOK
  BY DEF LimiterInv
<1>3. \A s \in Requests : req'[s] = IF s = r THEN o ELSE req[s]
  BY <1>2 DEF LimiterTypeOK
<1>4. \A l \in Keys : counts'[l] = IF l = k THEN recent \cup {Attempt(r, now)} ELSE counts[l]
  BY <1>1, <1>2 DEF LimiterTypeOK
<1>5. \A s \in Requests : admitted'[s] = IF s = r THEN now ELSE admitted[s]
  BY <1>2 DEF LimiterTypeOK
<1>6. admitted[r] = Never /\ now \in Nat /\ now' = now
  BY <1>2 DEF LimiterInv, NobodyIsEarly, LimiterTypeOK
<1>7. recent \subseteq counts[k]
  BY <1>1 DEF Recent
<1>8. Attempt(r, now) \in [by: Requests, at: Nat] /\ Attempt(r, now).by = r
      /\ Attempt(r, now).at = now
  BY <1>6 DEF Attempt
<1>9. LimiterTypeOK'
  <2>1. recent \cup {Attempt(r, now)} \in SUBSET [by: Requests, at: Nat]
    BY <1>2, <1>7, <1>8 DEF LimiterTypeOK
  <2>2. counts' \in [Keys -> SUBSET [by: Requests, at: Nat]]
    BY <1>2, <2>1 DEF LimiterTypeOK
  <2>3. pc' \in [Requests -> {"idle", "limited", "tooMany", "admitted", "answered"}]
    BY <1>2 DEF LimiterTypeOK
  <2>4. req' \in [Requests -> Origin \cup {NoOrigin}]
    BY <1>2 DEF LimiterTypeOK
  <2>5. admitted' \in [Requests -> Nat \cup {Never}]
    BY <1>2, <1>6 DEF LimiterTypeOK
  <2> QED
    BY <1>2, <2>2, <2>3, <2>4, <2>5 DEF LimiterTypeOK
<1>10. NobodyIsEarly'
  BY <1>2, <1>3, <1>5 DEF LimiterInv, NobodyIsEarly, LimiterTypeOK
<1>11. \A l \in Keys : \A a \in counts[l] : a.by \in Requests /\ a.at \in Nat /\ a.by # r
  BY <1>2, <1>6 DEF LimiterInv, AttemptsWereAdmitted, LimiterTypeOK, Never
<1>12. AttemptsWereAdmitted'
  <2> SUFFICES ASSUME NEW l \in Keys, NEW a \in counts'[l]
               PROVE  admitted'[a.by] = a.at /\ Key(req'[a.by]) = l
    BY DEF AttemptsWereAdmitted
  <2>1. CASE a = Attempt(r, now)
    <3>1. l = k
      BY <1>4, <1>8, <1>11, <2>1
    <3> QED
      BY <1>1, <1>3, <1>5, <1>8, <2>1, <3>1
  <2>2. CASE a # Attempt(r, now)
    <3>1. a \in counts[l]
      BY <1>4, <1>7, <2>2
    <3> QED
      BY <1>3, <1>5, <1>11, <3>1 DEF LimiterInv, AttemptsWereAdmitted
  <2> QED
    BY <2>1, <2>2
<1>13. \A l \in Keys, w \in {ShortWindow, LongWindow} :
          /\ Counted(l, w)' \subseteq Counted(l, w) \cup {r}
          /\ l # k => Counted(l, w)' = Counted(l, w)
          /\ r \notin Counted(l, w)
  BY <1>1, <1>3, <1>5, <1>6 DEF Counted
<1>14. AdmissionsAreRemembered'
  <2>0. ASSUME NEW l \in Keys, NEW w \in {ShortWindow, LongWindow},
               \A s \in Counted(l, w) : Attempt(s, admitted[s]) \in counts[l]
        PROVE  \A s \in Counted(l, w)' : Attempt(s, admitted'[s]) \in counts'[l]
    <3> SUFFICES ASSUME NEW s \in Counted(l, w)'
                 PROVE  Attempt(s, admitted'[s]) \in counts'[l]
      OBVIOUS
    <3>1. CASE s = r
      <4>1. l = k
        BY <1>13, <3>1
      <4> QED
        BY <1>4, <1>5, <3>1, <4>1
    <3>2. CASE s # r
      <4>1. s \in Counted(l, w) /\ s \in Requests /\ admitted'[s] = admitted[s]
        BY <1>5, <1>13, <3>2 DEF Counted
      <4>2. Attempt(s, admitted[s]) \in counts[l]
        BY <2>0, <4>1
      <4>3. now - admitted[s] < LongWindow
        <5>1. now - admitted[s] < w /\ admitted[s] \in Int
          BY <1>2, <4>1 DEF Counted, LimiterTypeOK, Never
        <5> QED
          BY <1>6, <5>1, WindowsAssumption
      <4>4. CASE l = k
        <5>1. Attempt(s, admitted[s]) \in recent
          BY <1>1, <4>2, <4>3, <4>4 DEF Recent, Attempt
        <5> QED
          BY <1>4, <4>1, <4>4, <5>1
      <4>5. CASE l # k
        BY <1>4, <4>1, <4>2, <4>5
      <4> QED
        BY <4>4, <4>5
    <3> QED
      BY <3>1, <3>2
  <2>1. ASSUME NEW l \in Keys
        PROVE  \A s \in Counted(l, ShortWindow)' : Attempt(s, admitted'[s]) \in counts'[l]
    BY <2>0 DEF LimiterInv, AdmissionsAreRemembered
  <2>2. ASSUME NEW l \in Keys, l \notin Hosts
        PROVE  \A s \in Counted(l, LongWindow)' : Attempt(s, admitted'[s]) \in counts'[l]
    BY <2>0, <2>2 DEF LimiterInv, AdmissionsAreRemembered
  <2> QED
    BY <2>1, <2>2 DEF AdmissionsAreRemembered
<1>15. LimitHolds'
  <2>0. /\ MaxAttempts \in Nat /\ ShortWindow \in Nat /\ LongWindow \in Nat
        /\ ShortWindow =< LongWindow
    BY WindowsAssumption
  <2>1. ASSUME NEW l \in Keys, NEW w \in {ShortWindow, LongWindow},
               \A s \in Counted(l, w) : Attempt(s, admitted[s]) \in counts[l],
               Cardinality(Counted(l, w)) =< MaxAttempts
        PROVE  Cardinality(Counted(l, w)') =< MaxAttempts
    <3>1. CASE l = k
      <4>1. Cardinality(Counted(l, w)) =< Cardinality(recent)
        BY <1>1, <2>0, <2>1, <3>1, CountedAreRecent
      <4>2. Cardinality(recent) \in Nat
        BY <1>1, <2>0, RecentAreCounted
      <4>3. Counted(l, w) \in SUBSET Requests /\ Cardinality(Counted(l, w)) \in Nat
        BY RequestsAreFinite DEF Counted
      <4>4. Cardinality(Counted(l, w)') =< Cardinality(Counted(l, w)) + 1
        BY <1>13, <4>3, OneMoreRequest
      <4>5. Cardinality(Counted(l, w)') \in Nat
        <5>1. Counted(l, w)' \in SUBSET Requests
          BY <1>13, <4>3
        <5> QED
          BY <5>1, RequestsAreFinite
      <4> QED
        BY <2>0, <4>1, <4>2, <4>3, <4>4, <4>5
    <3>2. CASE l # k
      BY <1>13, <2>1, <3>2
    <3> QED
      BY <3>1, <3>2
  <2> QED
    BY <2>1 DEF LimiterInv, LimitHolds, AdmissionsAreRemembered
<1> QED
  BY <1>9, <1>10, <1>12, <1>14, <1>15 DEF LimiterInv

(* The two outcomes of the first limiter.                                  *)
Judged(r, o, recent) ==
  /\ recent = Recent(counts[Key(o)], LongWindow)
  /\ pc[r] = "idle"
  /\ req' = [req EXCEPT ![r] = o]
  /\ UNCHANGED now
  /\ \/ /\ Cardinality(recent) >= MaxAttempts
        /\ counts' = [counts EXCEPT ![Key(o)] = recent]
        /\ pc' = [pc EXCEPT ![r] = "tooMany"]
        /\ UNCHANGED admitted
     \/ /\ ~ (Cardinality(recent) >= MaxAttempts)
        /\ counts' = [counts EXCEPT ![Key(o)] = recent \cup {Attempt(r, now)}]
        /\ pc' = [pc EXCEPT ![r] = "limited"]
        /\ admitted' = [admitted EXCEPT ![r] = now]

(* A request is judged by the recent attempts of its key.                  *)
LEMMA FirstLimit ==
  ASSUME NEW r \in Requests, CheckRateLimit(r)
  PROVE  \E o \in Origin : \E recent : Judged(r, o, recent)
<1>1. pc[r] = "idle" /\ UNCHANGED now
  BY DEF CheckRateLimit
<1>2. PICK o \in Origin :
        /\ req' = [req EXCEPT ![r] = o]
        /\ IF Cardinality(Recent(counts[Key(o)], LongWindow)) >= MaxAttempts
           THEN /\ counts' = [counts EXCEPT ![Key(o)] = Recent(counts[Key(o)], LongWindow)]
                /\ pc' = [pc EXCEPT ![r] = "tooMany"]
                /\ UNCHANGED admitted
           ELSE /\ counts' = [counts EXCEPT ![Key(o)] =
                                Recent(counts[Key(o)], LongWindow) \cup {Attempt(r, now)}]
                /\ pc' = [pc EXCEPT ![r] = "limited"]
                /\ admitted' = [admitted EXCEPT ![r] = now]
  BY Zenon DEF CheckRateLimit, Goto
<1> QED
  BY <1>1, <1>2, Zenon DEF Judged

(* The first limiter, whatever it decides.                                 *)
LEMMA CheckKeepsLimit ==
  ASSUME LimiterInv, NEW r \in Requests, CheckRateLimit(r)
  PROVE  LimiterInv'
<1>0. PICK o \in Origin : \E recent : Judged(r, o, recent)
  BY FirstLimit
<1>1. PICK recent : Judged(r, o, recent)
  BY <1>0
<1> USE DEF Judged
<1>2. Cardinality(recent) \in Nat /\ MaxAttempts \in Nat
  <2>1. Key(o) \in Keys
    BY DEF Key, Origin, Keys
  <2> QED
    BY <1>1, <2>1, RecentAreCounted, WindowsAssumption
<1>3. CASE Cardinality(recent) >= MaxAttempts
  BY <1>1, <1>3, RefusalKeepsLimit
<1>4. CASE ~ (Cardinality(recent) >= MaxAttempts)
  <2>1. Cardinality(recent) < MaxAttempts
    BY <1>2, <1>4
  <2>2. /\ counts' = [counts EXCEPT ![Key(o)] = recent \cup {Attempt(r, now)}]
        /\ pc' = [pc EXCEPT ![r] = "limited"]
        /\ admitted' = [admitted EXCEPT ![r] = now]
    BY <1>1, <1>4
  <2> QED
    BY <1>1, <2>1, <2>2, AdmissionKeepsLimit
<1> QED
  BY <1>3, <1>4

(* Every step keeps the invariant.                                         *)
LEMMA NextKeepsLimit == LimiterInv /\ [NextLogin]_loginVars => LimiterInv'
<1> SUFFICES ASSUME LimiterInv, [NextLogin]_loginVars PROVE LimiterInv'
  OBVIOUS
<1>1. CASE UNCHANGED loginVars
  BY <1>1 DEF loginVars, LimiterInv, LimiterTypeOK, NobodyIsEarly, AttemptsWereAdmitted,
              AdmissionsAreRemembered, LimitHolds, Counted
<1> QED
  BY <1>1, TickKeepsLimit, CheckKeepsLimit, SecondLimitKeepsLimit, AuthenticateKeepsLimit
  DEF NextLogin

(* The lists are empty when the gateway starts.                            *)
LEMMA InitLimit == InitLogin => LimiterInv
<1> SUFFICES ASSUME InitLogin PROVE LimiterInv
  OBVIOUS
<1>1. LimiterTypeOK /\ NobodyIsEarly /\ AttemptsWereAdmitted
  BY DEF InitLogin, LimiterTypeOK, NobodyIsEarly, AttemptsWereAdmitted
<1>2. \A k, w : Counted(k, w) = {}
  BY DEF InitLogin, Counted
<1>3. AdmissionsAreRemembered
  BY <1>2 DEF AdmissionsAreRemembered
<1>4. LimitHolds
  BY <1>2, FS_EmptySet, WindowsAssumption DEF LimitHolds
<1> QED
  BY <1>1, <1>3, <1>4 DEF LimiterInv

(* The invariant holds of the two limiters, for any number of requests,    *)
(* hosts and ports and any windows.                                        *)
THEOREM LimiterInvariant == SpecLogin => []LimiterInv
<1> QED
  BY InitLimit, NextKeepsLimit, PTL DEF SpecLogin

(* No key is let in more than MaxAttempts times within the short window,   *)
(* and none with a port within the long one, although the second limiter   *)
(* of handleLogin forgets attempts that checkRateLimit still counts.       *)
THEOREM LimitsHold == SpecLogin => []LimitHolds
<1>1. LimiterInv => LimitHolds
  BY DEF LimiterInv
<1> QED
  BY <1>1, LimiterInvariant, PTL

(* What counts for a host that no header speaks for was sent by this host.  *)
LEMMA CountedAreOwn ==
  ASSUME LimiterInv, NEW o \in Origin, ~ SpokenFor(o),
         NEW k \in {Key(o), o.host}, NEW w \in Nat, w =< LongWindow
  PROVE  Cardinality(Counted(k, w)) =< Cardinality(SentBy(o.host, LongWindow))
<1>1. Counted(k, w) \subseteq SentBy(o.host, LongWindow)
  <2> SUFFICES ASSUME NEW q \in Requests, admitted[q] # Never, Key(req[q]) = k,
                      now - admitted[q] < w
               PROVE  q \in SentBy(o.host, LongWindow)
    BY DEF Counted
  <2>1. pc[q] # "idle" /\ req[q] \in Origin
    BY DEF LimiterInv, NobodyIsEarly
  <2>2. now \in Nat /\ admitted[q] \in Nat /\ LongWindow \in Nat
    BY WindowsAssumption DEF LimiterInv, LimiterTypeOK
  <2>3. now - admitted[q] < LongWindow
    BY <2>2
  <2>4. /\ o.host \in Hosts /\ req[q].host \in Hosts
        /\ o.header \in {NoHeader, o.host}
        /\ req[q].header = o.host => req[q].host = o.host
    BY <2>1 DEF Origin, SpokenFor
  <2>5. req[q].host = o.host
    <3>1. CASE req[q].header = NoHeader
      <4>1. k = <<req[q].host, req[q].port>>
        BY <3>1 DEF Key
      <4>2. k \in Hosts \X Ports
        BY <2>1, <2>4, <4>1 DEF Origin
      <4>3. k \notin Hosts
        BY <4>2, KeysAssumption
      <4>4. k = <<o.host, o.port>>
        BY <2>4, <4>3 DEF Key
      <4> QED
        BY <4>1, <4>4
    <3>2. CASE req[q].header # NoHeader
      <4>1. k = req[q].header /\ k \in Hosts
        BY <2>1, <3>2 DEF Key, Origin
      <4>2. k = o.host
        <5>1. CASE k = o.host
          BY <5>1
        <5>2. CASE k # o.host
          <6>1. o.header = NoHeader /\ k = <<o.host, o.port>>
            BY <2>4, <5>2 DEF Key
          <6>2. k \in Hosts \X Ports
            BY <6>1 DEF Origin
          <6> QED
            BY <4>1, <6>2, KeysAssumption
        <5> QED
          BY <5>1, <5>2
      <4> QED
        BY <2>4, <4>1, <4>2
    <3> QED
      BY <3>1, <3>2
  <2> QED
    BY <2>3, <2>5 DEF SentBy
<1>2. IsFiniteSet(SentBy(o.host, LongWindow))
  BY RequestsAreFinite DEF SentBy
<1> QED
  BY <1>1, <1>2, FS_Subset

(* A 429 of handleLogin answers a request whose key, or whose host, was     *)
(* named by MaxAttempts requests that were let in within the window, none  *)
(* of them refused or old; when no header speaks for the host, they are    *)
(* its own.                                                                *)
THEOREM RefusalsAreCaused == SpecLogin => RefusalsHaveCause
<1>1. LimiterInv /\ [NextLogin]_loginVars =>
        [\A r \in Requests :
           pc'[r] = "tooMany" /\ pc[r] # "tooMany" =>
             /\ \/ Cardinality(Counted(Key(req'[r]), LongWindow)) >= MaxAttempts
                \/ Cardinality(Counted(req'[r].host, ShortWindow)) >= MaxAttempts
             /\ ~ SpokenFor(req'[r]) =>
                  Cardinality(SentBy(req'[r].host, LongWindow)) >= MaxAttempts]_loginVars
  <2> SUFFICES ASSUME LimiterInv, NextLogin, NEW r \in Requests,
                      pc'[r] = "tooMany", pc[r] # "tooMany"
               PROVE  /\ \/ Cardinality(Counted(Key(req'[r]), LongWindow)) >= MaxAttempts
                         \/ Cardinality(Counted(req'[r].host, ShortWindow)) >= MaxAttempts
                      /\ ~ SpokenFor(req'[r]) =>
                           Cardinality(SentBy(req'[r].host, LongWindow)) >= MaxAttempts
    BY DEF loginVars
  <2>0. MaxAttempts \in Nat /\ ShortWindow \in Nat /\ LongWindow \in Nat
    BY WindowsAssumption
  <2>1. CheckRateLimit(r) \/ SecondLimit(r)
    <3>1. pc \in [Requests -> {"idle", "limited", "tooMany", "admitted", "answered"}]
      BY DEF LimiterInv, LimiterTypeOK
    <3>2. ~ Tick
      BY DEF Tick
    <3>3. PICK s \in Requests : CheckRateLimit(s) \/ SecondLimit(s) \/ Authenticate(s)
      BY <3>2 DEF NextLogin
    <3>4. \E place \in {"limited", "tooMany", "admitted", "answered"} :
            pc' = [pc EXCEPT ![s] = place]
      BY <3>3 DEF CheckRateLimit, SecondLimit, Authenticate, Goto
    <3>5. s = r
      BY <3>1, <3>4
    <3>6. ~ Authenticate(r)
      BY <3>1 DEF Authenticate, Goto
    <3> QED
      BY <3>3, <3>5, <3>6
  <2>2. \A k \in Keys, w \in Nat :
          Cardinality(Recent(counts[k], w)) >= MaxAttempts =>
            Cardinality(Counted(k, w)) >= MaxAttempts
    <3> SUFFICES ASSUME NEW k \in Keys, NEW w \in Nat,
                        Cardinality(Recent(counts[k], w)) >= MaxAttempts
                 PROVE  Cardinality(Counted(k, w)) >= MaxAttempts
      OBVIOUS
    <3>1. /\ Cardinality(Recent(counts[k], w)) \in Nat
          /\ Cardinality(Recent(counts[k], w)) =< Cardinality(Counted(k, w))
      BY RecentAreCounted
    <3>2. Cardinality(Counted(k, w)) \in Nat
      BY RequestsAreFinite DEF Counted
    <3> QED
      BY <2>0, <3>1, <3>2
  <2>3. ASSUME NEW o \in Origin, o = req'[r], NEW k \in {Key(o), o.host}, NEW w \in Nat,
               w =< LongWindow, Cardinality(Counted(k, w)) >= MaxAttempts,
               ~ SpokenFor(o)
        PROVE  Cardinality(SentBy(o.host, LongWindow)) >= MaxAttempts
    <3>1. Cardinality(Counted(k, w)) =< Cardinality(SentBy(o.host, LongWindow))
      BY <2>3, CountedAreOwn
    <3>2. /\ Cardinality(Counted(k, w)) \in Nat
          /\ Cardinality(SentBy(o.host, LongWindow)) \in Nat
      BY RequestsAreFinite DEF Counted, SentBy
    <3> QED
      BY <2>0, <2>3, <3>1, <3>2
  <2>4. CASE CheckRateLimit(r)
    <3>0. PICK o \in Origin : \E recent : Judged(r, o, recent)
      BY <2>4, FirstLimit
    <3>1. PICK recent :
           /\ recent = Recent(counts[Key(o)], LongWindow)
           /\ req' = [req EXCEPT ![r] = o]
           /\ \/ Cardinality(recent) >= MaxAttempts
              \/ pc' = [pc EXCEPT ![r] = "limited"]
      BY <3>0 DEF Judged
    <3>2. req'[r] = o /\ Cardinality(recent) >= MaxAttempts
      BY <3>1 DEF LimiterInv, LimiterTypeOK
    <3>3. Key(o) \in Keys
      BY DEF Key, Origin, Keys
    <3>4. Cardinality(Counted(Key(o), LongWindow)) >= MaxAttempts
      BY <2>0, <2>2, <3>1, <3>2, <3>3
    <3> QED
      BY <2>0, <2>3, <3>2, <3>4
  <2>5. CASE SecondLimit(r)
    <3>1. req' = req /\ req[r] \in Origin
      BY <2>5 DEF SecondLimit, LimiterInv, NobodyIsEarly
    <3>2. req[r].host \in Keys
      BY <3>1 DEF Origin, Keys
    <3>3. Cardinality(Recent(counts[req[r].host], ShortWindow)) >= MaxAttempts
      BY <2>5 DEF SecondLimit, Goto, LimiterInv, LimiterTypeOK
    <3>4. Cardinality(Counted(req[r].host, ShortWindow)) >= MaxAttempts
      BY <2>0, <2>2, <3>2, <3>3
    <3>5. ShortWindow =< LongWindow
      BY WindowsAssumption
    <3> QED
      BY <2>0, <2>3, <3>1, <3>4, <3>5
  <2> QED
    BY <2>1, <2>4, <2>5
<1> QED
  BY <1>1, LimiterInvariant, PTL DEF SpecLogin, RefusalsHaveCause

===================================================================================
