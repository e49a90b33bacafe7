------------------------------ MODULE PasswordReset ------------------------------
(***************************************************************************)
(* How the user of an account gets a new password, over the users that     *)
(* module Subscriptions creates: handleForgotPassword and                  *)
(* handleResetPassword.                                                    *)
(*                                                                         *)
(* A user has at most one row in password_reset_tokens. Every statement is *)
(* on its own, with a connection of the pool, and nobody looks at the error *)
(* of the one that makes a token, nor of those that write: a browser that  *)
(* leaves is enough for one to fail.                                       *)
(***************************************************************************)
EXTENDS Subscriptions

CONSTANTS
  Forgots,    \* the calls of POST /forgot-password; each makes a token, itself
  Resets,     \* the calls of POST /reset-password
  NoToken,    \* no row
  EmptyToken, \* the empty string in a row; handleResetPassword refuses it
  NoUser,
  NoReset     \* the password is the signup's

ASSUME NothingAssumption ==
  /\ NoToken \notin Forgots
  /\ EmptyToken \notin Forgots \cup {NoToken}
  /\ NoReset \notin Resets

VARIABLES
  password, \* users.password_hash: the reset that set it
  row,      \* password_reset_tokens: the token of a user
  expired,  \* the tokens whose hour is over
  forgot,   \* each call of POST /forgot-password
  reset,    \* each call of POST /reset-password
  newest,   \* history: the last token that was stored for a user
  spent     \* history: the tokens a reset has deleted

resets == <<password, row, expired, forgot, reset, newest, spent>>

InitResets ==
  /\ password = [e \in Emails |-> NoReset]
  /\ row = [e \in Emails |-> NoToken]
  /\ expired = {}
  /\ forgot = [f \in Forgots |-> [at |-> "new", user |-> NoUser]]
  /\ reset = [r \in Resets |-> [at |-> "new", token |-> NoToken, user |-> NoUser]]
  /\ newest = [e \in Emails |-> NoToken]
  /\ spent = {}

-----------------------------------------------------------------------------------
(* handleForgotPassword.                                                   *)

(* An address nobody has is answered like any other, and nothing is done.   *)
FindUser(f, e) ==
  /\ forgot[f].at = "new"
  /\ user[e] # NoTenant
  /\ forgot' = [forgot EXCEPT ![f] = [at |-> "found", user |-> e]]
  /\ UNCHANGED <<password, row, expired, reset, newest, spent>>

(* INSERT ... ON CONFLICT (user_id) DO UPDATE: the new token takes the      *)
(* place of an older one, even an empty one, when the token was not made.  *)
StoreToken(f) ==
  LET e == forgot[f].user IN
  /\ forgot[f].at = "found"
  /\ \E token \in {f, EmptyToken} :
       /\ row' = [row EXCEPT ![e] = token]
       /\ newest' = [newest EXCEPT ![e] = token]
  /\ forgot' = [forgot EXCEPT ![f].at = "stored"]
  /\ UNCHANGED <<password, expired, reset, spent>>

StoreFails(f) ==
  /\ forgot[f].at = "found"
  /\ forgot' = [forgot EXCEPT ![f].at = "stored"]
  /\ UNCHANGED <<password, row, expired, reset, newest, spent>>

(* The token goes out, whether or not it was stored; mails may overtake one *)
(* another.                                                                *)
MailToken(f) ==
  /\ forgot[f].at = "stored"
  /\ forgot' = [forgot EXCEPT ![f].at = "mailed"]
  /\ UNCHANGED <<password, row, expired, reset, newest, spent>>

(* expires_at < NOW(), which a SELECT can only notice in a row.             *)
Expire(e) ==
  /\ row[e] \in Forgots
  /\ expired' = expired \cup {row[e]}
  /\ UNCHANGED <<password, row, forgot, reset, newest, spent>>

-----------------------------------------------------------------------------------
(* handleResetPassword.                                                    *)

(* Wrong: the row is looked up by its hour only.                           *)
CheckAnyToken(r, f) ==
  /\ reset[r].at = "new"
  /\ forgot[f].at = "mailed"
  /\ \E e \in Emails :
       /\ row[e] \in Forgots \ expired
       /\ reset' = [reset EXCEPT ![r] = [at |-> "hashing", token |-> f, user |-> e]]
  /\ UNCHANGED <<password, row, expired, forgot, newest, spent>>

(* The token of a mail is good if it is still the one in its user's row.    *)
CheckToken(r, f) ==
  /\ reset[r].at = "new"
  /\ forgot[f].at = "mailed"
  /\ \E e \in Emails :
       /\ row[e] = f
       /\ reset' = [reset EXCEPT ![r] = [at |-> "hashing", token |-> f, user |-> e]]
  /\ f \notin expired
  /\ UNCHANGED <<password, row, expired, forgot, newest, spent>>

(* The hash takes a while. The UPDATE of users may fail unnoticed.          *)
SetPassword(r) ==
  /\ reset[r].at = "hashing"
  /\ \/ password' = [password EXCEPT ![reset[r].user] = r]
     \/ UNCHANGED password
  /\ reset' = [reset EXCEPT ![r].at = "set"]
  /\ UNCHANGED <<row, expired, forgot, newest, spent>>

(* Wrong: DELETE ... WHERE user_id.                                        *)
DeleteTokenOfUser(r) ==
  LET e == reset[r].user IN
  /\ reset[r].at = "set"
  /\ row' = [row EXCEPT ![e] = NoToken]
  /\ spent' = spent \cup {reset[r].token}
  /\ reset' = [reset EXCEPT ![r].at = "ok"]
  /\ UNCHANGED <<password, expired, forgot, newest>>

(* DELETE ... WHERE token: another token of the user stays.                 *)
DeleteToken(r) ==
  LET f == reset[r].token IN
  /\ reset[r].at = "set"
  /\ row' = [e \in Emails |-> IF row[e] = f THEN NoToken ELSE row[e]]
  /\ spent' = spent \cup {f}
  /\ reset' = [reset EXCEPT ![r].at = "ok"]
  /\ UNCHANGED <<password, expired, forgot, newest>>

DeleteFails(r) ==
  /\ reset[r].at = "set"
  /\ reset' = [reset EXCEPT ![r].at = "ok"]
  /\ UNCHANGED <<password, row, expired, forgot, newest, spent>>

-----------------------------------------------------------------------------------
NextReset ==
  \/ \E f \in Forgots :
       \/ \E e \in Emails : FindUser(f, e)
       \/ StoreToken(f) \/ StoreFails(f) \/ MailToken(f)
  \/ \E e \in Emails : Expire(e)
  \/ \E r \in Resets :
       \/ \E f \in Forgots : CheckToken(r, f)
       \/ SetPassword(r) \/ DeleteToken(r) \/ DeleteFails(r)

(* Signups, notices, changes of plan and resets together.                   *)
InitAccounts == Init /\ InitResets

NextAccounts ==
  \/ Next /\ UNCHANGED resets
  \/ NextReset /\ UNCHANGED vars

AccountsSpec == InitAccounts /\ [][NextAccounts]_<<vars, resets>>

-----------------------------------------------------------------------------------
(* What makes the resets correct.                                          *)

(* What was stored last for a user is there until a reset has spent it, and *)
(* not any longer, whatever slow resets with older tokens end meanwhile,   *)
(* and whatever statements fail. It need not help the user: an empty token *)
(* replaces a good one, and a mail whose token was never stored may follow *)
(* one that was spent.                                                     *)
NewestTokenStays ==
  \A e \in Emails : row[e] = IF newest[e] \in spent THEN NoToken ELSE newest[e]

(* A user's password was set with a token that was mailed to this user.     *)
PasswordsAreOwn ==
  \A e \in Emails : password[e] # NoReset =>
    \E f \in Forgots : forgot[f] = [at |-> "mailed", user |-> e] /\ reset[password[e]].token = f

(* Resets of one user, and of several, keep out of one another's way.       *)
ResetsStayApart == NewestTokenStays /\ PasswordsAreOwn

===================================================================================
