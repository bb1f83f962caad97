---------------------------- MODULE LoginState -----------------------------
(***************************************************************************)
(* The two cookies of one browser whose windows show the judges' pages,    *)
(* what each window is waiting for, and what a judge may expect of being   *)
(* signed in.  Login has the steps.                                        *)
(*                                                                         *)
(* A cookie is sealed: it is the record in it, and NoCookie if it is       *)
(* missing.  Each of the two is sealed for its own purpose, so neither is  *)
(* ever taken for the other.                                               *)
(***************************************************************************)
EXTENDS Integers

CONSTANTS Windows, Accounts,
          NoCookie,        \* no cookie; of an answer: it clears the cookie
          Keep,            \* of an answer: it says nothing of the cookie
          Nobody,          \* no account
          SessionTtl,      \* SESSION_TTL_MS
          RenewAfter,      \* SESSION_RENEW_AFTER_MS
          IntentTtl,       \* LOGIN_INTENT_TTL_MS
          MaxDelay         \* the longest from a request to its answer

ASSUME LoginTimes == {SessionTtl, RenewAfter, IntentTtl, MaxDelay} \subseteq Nat

\* Requests are answered, or given up, within half the time after which a session is
\* renewed: thirty minutes, where browsers wait for minutes.
ASSUME AnswersAreSoon == 2 * MaxDelay <= RenewAfter /\ RenewAfter <= SessionTtl

Session == [user : Accounts, iat : Nat, exp : Nat]
Intent == [state : Nat, returnTo : Windows, exp : Nat]

ASSUME LoginNames ==
  /\ Nobody \notin Accounts
  /\ NoCookie \notin Session \cup Intent \cup {Keep} /\ Keep \notin Session \cup Intent

VARIABLES
  clock,        \* Date.now() of the server
  session,      \* cookie tca_sess
  intent,       \* cookie tca_login
  window,       \* per window: where it is, and the login it is at the provider for
  exchange,     \* per window: the request it waits for
  who,          \* history: the account that signed in last, Nobody after a sign-out
  mixed,        \* history: another session was under way when who last changed
  lastUse,      \* history: when the server last handled an answered request
  alone         \* history: windows since whose login no other one touched tca_login

\* Signing in makes the browser this judge's, signing out nobody's, and so it
\* stays however requests of other windows, their renewals of the cookie and their
\* answers interleave.  The exception: a request of the previous session that was
\* under way at that moment may still bring its renewed cookie.
BrowserIsWhoSignedIn ==
  ~mixed => IF who = Nobody THEN session = NoCookie
                            ELSE session # NoCookie /\ session.user = who

\* The sliding window of session.ts: a judge who used the pages within the last
\* SessionTtl - RenewAfter (23 hours) is still signed in, although a session is
\* only renewed once it is RenewAfter old and answers overtake each other.
ActiveStaysIn ==
  session # NoCookie /\ clock <= lastUse + SessionTtl - RenewAfter => session.exp >= clock

\* A window whose login no other window disturbed, and that is back in time and
\* authenticated, is signed in; whoever is signed in returns to the page it left
\* (return_to), never to that of another window.
LoginsComplete ==
  \A w \in Windows :
    LET e == exchange[w]
    IN e.stage = "answered" /\ e.route = "callback" =>
         /\ e.status = "ok" => e.intent.returnTo = w
         /\ w \in alone /\ e.account # Nobody /\ e.handled <= window[w].exp => e.status = "ok"
============================================================================
