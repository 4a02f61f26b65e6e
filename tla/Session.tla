------------------------------- MODULE Session -------------------------------
(***************************************************************************)
(* The signed-in session of one browser tab: the token pair kept in        *)
(* localStorage (lib/api.ts), the copy React holds (lib/auth-context.tsx), *)
(* the requests under way, each of which may refresh the access token      *)
(* behind the scenes, the forms that sign in, change the password or       *)
(* delete the account, and the gate that keeps a guest's click until the   *)
(* sign-in it asks for (contexts/AuthGateContext.tsx).                     *)
(*                                                                         *)
(* A request is taken in three steps: it is sent, the server answers, the  *)
(* answer arrives; a refresh adds the same three steps between.  Anything  *)
(* of another request may come between two of them.                        *)
(***************************************************************************)
EXTENDS Integers, FiniteSets

CONSTANTS
    Works,        \* background requests of the pages: votes, bells, lists
    Forms,        \* forms in play
    Clicks,       \* clicks on a button that needs an account
    MaxPassword,  \* bound: passwords the account has had
    MaxEra,       \* bound: times the access tokens have expired
    MaxInFlight   \* bound: requests under way at once

ASSUME SessionBounds ==
    /\ MaxPassword \in Nat \ {0} /\ MaxEra \in Nat /\ MaxInFlight \in Nat
    /\ Forms \subseteq {"modal", "google", "password", "delete", "profile", "verify", "reset"}
    /\ Works \cap {"load", "modal", "google", "password", "delete", "profile",
                   "verify", "reset"} = {}
    /\ "none" \notin Clicks

VARIABLES
    password,       \* server: the account's current password; 0 once deleted
    era,            \* server: access tokens of earlier eras have expired
    storedAccess,   \* localStorage: access token
    storedRefresh,  \* localStorage: refresh token
    token,          \* AuthProvider: tokenRef and the token state
    user,           \* AuthProvider: is there a signed-in user on display
    loading,        \* AuthProvider: the stored session is being checked
    calls,          \* request slot -> request under way
    gate,           \* AuthGateProvider: modal open, click kept for later
    clicked,        \* clicks made so far
    dismissed,      \* clicks given up by closing or replacing the modal's
    ran,            \* clicks whose action ran
    signedIn,       \* history: signed in and not signed out since
    excused,        \* history: the password changed, or a load failed
    continues       \* history: this tab changed the password and goes on

server == <<password, era>>
stored == <<storedAccess, storedRefresh>>
held == <<token, user, loading>>
gated == <<gate, clicked, dismissed, ran>>
history == <<signedIn, excused, continues>>
vars == <<server, stored, held, calls, gated, history>>

\* A token pair names the password it was issued under; an access token also
\* the era it expires with.
NoToken == [pass |-> 0, era |-> 0]
Token == [pass : 0..MaxPassword, era : 0..MaxEra]
Issued == [pass |-> password, era |-> era]

\* get_current_user and the refresh endpoint, as the client meets them
Accepted(t) == t.pass # 0 /\ t.pass = password /\ t.era = era
RefreshAccepted(t) == t.pass # 0 /\ t.pass = password

(***************************************************************************)
(* Requests.  A slot is a form (its button is disabled while its request   *)
(* is under way) or a background request.                                  *)
(***************************************************************************)
SignIns == {"modal", "google"}
Anonymous == SignIns \cup {"verify", "reset"}
Slots == Works \cup Forms \cup {"load"}

\* goal: what the answer is for.  A sign-in goes on with getMe ("me"), a saved
\* profile and a confirmed email with refreshUser ("again").
Goals == Slots \cup {"me", "again"}
Idle == [at |-> "idle", goal |-> "load", token |-> NoToken, grant |-> NoToken,
         reply |-> "none"]
Stages == {"idle", "sent", "answered", "refreshing", "renewed", "resent", "final"}
Replies == {"none", "ok", "failed", "401"}
Call == [at : Stages, goal : Goals, token : Token, grant : Token, reply : Replies]

InFlight == {s \in Slots : calls[s].at # "idle"}
Sending(s, goal, t) ==
    [calls EXCEPT ![s] = [Idle EXCEPT !.at = "sent", !.goal = goal, !.token = t]]
Closed(s) == [calls EXCEPT ![s] = Idle]

TypeOK ==
    /\ password \in 0..MaxPassword /\ era \in 0..MaxEra
    /\ storedAccess \in Token /\ storedRefresh \in Token /\ token \in Token
    /\ user \in BOOLEAN /\ loading \in BOOLEAN
    /\ calls \in [Slots -> Call]
    /\ gate \in [open : BOOLEAN, pending : Clicks \cup {"none"}]
    /\ clicked \subseteq Clicks /\ dismissed \subseteq Clicks /\ ran \subseteq Clicks
    /\ signedIn \in BOOLEAN /\ excused \in BOOLEAN /\ continues \in BOOLEAN

\* A tab opened by a guest, or by somebody whose tokens are still stored.
Init ==
    /\ password = 1 /\ era = 0
    /\ storedAccess \in {NoToken, [pass |-> 1, era |-> 0]}
    /\ storedRefresh = storedAccess
    /\ token = storedAccess
    /\ user = FALSE
    /\ loading = (storedAccess # NoToken)
    /\ calls = [s \in Slots |->
                  IF s = "load" /\ loading
                    THEN [Idle EXCEPT !.at = "sent", !.token = storedAccess]
                    ELSE Idle]
    /\ gate = [open |-> FALSE, pending |-> "none"]
    /\ clicked = {} /\ dismissed = {} /\ ran = {}
    /\ signedIn = (storedAccess # NoToken)
    /\ excused = FALSE /\ continues = FALSE

(***************************************************************************)
(* What the user does.                                                     *)
(***************************************************************************)
\* The page is reloaded: requests and React state are gone, the effect of
\* AuthProvider reads localStorage and checks the stored token.
Reload ==
    /\ token' = storedAccess
    /\ user' = FALSE
    /\ loading' = (storedAccess # NoToken)
    /\ calls' = [s \in Slots |->
                   IF s = "load" /\ storedAccess # NoToken
                     THEN [Idle EXCEPT !.at = "sent", !.token = storedAccess]
                     ELSE Idle]
    /\ gate' = [open |-> FALSE, pending |-> "none"]
    /\ dismissed' = dismissed \cup (clicked \ ran)
    /\ UNCHANGED <<server, stored, clicked, ran, history>>

\* A page sends an authenticated request with the token the context holds.
Send(w) ==
    /\ w \in Works /\ calls[w].at = "idle" /\ token # NoToken
    /\ Cardinality(InFlight) < MaxInFlight
    /\ calls' = Sending(w, w, token)
    /\ UNCHANGED <<server, stored, held, gated, history>>

\* LoginForm in the gate's modal, and the Google button, which has no busy
\* flag of its own: the two may be under way together.
SubmitSignIn(s) ==
    /\ s \in SignIns \cap Forms /\ gate.open /\ calls[s].at = "idle"
    /\ Cardinality(InFlight) < MaxInFlight
    /\ calls' = Sending(s, s, NoToken)
    /\ UNCHANGED <<server, stored, held, gated, history>>

\* ChangePasswordForm, DeleteAccountForm and ProfileEditor send with getToken
\* and are shown to a signed-in user.
SubmitAccountForm(s) ==
    /\ s \in {"password", "delete", "profile"} \cap Forms /\ calls[s].at = "idle"
    /\ token # NoToken /\ user
    /\ Cardinality(InFlight) < MaxInFlight
    /\ calls' = Sending(s, s, token)
    /\ UNCHANGED <<server, stored, held, gated, history>>

\* The pages behind an emailed link: they need the link, not the session.
OpenEmailedLink(s) ==
    /\ s \in {"verify", "reset"} \cap Forms /\ calls[s].at = "idle"
    /\ Cardinality(InFlight) < MaxInFlight
    /\ calls' = Sending(s, s, NoToken)
    /\ UNCHANGED <<server, stored, held, gated, history>>

Forget ==
    /\ storedAccess' = NoToken /\ storedRefresh' = NoToken
    /\ token' = NoToken

\* logout, offered by the menu of a signed-in user.
Logout ==
    /\ token # NoToken /\ user
    /\ Forget /\ user' = FALSE
    /\ signedIn' = FALSE /\ continues' = FALSE
    /\ UNCHANGED <<server, loading, calls, gated, excused>>

\* requireAuth: at once with a session, else kept while the modal is open.
RequireAuth(c) ==
    /\ c \in Clicks \ clicked
    /\ clicked' = clicked \cup {c}
    /\ \/ /\ token # NoToken
          /\ ran' = ran \cup {c}
          /\ UNCHANGED <<gate, dismissed>>
       \/ /\ token = NoToken
          /\ gate' = [open |-> TRUE, pending |-> c]
          /\ dismissed' = dismissed \cup ({gate.pending} \ {"none"})
          /\ UNCHANGED ran
    /\ UNCHANGED <<server, stored, held, calls, history>>

OpenLoginModal ==
    /\ ~gate.open
    /\ gate' = [open |-> TRUE, pending |-> "none"]
    /\ UNCHANGED <<server, stored, held, calls, clicked, dismissed, ran, history>>

\* Mutant: closing hides the modal and keeps the click.
CloseModalKeepsClick ==
    /\ gate.open
    /\ gate' = [gate EXCEPT !.open = FALSE]
    /\ dismissed' = dismissed \cup ({gate.pending} \ {"none"})
    /\ UNCHANGED <<server, stored, held, calls, clicked, ran, history>>

\* Dismissing without success drops the pending action.
CloseModal ==
    /\ gate.open
    /\ gate' = [open |-> FALSE, pending |-> "none"]
    /\ dismissed' = dismissed \cup ({gate.pending} \ {"none"})
    /\ UNCHANGED <<server, stored, held, calls, clicked, ran, history>>

(***************************************************************************)
(* The server.                                                             *)
(***************************************************************************)
TokensExpire ==
    /\ era < MaxEra /\ era' = era + 1
    /\ UNCHANGED <<password, stored, held, calls, gated, history>>

\* The password is changed or reset on another device.
PasswordChangedElsewhere ==
    /\ password \in 1..(MaxPassword - 1) /\ password' = password + 1
    /\ excused' = TRUE /\ continues' = FALSE
    /\ UNCHANGED <<era, stored, held, calls, gated, signedIn>>

Answer(s, at, reply, grant) ==
    calls' = [calls EXCEPT ![s] =
                [@ EXCEPT !.at = at, !.reply = reply, !.grant = grant, !.token = NoToken]]

\* Requests the server carries out or refuses without a change to the account.
ServePlain(s, at) ==
    \E reply \in (IF calls[s].goal \in Anonymous \/ Accepted(calls[s].token)
                    THEN {"ok", "failed"} ELSE {"401", "failed"}) :
      /\ (reply = "ok" => calls[s].goal \notin {"password", "delete", "reset"})
      /\ (calls[s].goal \in SignIns /\ reply = "ok" => password # 0)
      /\ Answer(s, at, reply,
                IF calls[s].goal \in SignIns /\ reply = "ok" THEN Issued ELSE NoToken)
      /\ UNCHANGED <<server, stored, held, gated, history>>

\* A new password: every token issued under the old one is refused from now on.
ServeNewPassword(s, at) ==
    /\ calls[s].goal \in {"password", "reset"}
    /\ (calls[s].goal = "password" => Accepted(calls[s].token))
    /\ password \in 1..(MaxPassword - 1) /\ password' = password + 1
    /\ Answer(s, at, "ok", IF calls[s].goal = "password"
                             THEN [pass |-> password + 1, era |-> era] ELSE NoToken)
    /\ excused' = TRUE /\ continues' = FALSE
    /\ UNCHANGED <<era, stored, held, gated, signedIn>>

ServeDelete(s, at) ==
    /\ calls[s].goal = "delete" /\ Accepted(calls[s].token)
    /\ password' = 0
    /\ Answer(s, at, "ok", NoToken)
    /\ excused' = TRUE /\ continues' = FALSE
    /\ UNCHANGED <<era, stored, held, gated, signedIn>>

Serve(s) ==
    \/ /\ calls[s].at = "sent"
       /\ \/ ServePlain(s, "answered")
          \/ ServeNewPassword(s, "answered")
          \/ ServeDelete(s, "answered")
    \/ /\ calls[s].at = "resent"
       /\ \/ ServePlain(s, "final")
          \/ ServeNewPassword(s, "final")
          \/ ServeDelete(s, "final")

\* POST /auth/refresh: a fresh access token, a refusal, or no answer at all.
ServeRefresh(s) ==
    /\ calls[s].at = "refreshing"
    /\ \E reply \in {IF RefreshAccepted(calls[s].grant) THEN "ok" ELSE "401", "failed"} :
         Answer(s, "renewed", reply, IF reply = "ok" THEN Issued ELSE NoToken)
    /\ UNCHANGED <<server, stored, held, gated, history>>

(***************************************************************************)
(* An answer arrives.                                                      *)
(***************************************************************************)
Arrived(s) == calls[s].at \in {"answered", "final"}

\* A 401 to the first try: refresh with whatever refresh token is stored now.
Retryable(s) ==
    /\ calls[s].at = "answered" /\ calls[s].reply = "401"
    /\ storedRefresh # NoToken

BeginRefresh(s) ==
    /\ Retryable(s)
    /\ calls' = [calls EXCEPT ![s].at = "refreshing", ![s].grant = storedRefresh]
    /\ UNCHANGED <<server, stored, held, gated, history>>

\* Mutant: nobody tells the listeners.
RenewedQuietly(s) ==
    /\ calls[s].at = "renewed" /\ calls[s].reply = "ok"
    /\ storedAccess' = calls[s].grant
    /\ calls' = [calls EXCEPT ![s].at = "resent", ![s].token = calls[s].grant,
                              ![s].grant = NoToken, ![s].reply = "none"]
    /\ UNCHANGED <<server, storedRefresh, held, gated, history>>

\* The new access token is stored, the listeners hear of it, and the request
\* is sent again with it, once.
Renewed(s) ==
    /\ calls[s].at = "renewed" /\ calls[s].reply = "ok"
    /\ storedAccess' = calls[s].grant
    /\ token' = calls[s].grant
    /\ calls' = [calls EXCEPT ![s].at = "resent", ![s].token = calls[s].grant,
                              ![s].grant = NoToken, ![s].reply = "none"]
    /\ UNCHANGED <<server, storedRefresh, user, loading, gated, history>>

\* The refresh token was refused: the session is over, here too.
SessionEnded(s) ==
    /\ calls[s].at = "renewed" /\ calls[s].reply = "401"
    /\ Forget /\ user' = FALSE
    /\ calls' = [calls EXCEPT ![s].at = "final", ![s].reply = "failed"]
    /\ UNCHANGED <<server, loading, gated, history>>

\* Mutant: any failure of the refresh ends the session.
RefreshFailedEndsSession(s) ==
    /\ calls[s].at = "renewed" /\ calls[s].reply = "failed"
    /\ Forget /\ user' = FALSE
    /\ calls' = [calls EXCEPT ![s].at = "final"]
    /\ UNCHANGED <<server, loading, gated, history>>

\* The refresh failed for another reason: the first answer stands.
RefreshFailed(s) ==
    /\ calls[s].at = "renewed" /\ calls[s].reply = "failed"
    /\ calls' = [calls EXCEPT ![s].at = "final", ![s].reply = "failed"]
    /\ UNCHANGED <<server, stored, held, gated, history>>

\* Mutant: loading is cleared on success only.
LoadFailedKeepsLoading ==
    /\ Arrived("load") /\ calls["load"].reply # "ok" /\ ~Retryable("load")
    /\ Forget
    /\ calls' = Closed("load")
    /\ excused' = TRUE /\ continues' = FALSE
    /\ UNCHANGED <<server, user, loading, gated, signedIn>>

\* The check of the stored session failed, whatever the reason.
LoadFailed ==
    /\ Arrived("load") /\ calls["load"].reply # "ok" /\ ~Retryable("load")
    /\ Forget /\ loading' = FALSE
    /\ calls' = Closed("load")
    /\ excused' = TRUE /\ continues' = FALSE
    /\ UNCHANGED <<server, user, gated, signedIn>>

\* Any other request that fails shows a message and changes nothing; a sign-in
\* whose getMe fails keeps the tokens it stored.
Failed(s) ==
    /\ s # "load"
    /\ Arrived(s) /\ calls[s].reply # "ok" /\ ~Retryable(s)
    /\ calls' = Closed(s)
    /\ UNCHANGED <<server, stored, held, gated, history>>

Succeeded(s, goals) == Arrived(s) /\ calls[s].reply = "ok" /\ calls[s].goal \in goals

LoadSucceeded ==
    /\ Succeeded("load", {"load"})
    /\ user' = TRUE /\ loading' = FALSE
    /\ calls' = Closed("load")
    /\ UNCHANGED <<server, stored, token, gated, history>>

Adopt(pair) ==
    /\ storedAccess' = pair /\ storedRefresh' = pair
    /\ token' = pair

\* login and loginGoogle: adopt the pair, then read the user with it.
SignedIn(s) ==
    /\ Succeeded(s, SignIns)
    /\ Adopt(calls[s].grant)
    /\ calls' = Sending(s, "me", calls[s].grant)
    /\ signedIn' = TRUE /\ excused' = (password # 1)
    /\ continues' = FALSE
    /\ UNCHANGED <<server, user, loading, gated>>

\* The user is read: LoginForm's onSuccess runs the click the gate holds now.
SignInDone(s) ==
    /\ Succeeded(s, {"me"})
    /\ user' = TRUE
    /\ calls' = Closed(s)
    /\ ran' = ran \cup ({gate.pending} \ {"none"})
    /\ gate' = [open |-> FALSE, pending |-> "none"]
    /\ UNCHANGED <<server, stored, token, loading, clicked, dismissed, history>>

\* ChangePasswordForm: this device continues on the new pair.
PasswordChanged ==
    /\ Succeeded("password", {"password"})
    /\ Adopt(calls["password"].grant)
    /\ calls' = Closed("password")
    /\ signedIn' = TRUE
    /\ continues' = (calls["password"].grant.pass = password)
    /\ UNCHANGED <<server, user, loading, gated, excused>>

AccountDeleted ==
    /\ Succeeded("delete", {"delete"})
    /\ Forget /\ user' = FALSE
    /\ calls' = Closed("delete")
    /\ signedIn' = FALSE /\ continues' = FALSE
    /\ UNCHANGED <<server, loading, gated, excused>>

\* A saved profile and a confirmed email end in refreshUser, if signed in.
ReadUserAgain(s) ==
    /\ Succeeded(s, {"profile", "verify"})
    /\ calls' = IF token # NoToken THEN Sending(s, "again", token) ELSE Closed(s)
    /\ UNCHANGED <<server, stored, held, gated, history>>

UserRefreshed(s) ==
    /\ Succeeded(s, {"again"})
    /\ user' = TRUE
    /\ calls' = Closed(s)
    /\ UNCHANGED <<server, stored, token, loading, gated, history>>

PlainSuccess(s) ==
    /\ Succeeded(s, Works \cup {"reset"})
    /\ calls' = Closed(s)
    /\ UNCHANGED <<server, stored, held, gated, history>>

(***************************************************************************)
(* Specification.                                                          *)
(***************************************************************************)
UserActs ==
    \/ Reload \/ Logout \/ OpenLoginModal \/ CloseModal
    \/ \E s \in Slots : Send(s) \/ SubmitSignIn(s) \/ SubmitAccountForm(s)
                          \/ OpenEmailedLink(s)
    \/ \E c \in Clicks : RequireAuth(c)

Arrives(s) ==
    \/ BeginRefresh(s) \/ Renewed(s) \/ SessionEnded(s) \/ RefreshFailed(s)
    \/ (s = "load" /\ (LoadFailed \/ LoadSucceeded))
    \/ Failed(s) \/ SignedIn(s) \/ SignInDone(s)
    \/ (s = "password" /\ PasswordChanged)
    \/ (s = "delete" /\ AccountDeleted)
    \/ ReadUserAgain(s) \/ UserRefreshed(s) \/ PlainSuccess(s)

Progress(s) == Serve(s) \/ ServeRefresh(s) \/ Arrives(s)

Next ==
    \/ UserActs
    \/ TokensExpire \/ PasswordChangedElsewhere
    \/ \E s \in Slots : Progress(s)

\* A request is answered, if only by a failed connection, and the browser hands
\* the answer to its page.  Only of the stored session's check is that needed.
Fairness == WF_vars(Progress("load"))
Spec == Init /\ [][Next]_vars /\ Fairness

(***************************************************************************)
(* Properties.                                                             *)
(***************************************************************************)
\* The token React acts with is the one localStorage holds, however refreshes,
\* sign-ins and sign-outs interleave (lib/api.ts onAccessTokenRefreshed).
HeldIsStored == token = storedAccess

\* Expiry alone never signs anybody out: while the account keeps its password
\* and no check of a stored session failed, a signed-in tab keeps a token, with
\* any number of requests refreshing it side by side, answered or not.
ExpiryNeverSignsOut == signedIn /\ ~excused => token # NoToken /\ storedRefresh # NoToken

\* A click given up by closing the gate's modal never runs, even when a sign-in
\* started from that modal succeeds afterwards.
DismissedClicksNeverRun == ran \cap dismissed = {}

\* A tab that changed the password stays signed in until somebody changes it
\* again, signs out or a load fails.
ThisDeviceContinues == continues => token # NoToken

\* The loading screen of a reloaded page ends, unless the page is reloaded for
\* ever (AuthProvider's finally).
LoadingEnds == <>[][~Reload]_vars => (loading ~> ~loading)
==============================================================================
