---------------------------- MODULE SessionProofs ----------------------------
(***************************************************************************)
(* Session: React and localStorage hold the same token, the gate never     *)
(* runs a click it was told to forget, and expiry alone signs nobody out,  *)
(* for any number of requests, forms and clicks; and all of it keeps its   *)
(* shape.                                                                  *)
(***************************************************************************)
EXTENDS Session, TLAPS

\* The steps of a request that are an answer's arrival in the page
LEMMA ArrivalIsOne ==
  ASSUME NEW s \in Slots, Progress(s)
  PROVE  \/ Serve(s) \/ ServeRefresh(s)
         \/ BeginRefresh(s) \/ Renewed(s) \/ SessionEnded(s) \/ RefreshFailed(s)
         \/ (s = "load" /\ (LoadFailed \/ LoadSucceeded))
         \/ Failed(s) \/ SignedIn(s) \/ SignInDone(s)
         \/ (s = "password" /\ PasswordChanged) \/ (s = "delete" /\ AccountDeleted)
         \/ ReadUserAgain(s) \/ UserRefreshed(s) \/ PlainSuccess(s)
  BY DEF Progress, Arrives

(***************************************************************************)
(* One token.                                                              *)
(***************************************************************************)
\* No step writes one copy of the token and not the other
LEMMA TokenStep ==
  ASSUME HeldIsStored, [Next]_vars
  PROVE  HeldIsStored'
<1> USE DEF HeldIsStored
<1>1. CASE UserActs
  BY <1>1 DEF UserActs, Reload, Logout, OpenLoginModal, CloseModal, Send, SubmitSignIn,
              SubmitAccountForm, OpenEmailedLink, RequireAuth, Forget, stored, held
<1>2. CASE TokensExpire \/ PasswordChangedElsewhere
  BY <1>2 DEF TokensExpire, PasswordChangedElsewhere, stored, held
<1>3. ASSUME NEW s \in Slots, Progress(s)
      PROVE  HeldIsStored'
  <2>1. CASE Serve(s) \/ ServeRefresh(s)
    BY <2>1 DEF Serve, ServePlain, ServeNewPassword, ServeDelete, ServeRefresh, stored, held
  <2>2. CASE BeginRefresh(s) \/ Renewed(s) \/ SessionEnded(s) \/ RefreshFailed(s)
    BY <2>2 DEF BeginRefresh, Renewed, SessionEnded, RefreshFailed, Forget, stored, held
  <2>3. CASE LoadFailed \/ LoadSucceeded \/ Failed(s)
    BY <2>3 DEF LoadFailed, LoadSucceeded, Failed, Forget, stored, held
  <2>4. CASE SignedIn(s) \/ SignInDone(s) \/ PasswordChanged \/ AccountDeleted
    BY <2>4 DEF SignedIn, SignInDone, PasswordChanged, AccountDeleted, Adopt, Forget, stored
  <2>5. CASE ReadUserAgain(s) \/ UserRefreshed(s) \/ PlainSuccess(s)
    BY <2>5 DEF ReadUserAgain, UserRefreshed, PlainSuccess, stored, held
  <2> QED
    BY <1>3, <2>1, <2>2, <2>3, <2>4, <2>5, ArrivalIsOne
<1>4. CASE UNCHANGED vars
  BY <1>4 DEF vars, stored, held
<1> QED
  BY <1>1, <1>2, <1>3, <1>4 DEF Next

\* React acts with the stored token, whatever refreshes, sign-ins and sign-outs
\* are under way (lib/api.ts onAccessTokenRefreshed, lib/auth-context.tsx)
THEOREM HeldIsAlwaysStored == Spec => []HeldIsStored
<1>1. Init => HeldIsStored
  BY DEF Init, HeldIsStored
<1> QED
  BY <1>1, TokenStep, PTL DEF Spec

(***************************************************************************)
(* The gate.                                                               *)
(***************************************************************************)
\* The gate keeps a click that was made and neither dismissed nor run yet
GateOK ==
  /\ "none" \notin clicked
  /\ ran \subseteq clicked /\ dismissed \subseteq clicked
  /\ gate.pending \in clicked \cup {"none"}
  /\ gate.pending \notin ran \cup dismissed
  /\ DismissedClicksNeverRun

\* A step that leaves the gate alone keeps all of it
LEMMA GateKept ==
  ASSUME GateOK, UNCHANGED gated
  PROVE  GateOK'
  BY DEF GateOK, DismissedClicksNeverRun, gated

LEMMA GateStep ==
  ASSUME GateOK, [Next]_vars
  PROVE  GateOK'
<1>1. CASE UserActs
  <2>1. CASE Reload
    BY <2>1 DEF Reload, GateOK, DismissedClicksNeverRun
  <2>2. CASE OpenLoginModal
    BY <2>2 DEF OpenLoginModal, GateOK, DismissedClicksNeverRun
  <2>3. CASE CloseModal
    BY <2>3 DEF CloseModal, GateOK, DismissedClicksNeverRun
  <2>4. ASSUME NEW c \in Clicks, RequireAuth(c)
        PROVE  GateOK'
    BY <2>4, SessionBounds DEF RequireAuth, GateOK, DismissedClicksNeverRun
  <2>5. CASE Logout \/ \E s \in Slots : Send(s) \/ SubmitSignIn(s) \/ SubmitAccountForm(s)
                                           \/ OpenEmailedLink(s)
    BY <2>5, GateKept DEF Logout, Send, SubmitSignIn, SubmitAccountForm, OpenEmailedLink
  <2> QED
    BY <1>1, <2>1, <2>2, <2>3, <2>4, <2>5 DEF UserActs
<1>2. CASE TokensExpire \/ PasswordChangedElsewhere
  BY <1>2, GateKept DEF TokensExpire, PasswordChangedElsewhere
<1>3. ASSUME NEW s \in Slots, Progress(s)
      PROVE  GateOK'
  <2>1. CASE SignInDone(s)
    BY <2>1 DEF SignInDone, GateOK, DismissedClicksNeverRun
  <2>2. CASE Serve(s) \/ ServeRefresh(s)
    BY <2>2, GateKept DEF Serve, ServePlain, ServeNewPassword, ServeDelete, ServeRefresh
  <2>3. CASE BeginRefresh(s) \/ Renewed(s) \/ SessionEnded(s) \/ RefreshFailed(s)
             \/ LoadFailed \/ LoadSucceeded \/ Failed(s)
    BY <2>3, GateKept DEF BeginRefresh, Renewed, SessionEnded, RefreshFailed, LoadFailed,
                          LoadSucceeded, Failed
  <2>4. CASE SignedIn(s) \/ PasswordChanged \/ AccountDeleted \/ ReadUserAgain(s)
             \/ UserRefreshed(s) \/ PlainSuccess(s)
    BY <2>4, GateKept DEF SignedIn, PasswordChanged, AccountDeleted, ReadUserAgain,
                          UserRefreshed, PlainSuccess
  <2> QED
    BY <1>3, <2>1, <2>2, <2>3, <2>4, ArrivalIsOne
<1>4. CASE UNCHANGED vars
  BY <1>4, GateKept DEF vars
<1> QED
  BY <1>1, <1>2, <1>3, <1>4 DEF Next

\* A click given up by closing the gate's modal, or by a reload, never runs,
\* though a sign-in begun before it succeeds later (contexts/AuthGateContext.tsx)
THEOREM DismissedClicksStayDismissed == Spec => []DismissedClicksNeverRun
<1>1. Init => GateOK
  BY DEF Init, GateOK, DismissedClicksNeverRun
<1>2. GateOK => DismissedClicksNeverRun
  BY DEF GateOK
<1> QED
  BY <1>1, <1>2, GateStep, PTL DEF Spec

(***************************************************************************)
(* Expiry.  While the account keeps its first password every token issued  *)
(* names it, so no refresh token is ever refused.                          *)
(***************************************************************************)
\* A request is a record of these fields, whatever their values
Fields == {"at", "goal", "token", "grant", "reply"}
IsCall(c) == c = [f \in Fields |-> c[f]]

\* What a request carries under the first password
FirstPassword(c) ==
  /\ c.at = "refreshing" => c.grant.pass = 1
  /\ c.at = "renewed" => c.reply # "401"
  /\ c.at = "renewed" /\ c.reply = "ok" => c.grant.pass = 1
  /\ c.at \in {"answered", "final"} /\ c.reply = "ok" =>
       /\ c.goal \in SignIns => c.grant.pass = 1
       /\ c.goal # "password"

CallsShape == calls = [s \in Slots |-> calls[s]] /\ \A s \in Slots : IsCall(calls[s])
FirstPasswordOnly ==
  password = 1 => /\ storedRefresh # NoToken => storedRefresh.pass = 1
                  /\ \A s \in Slots : FirstPassword(calls[s])

SessionOK ==
  /\ CallsShape
  /\ password \in Nat
  /\ ~excused => password = 1
  /\ FirstPasswordOnly
  /\ signedIn /\ ~excused => storedAccess # NoToken /\ storedRefresh # NoToken

\* One request replaced by one that is in order
LEMMA OneCall ==
  ASSUME CallsShape, NEW s \in Slots, NEW c, IsCall(c), calls' = [calls EXCEPT ![s] = c]
  PROVE  /\ CallsShape'
         /\ calls'[s] = c
         /\ \A r \in Slots : r # s => calls'[r] = calls[r]
<1>1. /\ calls'[s] = c
      /\ \A r \in Slots : r # s => calls'[r] = calls[r]
      /\ calls' = [r \in Slots |-> calls'[r]]
  BY DEF CallsShape
<1>2. \A r \in Slots : IsCall(calls'[r])
  BY <1>1 DEF CallsShape
<1> QED
  BY <1>1, <1>2 DEF CallsShape

LEMMA ReplacedShape ==
  ASSUME SessionOK, NEW s \in Slots, NEW c, IsCall(c), FirstPassword(c),
         calls' = [calls EXCEPT ![s] = c]
  PROVE  CallsShape' /\ (password = 1 => \A r \in Slots : FirstPassword(calls'[r]))
<1>1. CallsShape' /\ calls'[s] = c /\ \A r \in Slots : r # s => calls'[r] = calls[r]
  BY OneCall DEF SessionOK
<1> QED
  BY <1>1 DEF SessionOK, FirstPasswordOnly

\* ... and the account and its tokens left alone
LEMMA OnlyTheCall ==
  ASSUME SessionOK, NEW s \in Slots, NEW c, IsCall(c), calls' = [calls EXCEPT ![s] = c],
         password = 1 => FirstPassword(c),
         password' = password, excused' = excused, signedIn' = signedIn,
         storedRefresh' = storedRefresh,
         storedAccess # NoToken => storedAccess' # NoToken
  PROVE  SessionOK'
<1>1. CallsShape' /\ calls'[s] = c /\ \A r \in Slots : r # s => calls'[r] = calls[r]
  BY OneCall DEF SessionOK
<1>2. FirstPasswordOnly'
  BY <1>1 DEF SessionOK, FirstPasswordOnly
<1> QED
  BY <1>1, <1>2 DEF SessionOK

\* A new or finished request carries nothing
LEMMA FreshCalls ==
  /\ IsCall(Idle) /\ FirstPassword(Idle)
  /\ \A g, k : LET c == [Idle EXCEPT !.at = "sent", !.goal = g, !.token = k]
              IN  IsCall(c) /\ FirstPassword(c)
<1>1. IsCall(Idle) /\ Idle.at = "idle"
  BY DEF IsCall, Idle, Fields
<1>2. FirstPassword(Idle)
  BY <1>1 DEF FirstPassword
<1>3. ASSUME NEW g, NEW k, NEW c, c = [Idle EXCEPT !.at = "sent", !.goal = g, !.token = k]
      PROVE  IsCall(c) /\ FirstPassword(c)
  <2>1. IsCall(c) /\ c.at = "sent"
    BY <1>1, <1>3 DEF IsCall, Fields
  <2> QED
    BY <2>1 DEF FirstPassword
<1> QED
  BY <1>1, <1>2, <1>3

LEMMA SentOrClosed ==
  ASSUME SessionOK, NEW s \in Slots, NEW g, NEW k,
         calls' = Sending(s, g, k) \/ calls' = Closed(s),
         password' = password, excused' = excused, signedIn' = signedIn,
         storedRefresh' = storedRefresh, storedAccess' = storedAccess
  PROVE  SessionOK'
<1> DEFINE sent == [Idle EXCEPT !.at = "sent", !.goal = g, !.token = k]
<1>1. IsCall(sent) /\ FirstPassword(sent) /\ IsCall(Idle) /\ FirstPassword(Idle)
  BY FreshCalls
<1>2. CASE calls' = [calls EXCEPT ![s] = sent]
  <2> HIDE DEF sent
  <2> QED
    BY <1>1, <1>2, OnlyTheCall
<1>3. CASE calls' = Closed(s)
  BY <1>1, <1>3, OnlyTheCall DEF Closed
<1> QED
  BY <1>2, <1>3 DEF Sending

LEMMA AnswerShape ==
  ASSUME CallsShape, NEW s \in Slots, NEW at, NEW reply, NEW g, Answer(s, at, reply, g)
  PROVE  CallsShape'
<1> DEFINE c == [calls[s] EXCEPT !.at = at, !.reply = reply, !.grant = g, !.token = NoToken]
<1>1. calls' = [calls EXCEPT ![s] = c]
  BY DEF Answer
<1>2. IsCall(c)
  BY DEF CallsShape, IsCall, Fields
<1> HIDE DEF c
<1> QED
  BY <1>1, <1>2, OneCall

\* The server's answer, with what it grants
LEMMA AnswerStep ==
  ASSUME SessionOK, NEW s \in Slots, Serve(s) \/ ServeRefresh(s)
  PROVE  SessionOK'
<1>1. IsCall(calls[s]) /\ CallsShape /\ password \in Nat
  BY DEF SessionOK, CallsShape
<1>2. ASSUME NEW at \in {"answered", "final"}, ServePlain(s, at)
      PROVE  SessionOK'
  <2>1. PICK reply \in {"ok", "failed", "401"} :
          /\ (reply = "ok" => calls[s].goal # "password")
          /\ Answer(s, at, reply,
                    IF calls[s].goal \in SignIns /\ reply = "ok" THEN Issued ELSE NoToken)
    BY <1>2 DEF ServePlain
  <2> DEFINE grant == IF calls[s].goal \in SignIns /\ reply = "ok" THEN Issued ELSE NoToken
             c == [calls[s] EXCEPT !.at = at, !.reply = reply, !.grant = grant,
                                   !.token = NoToken]
  <2>2. calls' = [calls EXCEPT ![s] = c]
    BY <2>1 DEF Answer
  <2>3. IsCall(c) /\ c.at = at /\ c.goal = calls[s].goal /\ c.grant = grant /\ c.reply = reply
    BY <1>1 DEF IsCall, Fields
  <2>4. password = 1 => FirstPassword(c)
    BY <2>1, <2>3 DEF FirstPassword, Issued
  <2>5. UNCHANGED <<password, excused, signedIn, storedRefresh, storedAccess>>
    BY <1>2 DEF ServePlain, server, stored, history
  <2> HIDE DEF c
  <2> QED
    BY <2>2, <2>3, <2>4, <2>5, OnlyTheCall
<1>3. ASSUME NEW at \in {"answered", "final"}, ServeNewPassword(s, at) \/ ServeDelete(s, at)
      PROVE  SessionOK'
  <2>1. /\ password' \in Nat /\ password' # 1 /\ excused' /\ UNCHANGED stored
    BY <1>1, <1>3 DEF ServeNewPassword, ServeDelete
  <2>2. CallsShape'
    BY <1>1, <1>3, AnswerShape DEF ServeNewPassword, ServeDelete
  <2> QED
    BY <2>1, <2>2 DEF SessionOK, FirstPasswordOnly
<1>4. CASE ServeRefresh(s)
  <2>1. PICK reply \in {IF RefreshAccepted(calls[s].grant) THEN "ok" ELSE "401", "failed"} :
          Answer(s, "renewed", reply, IF reply = "ok" THEN Issued ELSE NoToken)
    BY <1>4 DEF ServeRefresh
  <2> DEFINE grant == IF reply = "ok" THEN Issued ELSE NoToken
             c == [calls[s] EXCEPT !.at = "renewed", !.reply = reply, !.grant = grant,
                                   !.token = NoToken]
  <2>2. calls' = [calls EXCEPT ![s] = c]
    BY <2>1 DEF Answer
  <2>3. IsCall(c) /\ c.at = "renewed" /\ c.grant = grant /\ c.reply = reply
    BY <1>1 DEF IsCall, Fields
  <2>4. password = 1 => RefreshAccepted(calls[s].grant)
    BY <1>4 DEF ServeRefresh, RefreshAccepted, SessionOK, FirstPasswordOnly, FirstPassword
  <2>5. password = 1 => FirstPassword(c)
    BY <2>1, <2>3, <2>4 DEF FirstPassword, Issued
  <2>6. UNCHANGED <<password, excused, signedIn, storedRefresh, storedAccess>>
    BY <1>4 DEF ServeRefresh, server, stored, history
  <2> HIDE DEF c
  <2> QED
    BY <2>2, <2>3, <2>5, <2>6, OnlyTheCall
<1> QED
  BY <1>2, <1>3, <1>4 DEF Serve

\* The refresh of a request: begun, granted, refused or failed
LEMMA RefreshStep ==
  ASSUME SessionOK, HeldIsStored, NEW s \in Slots,
         BeginRefresh(s) \/ Renewed(s) \/ SessionEnded(s) \/ RefreshFailed(s)
  PROVE  SessionOK'
<1>1. IsCall(calls[s]) /\ (password = 1 => FirstPassword(calls[s]))
  BY DEF SessionOK, CallsShape, FirstPasswordOnly
<1>2. CASE BeginRefresh(s)
  <2> DEFINE c == [calls[s] EXCEPT !.at = "refreshing", !.grant = storedRefresh]
  <2>1. calls' = [calls EXCEPT ![s] = c]
    BY <1>2 DEF BeginRefresh, SessionOK, CallsShape
  <2>2. IsCall(c) /\ c.at = "refreshing" /\ c.grant = storedRefresh
    BY <1>1 DEF IsCall, Fields
  <2>3. password = 1 => FirstPassword(c)
    BY <1>2, <2>2 DEF BeginRefresh, Retryable, FirstPassword, SessionOK, FirstPasswordOnly
  <2>4. UNCHANGED <<password, excused, signedIn, storedRefresh, storedAccess>>
    BY <1>2 DEF BeginRefresh, server, stored, history
  <2> HIDE DEF c
  <2> QED
    BY <2>1, <2>2, <2>3, <2>4, OnlyTheCall
<1>3. CASE Renewed(s)
  <2> DEFINE c == [calls[s] EXCEPT !.at = "resent", !.token = calls[s].grant,
                                   !.grant = NoToken, !.reply = "none"]
  <2>1. calls' = [calls EXCEPT ![s] = c]
    BY <1>3 DEF Renewed, SessionOK, CallsShape
  <2>2. IsCall(c) /\ c.at = "resent"
    BY <1>1 DEF IsCall, Fields
  <2>3. FirstPassword(c)
    BY <2>2 DEF FirstPassword
  <2>4. UNCHANGED <<password, excused, signedIn, storedRefresh>>
    BY <1>3 DEF Renewed, server, history
  <2>5. CASE password = 1
    <3>1. storedAccess' # NoToken
      BY <1>1, <1>3, <2>5 DEF Renewed, FirstPassword, NoToken
    <3> HIDE DEF c
    <3> QED
      BY <2>1, <2>2, <2>3, <2>4, <3>1, OnlyTheCall
  <2>6. CASE password # 1
    <3> HIDE DEF c
    <3>1. CallsShape'
      BY <2>1, <2>2, OneCall DEF SessionOK
    <3> QED
      BY <2>4, <2>6, <3>1 DEF SessionOK, FirstPasswordOnly
  <2> QED
    BY <2>5, <2>6
<1>4. CASE SessionEnded(s)
  <2> DEFINE c == [calls[s] EXCEPT !.at = "final", !.reply = "failed"]
  <2>1. password # 1
    BY <1>1, <1>4 DEF SessionEnded, FirstPassword
  <2>2. calls' = [calls EXCEPT ![s] = c]
    BY <1>4 DEF SessionEnded, SessionOK, CallsShape
  <2>3. IsCall(c)
    BY <1>1 DEF IsCall, Fields
  <2>4. UNCHANGED <<password, excused>>
    BY <1>4 DEF SessionEnded, server, history
  <2> HIDE DEF c
  <2>5. CallsShape'
    BY <2>2, <2>3, OneCall DEF SessionOK
  <2> QED
    BY <2>1, <2>4, <2>5 DEF SessionOK, FirstPasswordOnly
<1>5. CASE RefreshFailed(s)
  <2> DEFINE c == [calls[s] EXCEPT !.at = "final", !.reply = "failed"]
  <2>1. calls' = [calls EXCEPT ![s] = c]
    BY <1>5 DEF RefreshFailed, SessionOK, CallsShape
  <2>2. IsCall(c) /\ c.at = "final" /\ c.reply = "failed"
    BY <1>1 DEF IsCall, Fields
  <2>3. FirstPassword(c)
    BY <2>2 DEF FirstPassword
  <2>4. UNCHANGED <<password, excused, signedIn, storedRefresh, storedAccess>>
    BY <1>5 DEF RefreshFailed, server, stored, history
  <2> HIDE DEF c
  <2> QED
    BY <2>1, <2>2, <2>3, <2>4, OnlyTheCall
<1> QED
  BY <1>2, <1>3, <1>4, <1>5

\* The answers a page acts on
LEMMA ResultStep ==
  ASSUME SessionOK, NEW s \in Slots,
         \/ (s = "load" /\ (LoadFailed \/ LoadSucceeded))
         \/ Failed(s) \/ SignedIn(s) \/ SignInDone(s)
         \/ (s = "password" /\ PasswordChanged) \/ (s = "delete" /\ AccountDeleted)
         \/ ReadUserAgain(s) \/ UserRefreshed(s) \/ PlainSuccess(s)
  PROVE  SessionOK'
<1>1. CASE s = "load" /\ LoadSucceeded
  BY <1>1, SentOrClosed DEF LoadSucceeded, server, stored, history
<1>2. CASE Failed(s) \/ SignInDone(s) \/ ReadUserAgain(s) \/ UserRefreshed(s) \/ PlainSuccess(s)
  <2>1. \/ calls' = Closed(s)
        \/ calls' = Sending(s, "again", token)
    BY <1>2 DEF Failed, SignInDone, ReadUserAgain, UserRefreshed, PlainSuccess
  <2>2. UNCHANGED <<server, stored, history>>
    BY <1>2 DEF Failed, SignInDone, ReadUserAgain, UserRefreshed, PlainSuccess
  <2> QED
    BY <2>1, <2>2, SentOrClosed DEF server, stored, history
<1>3. CASE (s = "load" /\ LoadFailed) \/ (s = "delete" /\ AccountDeleted)
  <2>1. calls' = Closed(s)
    BY <1>3 DEF LoadFailed, AccountDeleted
  <2>2. CallsShape' /\ (password = 1 => \A q \in Slots : FirstPassword(calls'[q]))
    BY <2>1, ReplacedShape, FreshCalls DEF Closed
  <2>3. /\ password' = password /\ storedRefresh' = NoToken
        /\ excused' \/ (excused' = excused /\ ~signedIn')
    BY <1>3 DEF LoadFailed, AccountDeleted, Forget, server
  <2> QED
    BY <2>2, <2>3 DEF SessionOK, FirstPasswordOnly
<1>4. CASE SignedIn(s)
  <2>1. calls' = Sending(s, "me", calls[s].grant)
    BY <1>4 DEF SignedIn
  <2>2. CallsShape' /\ (password = 1 => \A q \in Slots : FirstPassword(calls'[q]))
    BY <2>1, ReplacedShape, FreshCalls DEF Sending
  <2>3. /\ password' = password /\ (~excused' => password = 1)
        /\ storedAccess' = calls[s].grant /\ storedRefresh' = calls[s].grant
    BY <1>4 DEF SignedIn, Adopt, server
  <2>4. password = 1 => calls[s].grant.pass = 1
    BY <1>4 DEF SignedIn, Succeeded, Arrived, SessionOK, FirstPasswordOnly, FirstPassword
  <2>5. password = 1 => calls[s].grant # NoToken
    BY <2>4 DEF NoToken
  <2> QED
    BY <2>2, <2>3, <2>4, <2>5 DEF SessionOK, FirstPasswordOnly
<1>5. CASE s = "password" /\ PasswordChanged
  <2>1. password # 1
    BY <1>5 DEF PasswordChanged, Succeeded, Arrived, SessionOK, FirstPasswordOnly, FirstPassword
  <2>2. CallsShape'
    BY <1>5, ReplacedShape, FreshCalls DEF PasswordChanged, Closed
  <2>3. UNCHANGED <<password, excused>>
    BY <1>5 DEF PasswordChanged, server
  <2> QED
    BY <2>1, <2>2, <2>3 DEF SessionOK, FirstPasswordOnly
<1> QED
  BY <1>1, <1>2, <1>3, <1>4, <1>5

\* What the user does, and what happens to the account elsewhere
LEMMA UserStep ==
  ASSUME SessionOK, UserActs \/ TokensExpire \/ PasswordChangedElsewhere \/ UNCHANGED vars
  PROVE  SessionOK'
<1>1. CASE Reload
  <2> DEFINE sent == [Idle EXCEPT !.at = "sent", !.token = storedAccess]
  <2>1. IsCall(Idle) /\ FirstPassword(Idle) /\ IsCall(sent) /\ sent.at = "sent"
    <3>1. IsCall(Idle) /\ FirstPassword(Idle)
      BY FreshCalls
    <3> QED
      BY <3>1 DEF IsCall, Fields
  <2>2. FirstPassword(sent)
    BY <2>1 DEF FirstPassword
  <2>3. calls' = [q \in Slots |-> IF q = "load" /\ storedAccess # NoToken THEN sent ELSE Idle]
    BY <1>1 DEF Reload
  <2> HIDE DEF sent
  <2>4. CallsShape' /\ \A q \in Slots : FirstPassword(calls'[q])
    BY <2>1, <2>2, <2>3 DEF CallsShape
  <2>5. UNCHANGED <<server, stored, history>>
    BY <1>1 DEF Reload
  <2> QED
    BY <2>4, <2>5 DEF SessionOK, FirstPasswordOnly, server, stored, history
<1>2. ASSUME NEW s \in Slots,
             Send(s) \/ SubmitSignIn(s) \/ SubmitAccountForm(s) \/ OpenEmailedLink(s)
      PROVE  SessionOK'
  <2>1. \/ calls' = Sending(s, s, token)
        \/ calls' = Sending(s, s, NoToken)
    BY <1>2 DEF Send, SubmitSignIn, SubmitAccountForm, OpenEmailedLink
  <2>2. UNCHANGED <<server, stored, history>>
    BY <1>2 DEF Send, SubmitSignIn, SubmitAccountForm, OpenEmailedLink
  <2> QED
    BY <2>1, <2>2, SentOrClosed DEF server, stored, history
<1>3. CASE Logout
  BY <1>3 DEF Logout, Forget, server, SessionOK, FirstPasswordOnly, CallsShape
<1>4. ASSUME UNCHANGED <<password, stored, calls, history>>
      PROVE  SessionOK'
  BY <1>4 DEF stored, history, SessionOK, FirstPasswordOnly, CallsShape
<1>5. CASE \/ OpenLoginModal \/ CloseModal \/ \E c \in Clicks : RequireAuth(c)
           \/ TokensExpire \/ UNCHANGED vars
  BY <1>4, <1>5 DEF OpenLoginModal, CloseModal, RequireAuth, TokensExpire, vars, server
<1>6. CASE PasswordChangedElsewhere
  <2>1. password' \in Nat /\ password' # 1 /\ excused' /\ UNCHANGED <<stored, calls>>
    BY <1>6 DEF PasswordChangedElsewhere, SessionOK
  <2> QED
    BY <2>1 DEF SessionOK, FirstPasswordOnly, CallsShape, stored
<1> QED
  BY <1>1, <1>2, <1>3, <1>5, <1>6 DEF UserActs

LEMMA SessionStep ==
  ASSUME SessionOK, HeldIsStored, [Next]_vars
  PROVE  SessionOK'
<1>1. CASE UserActs \/ TokensExpire \/ PasswordChangedElsewhere \/ UNCHANGED vars
  BY <1>1, UserStep
<1>2. ASSUME NEW s \in Slots, Progress(s)
      PROVE  SessionOK'
  BY <1>2, ArrivalIsOne, AnswerStep, RefreshStep, ResultStep
<1> QED
  BY <1>1, <1>2 DEF Next

\* Expiry alone signs nobody out: with the password unchanged and no failed
\* check of a stored session, a signed-in tab keeps a token, however many
\* requests refresh it side by side (lib/api.ts refreshAccessToken)
THEOREM ExpiryNeverSignsAnybodyOut == Spec => []ExpiryNeverSignsOut
<1>1. Init => SessionOK
  <2> SUFFICES ASSUME Init PROVE SessionOK
    OBVIOUS
  <2> DEFINE sent == [Idle EXCEPT !.at = "sent", !.token = storedAccess]
  <2>1. IsCall(Idle) /\ FirstPassword(Idle)
    BY FreshCalls
  <2>2. IsCall(sent) /\ sent.at = "sent"
    BY <2>1 DEF IsCall, Fields
  <2>3. FirstPassword(sent)
    BY <2>2 DEF FirstPassword
  <2>4. calls = [q \in Slots |-> IF q = "load" /\ loading THEN sent ELSE Idle]
    BY DEF Init
  <2>5. /\ password = 1 /\ storedRefresh = storedAccess
        /\ storedAccess # NoToken => storedAccess.pass = 1
    BY DEF Init
  <2>6. signedIn => storedAccess # NoToken
    <3>1. signedIn = (storedAccess # NoToken)
      BY DEF Init
    <3> QED
      BY <3>1, Zenon
  <2> HIDE DEF sent
  <2>7. CallsShape /\ \A q \in Slots : FirstPassword(calls[q])
    BY <2>1, <2>2, <2>3, <2>4 DEF CallsShape
  <2> QED
    BY <2>5, <2>6, <2>7 DEF SessionOK, FirstPasswordOnly
<1>2. SessionOK /\ HeldIsStored => ExpiryNeverSignsOut
  BY DEF SessionOK, HeldIsStored, ExpiryNeverSignsOut
<1> QED
  BY <1>1, <1>2, SessionStep, HeldIsAlwaysStored, PTL DEF Spec

(***************************************************************************)
(* Types.                                                                  *)
(***************************************************************************)
LEMMA TokenShape ==
  /\ NoToken \in Token
  /\ \A p \in 0 .. MaxPassword, e \in 0 .. MaxEra : [pass |-> p, era |-> e] \in Token
  /\ password \in 0 .. MaxPassword /\ era \in 0 .. MaxEra => Issued \in Token
BY SessionBounds DEF SessionBounds, NoToken, Token, Issued

\* A request under way, and one that has just begun
LEMMA CallShape ==
  /\ Idle \in Call
  /\ \A g \in Goals, k \in Token : [Idle EXCEPT !.at = "sent", !.goal = g, !.token = k] \in Call
  /\ \A c \in Call, at \in Stages, reply \in Replies, g \in Token :
       [c EXCEPT !.at = at, !.reply = reply, !.grant = g, !.token = NoToken] \in Call
<1>1. NoToken \in Token
  BY TokenShape
<1>2. Idle \in Call
  BY <1>1 DEF Idle, Call, Stages, Goals, Slots, Replies
<1>3. ASSUME NEW g \in Goals, NEW k \in Token
      PROVE  [Idle EXCEPT !.at = "sent", !.goal = g, !.token = k] \in Call
  BY <1>2 DEF Call, Stages
<1>4. ASSUME NEW c \in Call, NEW at \in Stages, NEW reply \in Replies, NEW g \in Token
      PROVE  [c EXCEPT !.at = at, !.reply = reply, !.grant = g, !.token = NoToken] \in Call
  BY <1>1 DEF Call
<1> QED
  BY <1>2, <1>3, <1>4

\* The calls after a step of one of them
LEMMA CallsTyped ==
  ASSUME TypeOK, NEW s \in Slots
  PROVE  /\ calls[s] \in Call /\ Closed(s) \in [Slots -> Call]
         /\ \A g \in Goals, k \in Token : Sending(s, g, k) \in [Slots -> Call]
         /\ \A at \in Stages, reply \in Replies, g \in Token :
              Answer(s, at, reply, g) => calls' \in [Slots -> Call]
         /\ \A c \in Call : [calls EXCEPT ![s] = c] \in [Slots -> Call]
<1>1. calls \in [Slots -> Call] /\ calls[s] \in Call
  BY DEF TypeOK
<1>2. \A c \in Call : [calls EXCEPT ![s] = c] \in [Slots -> Call]
  BY <1>1
<1>3. Closed(s) \in [Slots -> Call]
  BY <1>2, CallShape DEF Closed
<1>4. \A g \in Goals, k \in Token : Sending(s, g, k) \in [Slots -> Call]
  BY <1>2, CallShape DEF Sending
<1>5. ASSUME NEW at \in Stages, NEW reply \in Replies, NEW g \in Token, Answer(s, at, reply, g)
      PROVE  calls' \in [Slots -> Call]
  <2> DEFINE c == [calls[s] EXCEPT !.at = at, !.reply = reply, !.grant = g, !.token = NoToken]
  <2>1. calls' = [calls EXCEPT ![s] = c]
    BY <1>5 DEF Answer
  <2>2. c \in Call
    BY <1>1, CallShape
  <2> HIDE DEF c
  <2> QED
    BY <1>2, <2>1, <2>2
<1> QED
  BY <1>1, <1>2, <1>3, <1>4, <1>5

LEMMA UserTyped == ASSUME TypeOK, UserActs PROVE TypeOK'
<1>1. NoToken \in Token
  BY TokenShape
<1>2. Slots \subseteq Goals
  BY DEF Goals
<1>3. CASE Reload
  <2>1. calls' \in [Slots -> Call]
    <3> DEFINE c == [Idle EXCEPT !.at = "sent", !.token = storedAccess]
    <3>1. Idle \in Call /\ storedAccess \in Token
      BY CallShape DEF TypeOK
    <3>2. c \in Call
      BY <3>1 DEF Call, Stages
    <3> HIDE DEF c
    <3>3. calls' = [s \in Slots |-> IF s = "load" /\ storedAccess # NoToken THEN c ELSE Idle]
      BY <1>3 DEF Reload, c
    <3> QED
      BY <3>1, <3>2, <3>3
  <2> QED
    BY <1>3, <2>1 DEF Reload, TypeOK, server, stored, history
<1>4. CASE Logout \/ OpenLoginModal \/ CloseModal
  <2>1. CASE Logout
    BY <1>1, <2>1 DEF Logout, Forget, TypeOK, server, gated
  <2>2. CASE OpenLoginModal
    BY <2>2 DEF OpenLoginModal, TypeOK, server, stored, held, history
  <2>3. CASE CloseModal
    <3>1. dismissed' = dismissed \cup ({gate.pending} \ {"none"})
          /\ gate' = [open |-> FALSE, pending |-> "none"]
      BY <2>3 DEF CloseModal
    <3>2. dismissed' \subseteq Clicks
      BY <3>1 DEF TypeOK
    <3> QED
      BY <2>3, <3>1, <3>2 DEF CloseModal, TypeOK, server, stored, held, history
  <2> QED
    BY <1>4, <2>1, <2>2, <2>3
<1>5. ASSUME NEW s \in Slots, Send(s) \/ SubmitSignIn(s) \/ SubmitAccountForm(s) \/ OpenEmailedLink(s)
      PROVE  TypeOK'
  <2>1. calls' = Sending(s, s, token) \/ calls' = Sending(s, s, NoToken)
    BY <1>5 DEF Send, SubmitSignIn, SubmitAccountForm, OpenEmailedLink
  <2>2. token \in Token /\ s \in Goals
    BY <1>2 DEF TypeOK
  <2>3. calls' \in [Slots -> Call]
    BY <1>1, <2>1, <2>2, CallsTyped
  <2>4. UNCHANGED <<server, stored, held, gated, history>>
    BY <1>5 DEF Send, SubmitSignIn, SubmitAccountForm, OpenEmailedLink
  <2> QED
    BY <2>3, <2>4 DEF TypeOK, server, stored, held, gated, history
<1>6. ASSUME NEW c \in Clicks, RequireAuth(c) PROVE TypeOK'
  <2>1. /\ clicked' \subseteq Clicks /\ ran' \subseteq Clicks /\ dismissed' \subseteq Clicks
        /\ gate' \in [open : BOOLEAN, pending : Clicks \cup {"none"}]
    <3>1. /\ clicked \subseteq Clicks /\ ran \subseteq Clicks /\ dismissed \subseteq Clicks
          /\ gate \in [open : BOOLEAN, pending : Clicks \cup {"none"}]
          /\ gate.pending \in Clicks \cup {"none"} /\ c \in Clicks
      BY DEF TypeOK
    <3>2. clicked' = clicked \cup {c}
      BY <1>6 DEF RequireAuth
    <3>3. \/ /\ ran' = ran \cup {c} /\ UNCHANGED <<gate, dismissed>>
          \/ /\ gate' = [open |-> TRUE, pending |-> c]
             /\ dismissed' = dismissed \cup ({gate.pending} \ {"none"}) /\ UNCHANGED ran
      BY <1>6 DEF RequireAuth
    <3>4. CASE ran' = ran \cup {c} /\ UNCHANGED <<gate, dismissed>>
      BY <3>1, <3>2, <3>4
    <3>5. CASE /\ gate' = [open |-> TRUE, pending |-> c]
               /\ dismissed' = dismissed \cup ({gate.pending} \ {"none"}) /\ UNCHANGED ran
      <4>1. gate' \in [open : BOOLEAN, pending : Clicks \cup {"none"}]
        BY <3>1, <3>5
      <4>2. dismissed' \subseteq Clicks
        BY <3>1, <3>5
      <4> QED
        BY <3>1, <3>2, <3>5, <4>1, <4>2
    <3> QED
      BY <3>3, <3>4, <3>5
  <2> QED
    BY <1>6, <2>1 DEF RequireAuth, TypeOK, server, stored, held, history
<1> QED
  BY <1>3, <1>4, <1>5, <1>6 DEF UserActs

LEMMA ServerTyped == ASSUME TypeOK, NEW s \in Slots, Serve(s) \/ ServeRefresh(s) PROVE TypeOK'
<1>1. NoToken \in Token /\ Issued \in Token
  BY TokenShape DEF TypeOK
<1>2. ASSUME NEW at \in {"answered", "final"}, ServePlain(s, at) PROVE TypeOK'
  <2>1. PICK reply \in Replies, g \in Token : Answer(s, at, reply, g)
    BY <1>1, <1>2 DEF ServePlain, Replies
  <2>2. calls' \in [Slots -> Call]
    BY <2>1, CallsTyped DEF Stages
  <2> QED
    BY <1>2, <2>2 DEF ServePlain, TypeOK, server, stored, held, gated, history
<1>3. ASSUME NEW at \in {"answered", "final"}, ServeNewPassword(s, at) PROVE TypeOK'
  <2>1. password \in 1 .. (MaxPassword - 1) /\ password' = password + 1
    BY <1>3 DEF ServeNewPassword
  <2>2. password' \in 0 .. MaxPassword /\ [pass |-> password + 1, era |-> era] \in Token
    BY <2>1, TokenShape, SessionBounds DEF TypeOK, SessionBounds
  <2>3. PICK g \in Token : Answer(s, at, "ok", g)
    BY <1>1, <1>3, <2>2 DEF ServeNewPassword
  <2>4. calls' \in [Slots -> Call]
    BY <2>3, CallsTyped DEF Stages, Replies
  <2> QED
    BY <1>3, <2>2, <2>4 DEF ServeNewPassword, TypeOK, stored, held, gated
<1>4. ASSUME NEW at \in {"answered", "final"}, ServeDelete(s, at) PROVE TypeOK'
  <2>1. calls' \in [Slots -> Call]
    BY <1>1, <1>4, CallsTyped DEF ServeDelete, Stages, Replies
  <2>2. password' \in 0 .. MaxPassword
    BY <1>4, SessionBounds DEF ServeDelete, SessionBounds
  <2> QED
    BY <1>4, <2>1, <2>2 DEF ServeDelete, TypeOK, stored, held, gated
<1>5. CASE ServeRefresh(s)
  <2>1. PICK reply \in Replies, g \in Token : Answer(s, "renewed", reply, g)
    BY <1>1, <1>5 DEF ServeRefresh, Replies
  <2>2. calls' \in [Slots -> Call]
    BY <2>1, CallsTyped DEF Stages
  <2> QED
    BY <1>5, <2>2 DEF ServeRefresh, TypeOK, server, stored, held, gated, history
<1> QED
  BY <1>2, <1>3, <1>4, <1>5 DEF Serve

LEMMA ArrivalTyped == ASSUME TypeOK, NEW s \in Slots, Arrives(s) PROVE TypeOK'
<1>1. NoToken \in Token /\ calls[s] \in Call /\ calls[s].grant \in Token
  BY TokenShape, CallsTyped DEF Call
<1>2. "load" \in Slots /\ Closed("load") \in [Slots -> Call]
  BY CallsTyped DEF Slots
<1>3. Closed(s) \in [Slots -> Call]
  BY CallsTyped
<1>4. CASE BeginRefresh(s)
  <2> DEFINE c == [calls[s] EXCEPT !.at = "refreshing", !.grant = storedRefresh]
  <2>1. c \in Call
    BY <1>1 DEF Call, Stages, TypeOK
  <2>2. calls' = [calls EXCEPT ![s] = c]
    BY <1>4 DEF BeginRefresh, TypeOK
  <2> HIDE DEF c
  <2>3. calls' \in [Slots -> Call]
    BY <2>1, <2>2, CallsTyped
  <2> QED
    BY <1>4, <2>3 DEF BeginRefresh, TypeOK, server, stored, held, gated, history
<1>5. CASE Renewed(s)
  <2> DEFINE c == [calls[s] EXCEPT !.at = "resent", !.token = calls[s].grant, !.grant = NoToken, !.reply = "none"]
  <2>1. c \in Call
    BY <1>1 DEF Call, Stages, Replies
  <2>2. calls' = [calls EXCEPT ![s] = c]
    BY <1>5 DEF Renewed, TypeOK
  <2> HIDE DEF c
  <2>3. calls' \in [Slots -> Call]
    BY <2>1, <2>2, CallsTyped
  <2> QED
    BY <1>1, <1>5, <2>3 DEF Renewed, TypeOK, server, gated, history
<1>6. CASE SessionEnded(s) \/ RefreshFailed(s)
  <2> DEFINE c == [calls[s] EXCEPT !.at = "final", !.reply = "failed"]
  <2>1. c \in Call
    BY <1>1 DEF Call, Stages, Replies
  <2>2. calls' = [calls EXCEPT ![s] = c]
    BY <1>6 DEF SessionEnded, RefreshFailed, TypeOK
  <2> HIDE DEF c
  <2>3. calls' \in [Slots -> Call]
    BY <2>1, <2>2, CallsTyped
  <2> QED
    BY <1>1, <1>6, <2>3 DEF SessionEnded, RefreshFailed, Forget, TypeOK, server, stored, held, gated, history
<1>7. CASE LoadFailed \/ LoadSucceeded
  BY <1>1, <1>2, <1>7 DEF LoadFailed, LoadSucceeded, Forget, TypeOK, server, stored, gated, history
<1>8. CASE Failed(s) \/ PlainSuccess(s) \/ UserRefreshed(s)
  BY <1>3, <1>8 DEF Failed, PlainSuccess, UserRefreshed, TypeOK, server, stored, held, gated, history
<1>9. CASE SignedIn(s)
  <2>1. calls' \in [Slots -> Call]
    BY <1>1, <1>9, CallsTyped DEF SignedIn, Goals
  <2> QED
    BY <1>1, <1>9, <2>1 DEF SignedIn, Adopt, TypeOK, server, gated
<1>10. CASE SignInDone(s)
  BY <1>3, <1>10 DEF SignInDone, TypeOK, server, stored, history
<1>11. CASE s = "password" /\ PasswordChanged
  BY <1>1, <1>3, <1>11 DEF PasswordChanged, Adopt, TypeOK, server, gated
<1>12. CASE s = "delete" /\ AccountDeleted
  BY <1>1, <1>3, <1>12 DEF AccountDeleted, Forget, TypeOK, server, gated
<1>13. CASE ReadUserAgain(s)
  <2>1. calls' \in [Slots -> Call]
    BY <1>3, <1>13, CallsTyped DEF ReadUserAgain, Goals, TypeOK
  <2> QED
    BY <1>13, <2>1 DEF ReadUserAgain, TypeOK, server, stored, held, gated, history
<1> QED
  BY <1>4, <1>5, <1>6, <1>7, <1>8, <1>9, <1>10, <1>11, <1>12, <1>13 DEF Arrives

\* The tab, the account and the requests keep their shapes; in particular the
\* gate holds a click or none, and no pass is issued past the last password.
THEOREM TypeCorrect == Spec => []TypeOK
<1>1. Init => TypeOK
  <2> SUFFICES ASSUME Init PROVE TypeOK
    OBVIOUS
  <2>1. /\ NoToken \in Token /\ [pass |-> 1, era |-> 0] \in Token
        /\ password \in 0 .. MaxPassword /\ era \in 0 .. MaxEra
    BY TokenShape, SessionBounds DEF Init, SessionBounds
  <2>2. storedAccess \in Token /\ storedRefresh \in Token /\ token \in Token
    BY <2>1 DEF Init
  <2>3. calls \in [Slots -> Call]
    <3> DEFINE c == [Idle EXCEPT !.at = "sent", !.token = storedAccess]
    <3>1. Idle \in Call
      BY CallShape
    <3>2. c \in Call
      BY <2>2, <3>1 DEF Call, Stages
    <3> HIDE DEF c
    <3>3. calls = [s \in Slots |-> IF s = "load" /\ loading THEN c ELSE Idle]
      BY DEF Init, c
    <3> QED
      BY <3>1, <3>2, <3>3
  <2> QED
    BY <2>1, <2>2, <2>3 DEF Init, TypeOK
<1>2. TypeOK /\ [Next]_vars => TypeOK'
  <2> SUFFICES ASSUME TypeOK, [Next]_vars PROVE TypeOK'
    OBVIOUS
  <2>1. CASE TokensExpire \/ PasswordChangedElsewhere
    <3>1. password' \in 0 .. MaxPassword /\ era' \in 0 .. MaxEra
      BY <2>1, SessionBounds DEF TokensExpire, PasswordChangedElsewhere, TypeOK, SessionBounds
    <3>2. /\ UNCHANGED <<stored, held, calls, gated, signedIn>>
          /\ excused' \in BOOLEAN /\ continues' \in BOOLEAN
      BY <2>1 DEF TokensExpire, PasswordChangedElsewhere, TypeOK, history
    <3> QED
      BY <3>1, <3>2 DEF TypeOK, stored, held, gated
  <2>2. CASE UNCHANGED vars
    BY <2>2 DEF vars, TypeOK, server, stored, held, gated, history
  <2> QED
    BY <2>1, <2>2, UserTyped, ServerTyped, ArrivalTyped DEF Next, Progress
<1> QED
  BY <1>1, <1>2, PTL DEF Spec
=============================================================================
