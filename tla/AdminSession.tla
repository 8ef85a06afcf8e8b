---------------------------- MODULE AdminSession ----------------------------
(* Who is logged in to the dashboard: a browser with several tabs and one      *)
(* cookie, the middleware that renews the cookie's token late in its life,     *)
(* login, logout and the change of the admin's password.  Requests of several *)
(* tabs overlap: each carries the cookie of the moment it was sent, and what   *)
(* its answer says of the cookie is obeyed when the answer arrives.            *)
(* The module describes the running gateway; Deployment starts and stops it.   *)
EXTENDS Integers, FiniteSets

CONSTANTS
    Tabs,
    Passwords,      \* what the admin may type
    Short, Long,    \* those under 8 characters, those over 72 bytes
    TTL, THRESHOLD, \* SESSION_TTL_SECONDS, SESSION_REFRESH_THRESHOLD_SECONDS
    MaxTime, MaxRequests, MaxFaults,  \* bounds
    None

ASSUME LifetimesAssumption == THRESHOLD \in Nat \ {0} /\ TTL \in Nat /\ TTL > THRESHOLD
ASSUME PasswordsAssumption ==
    Short \cup Long \subseteq Passwords /\ Short \cap Long = {} /\ None \notin Passwords

VARIABLES
    gateway,    \* the running process's environment [secret, admin], or None
    row,        \* settings.admin_password_hash, as its password; None: no row
    now,
    cookie,     \* the browser's cookie [token, until], or None
    req,        \* req[tab]: the tab's request
    requests, faults,
    hist        \* history: [lastOk, newest, loggedOut]

session == <<now, cookie, req, requests, faults, hist>>
sessionVars == <<gateway, row, session>>

Quiescent ==
    [stage |-> "idle", kind |-> "page", pw |-> None, new |-> None, token |-> None,
     hash |-> None, ok |-> FALSE, clear |-> FALSE, set |-> None, seen |-> {}, late |-> FALSE]

-----------------------------------------------------------------------------
(* lib/auth/session.ts, lib/services/settings.ts                             *)

CreateSessionToken == [secret |-> gateway.secret, exp |-> now + TTL]
VerifySessionToken(token) == token # None /\ token.secret = gateway.secret /\ now < token.exp
\* Faulty variant: only in the last instant.
ShouldRefreshTooLate(token) == token.exp - now < 1
ShouldRefreshSession(token) == token.exp - now < THRESHOLD

\* Faulty variant: the environment wins.
GetEnvPasswordHash == gateway.admin
\* Faulty variant: only the row.
GetRowHash == row
\* A settings row wins over ADMIN_PASSWORD_HASH_B64.
GetAdminPasswordHash == IF row # None THEN row ELSE gateway.admin

Fault == faults < MaxFaults /\ faults' = faults + 1

-----------------------------------------------------------------------------
(* The browser.                                                              *)

Send(t, kind, pw, new) ==
    /\ gateway # None /\ req[t].stage = "idle"
    /\ requests < MaxRequests /\ requests' = requests + 1
    /\ req' = [req EXCEPT ![t] =
                 [Quiescent EXCEPT !.stage = "sent", !.kind = kind, !.pw = pw, !.new = new,
                                   !.token = IF cookie # None /\ now < cookie.until
                                             THEN cookie.token ELSE None,
                                   !.seen = {IF row # None THEN row ELSE gateway.admin}]]
    /\ UNCHANGED <<gateway, row, now, cookie, faults, hist>>

\* The confirmation is compared in the form: only equal ones are sent.
HandleSubmit(t) == \E pw, new \in Passwords : Send(t, "change", pw, new)
Visit(t) == Send(t, "page", None, None)
SubmitLogin(t) == \E pw \in Passwords : Send(t, "login", pw, None)
SubmitLogout(t) == Send(t, "logout", None, None)

\* Set-Cookie of an answer.  A token set after a logout's answer, by a request that
\* was under way before it, is remembered as late.
Arrive(t) ==
    /\ req[t].stage = "answered"
    /\ LET r == req[t]
           out == r.kind = "logout" /\ r.ok
       IN  /\ cookie' = IF r.clear THEN None
                        ELSE IF r.set # None THEN [token |-> r.set, until |-> now + TTL]
                        ELSE cookie
           /\ hist' = [hist EXCEPT !.loggedOut =
                         IF out THEN TRUE ELSE @ /\ (r.set = None \/ ~(r.late \/ r.kind = "login"))]
           /\ req' = [s \in Tabs |-> IF s = t THEN Quiescent
                                     ELSE [req[s] EXCEPT !.late = @ \/ (out /\ req[s].stage # "idle")]]
    /\ UNCHANGED <<gateway, row, now, requests, faults>>

AnswerLost(t) ==
    /\ req[t].stage = "answered"
    /\ Fault
    /\ req' = [req EXCEPT ![t] = Quiescent]
    /\ UNCHANGED <<gateway, row, now, cookie, requests, hist>>

-----------------------------------------------------------------------------
(* The gateway.                                                              *)

\* middleware(): every guarded request; a token near its end is replaced.
Guarded(t) == gateway # None /\ req[t].stage = "sent" /\ req[t].kind # "login"
Renewal(t) == IF ShouldRefreshSession(req[t].token) THEN CreateSessionToken ELSE None
Used(token) == [hist EXCEPT !.lastOk = now, !.newest = IF token # None THEN token.exp ELSE @]

Redirect(t) ==
    /\ Guarded(t) /\ ~VerifySessionToken(req[t].token)
    /\ req' = [req EXCEPT ![t].stage = "answered", ![t].clear = TRUE]
    /\ UNCHANGED <<gateway, row, now, cookie, requests, faults, hist>>

Page(t) ==
    /\ Guarded(t) /\ req[t].kind = "page" /\ VerifySessionToken(req[t].token)
    /\ req' = [req EXCEPT ![t].stage = "answered", ![t].ok = TRUE, ![t].set = Renewal(t)]
    /\ hist' = Used(Renewal(t))
    /\ UNCHANGED <<gateway, row, now, cookie, requests, faults>>

\* The action's Set-Cookie comes after the middleware's, and wins.
Logout(t) ==
    /\ Guarded(t) /\ req[t].kind = "logout" /\ VerifySessionToken(req[t].token)
    /\ req' = [req EXCEPT ![t].stage = "answered", ![t].ok = TRUE, ![t].clear = TRUE]
    /\ UNCHANGED <<gateway, row, now, cookie, requests, faults, hist>>

LoginReads(t) ==
    /\ gateway # None /\ req[t].stage = "sent" /\ req[t].kind = "login"
    /\ \/ /\ req' = [req EXCEPT ![t].stage = "compare", ![t].hash = GetAdminPasswordHash]
          /\ UNCHANGED faults
       \/ /\ Fault
          /\ req' = [req EXCEPT ![t].stage = "answered"]
    /\ UNCHANGED <<gateway, row, now, cookie, requests, hist>>

LoginCompares(t) ==
    /\ gateway # None /\ req[t].stage = "compare" /\ req[t].kind = "login"
    /\ IF req[t].pw = req[t].hash
       THEN /\ req' = [req EXCEPT ![t].stage = "answered", ![t].ok = TRUE,
                                  ![t].set = CreateSessionToken]
            /\ hist' = Used(CreateSessionToken)
       ELSE req' = [req EXCEPT ![t].stage = "answered"] /\ UNCHANGED hist
    /\ UNCHANGED <<gateway, row, now, cookie, requests, faults>>

\* changePassword(): the lengths, then the hash in force; or the statement fails.
ChangeReads(t) ==
    /\ Guarded(t) /\ req[t].kind = "change" /\ VerifySessionToken(req[t].token)
    /\ \/ /\ req[t].new \in Short \cup Long
          /\ req' = [req EXCEPT ![t].stage = "answered", ![t].set = Renewal(t)]
          /\ UNCHANGED faults
       \/ /\ req[t].new \notin Short \cup Long
          /\ req' = [req EXCEPT ![t].stage = "compare", ![t].hash = GetAdminPasswordHash,
                                ![t].set = Renewal(t)]
          /\ UNCHANGED faults
       \/ /\ req[t].new \notin Short \cup Long
          /\ Fault
          /\ req' = [req EXCEPT ![t].stage = "answered", ![t].set = Renewal(t)]
    /\ hist' = Used(Renewal(t))
    /\ UNCHANGED <<gateway, row, now, cookie, requests>>

\* bcrypt.compare, then setAdminPassword()'s upsert.
ChangeWrites(t) ==
    /\ gateway # None /\ req[t].stage = "compare" /\ req[t].kind = "change"
    /\ \/ /\ req[t].pw # req[t].hash
          /\ req' = [req EXCEPT ![t].stage = "answered"]
          /\ UNCHANGED <<row, faults>>
       \/ /\ req[t].pw = req[t].hash
          /\ row' = req[t].new
          /\ req' = [s \in Tabs |->
                       IF s = t THEN [req[s] EXCEPT !.stage = "answered", !.ok = TRUE]
                       ELSE [req[s] EXCEPT !.seen = @ \cup {req[t].new}]]
          /\ UNCHANGED faults
       \/ /\ req[t].pw = req[t].hash
          /\ Fault
          /\ req' = [req EXCEPT ![t].stage = "answered"]
          /\ UNCHANGED row
    /\ UNCHANGED <<gateway, now, cookie, requests, hist>>

Tick ==
    /\ gateway # None
    /\ now < MaxTime /\ now' = now + 1
    /\ UNCHANGED <<gateway, row, cookie, req, requests, faults, hist>>

SessionInit ==
    /\ row = None /\ now = 0 /\ cookie = None
    /\ req = [t \in Tabs |-> Quiescent]
    /\ faults = 0
    /\ hist = [lastOk |-> 0, newest |-> 0, loggedOut |-> FALSE]

SessionNext ==
    \/ \E t \in Tabs :
         \/ HandleSubmit(t) \/ Visit(t) \/ SubmitLogin(t) \/ SubmitLogout(t)
         \/ Arrive(t) \/ AnswerLost(t)
         \/ Redirect(t) \/ Page(t) \/ Logout(t)
         \/ LoginReads(t) \/ LoginCompares(t)
         \/ ChangeReads(t) \/ ChangeWrites(t)
    \/ Tick

\* What a stop of the gateway does to the requests: the unanswered ones are lost.
DropRequests ==
    req' = [t \in Tabs |-> IF req[t].stage = "answered" THEN req[t] ELSE Quiescent]

-----------------------------------------------------------------------------
(* Properties.                                                               *)

SessionTypeOK ==
    /\ row \in Passwords \cup {None}
    /\ gateway # None => gateway.admin \in Passwords
    /\ \A t \in Tabs :
         /\ req[t].stage \in {"idle", "sent", "compare", "answered"}
         /\ req[t].kind \in {"page", "login", "logout", "change"}
         /\ req[t].seen \subseteq Passwords
         /\ req[t].stage = "compare" => req[t].hash \in Passwords
    /\ hist.newest <= now + TTL /\ hist.lastOk <= now

\* Nobody gets a session, and nobody changes the password, without giving one that
\* was in force at some moment of the request: the row once there is one, whatever
\* the environment says, across the gap between reading the hash and using it.
KnewThePassword ==
    \A t \in Tabs :
       (req[t].kind \in {"login", "change"} /\ req[t].ok) => req[t].pw \in req[t].seen

\* The newest token of a session is refused for its age only after a pause of at
\* least THRESHOLD: an admin who asks for a page more often than that stays in.
ActiveAdminStaysIn ==
    [][\A t \in Tabs :
         (/\ Guarded(t) /\ req[t].token # None /\ req'[t].stage = "answered"
          /\ req'[t].clear /\ ~req'[t].ok
          /\ req[t].token.secret = gateway.secret /\ req[t].token.exp = hist.newest)
         => now - hist.lastOk >= THRESHOLD]_sessionVars

\* After a logout the browser has no cookie until the next login, except one that
\* a request already under way at the logout brings back.
LoggedOutStays == hist.loggedOut => cookie = None

\* Who is in knew the password, and who has left is out.
SessionsSound == KnewThePassword /\ LoggedOutStays
=============================================================================
