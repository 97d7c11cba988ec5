------------------------------- MODULE Access -------------------------------
(***************************************************************************)
(* Who may do what: HTTP Basic requests (api/middleware.go) and the web     *)
(* UI's login (api/ui_auth.go) authenticate against the directory           *)
(* (ldap/auth.go) through the cache; groups give roles and roles            *)
(* permissions (api/auth.go); a login starts a session that lives in memory *)
(* (api/ui_session.go), is prolonged by each use, ended by a logout and     *)
(* swept when it expired. Nothing bounds how long the directory takes.      *)
(***************************************************************************)
EXTENDS Directory, AuthCache

CONSTANTS
  Visitor,     \* requests; each asks for one thing, a session is named by its login
  RoleGroups,  \* ldap.roles: the groups that give each role
  SessionTTL   \* uiSessionTTL

ASSUME AccessAssumption ==
  /\ RoleGroups \in [{"admin", "publisher", "reader"} -> SUBSET Groups]
  /\ SessionTTL \in Nat
ASSUME VisitAssumption ==
  \A l \in Loads, v \in Visitor :
    \A x \in l.visits[v] : x.kind \in {"basic", "login"} => x.user \in Users /\ x.pass \in Passwords

rolePermissions(role) ==
  CASE role = "admin" -> {"admin", "publish", "read"}
    [] role = "publisher" -> {"publish", "read"}
    [] role = "reader" -> {"read"}

resolveRoles(groups) == {r \in DOMAIN RoleGroups : RoleGroups[r] \cap groups # {}}
hasPermission(roles, perm) == \E r \in roles : perm \in rolePermissions(r)

VARIABLES
  visit,     \* what each asks for when it comes: [kind, user, pass, perm, token]
  vstep,     \* idle, search, bind, put, grant, done, gone
  got,       \* what authentication returned: [groups, server, read, late, at, cached]
  reply,     \* the outcome as a status code, 0 before; a login that lets in is 200 here
             \* (the code redirects) and one that does not has its error (a page with a flash)
  sessions,  \* sessions[t] = [roles, expires] for the tokens it has
  sweepAt,   \* the time the sweeper read before it waits for the mutex, or -1
  lastUse,   \* ghost: when each session was created or last used
  ended      \* ghost: tokens that were logged out, or lost by a restart

accessVars == <<visit, vstep, got, reply, sessions, sweepAt, lastUse, ended>>

NoVisit == [kind |-> "none", user |-> "none", pass |-> "none", perm |-> "none", token |-> "none"]
Nothing == [groups |-> {}, server |-> "primary", read |-> 0, late |-> 0, at |-> -1, cached |-> FALSE]

AccessTypeOK ==
  /\ visit \in [Visitor -> (UNION {load.visits[v] : v \in Visitor}) \cup {NoVisit}]
  /\ vstep \in [Visitor -> {"idle", "search", "bind", "put", "grant", "done", "gone"}]
  /\ \A v \in Visitor :
       got[v].groups \subseteq Groups /\ got[v].at \in -1..now /\ got[v].server \in Server
  /\ reply \in [Visitor -> {0, 200, 303, 401, 403, 500}]
  /\ DOMAIN sessions \subseteq Visitor /\ ended \subseteq Visitor
  /\ sweepAt \in -1..now

AccessInit ==
  /\ CacheInit
  /\ visit \in [Visitor -> (UNION {load.visits[v] : v \in Visitor}) \cup {NoVisit}]
  /\ \A v \in Visitor :
       IF load.visits[v] = {} THEN visit[v] = NoVisit ELSE visit[v] \in load.visits[v]
  /\ vstep = [v \in Visitor |-> "idle"]
  /\ got = [v \in Visitor |-> Nothing]
  /\ reply = [v \in Visitor |-> 0]
  /\ sessions = <<>>
  /\ sweepAt = -1
  /\ lastUse = [v \in Visitor |-> -1]
  /\ ended = {}

Key(v) == <<visit[v].user, visit[v].pass>>
VGoto(v, s) == vstep' = [vstep EXCEPT ![v] = s] /\ UNCHANGED reply
Reply(v, code) ==
  /\ vstep' = [vstep EXCEPT ![v] = "done"]
  /\ reply' = [reply EXCEPT ![v] = code]

NoSession == UNCHANGED <<sessions, sweepAt, lastUse, ended>>

-----------------------------------------------------------------------------
\* Authentication, for a Basic request and for a login.

\* A result is there: requirePermissions for a Basic request; a login goes on.
Granted(v, groups) ==
  IF visit[v].kind = "basic"
  THEN Reply(v, IF hasPermission(resolveRoles(groups), visit[v].perm) THEN 200 ELSE 403)
  ELSE VGoto(v, "grant")

Begins(v) == vstep[v] = "idle" /\ visit[v].kind \in {"basic", "login"}

\* A hit returns the result that was stored, however old it is by now.
LookupHit(v) ==
  /\ Begins(v) /\ MaxSize > 0
  /\ Hit(Key(v), now)
  /\ got' = [got EXCEPT ![v] = [Nothing EXCEPT !.groups = index[Key(v)].groups,
                                !.late = index[Key(v)].late, !.at = now, !.cached = TRUE]]
  /\ Granted(v, index[Key(v)].groups)
  /\ UNCHANGED visit /\ NoSession

\* Without a cache every request goes to the directory.
LookupMiss(v) ==
  /\ Begins(v)
  /\ IF MaxSize > 0 THEN Miss(Key(v), now) ELSE UNCHANGED cacheVars
  /\ VGoto(v, "search")
  /\ UNCHANGED <<visit, got>> /\ NoSession

\* The service account reads the person's groups on the first server that answers; the
\* primary may not.
SearchUser(v) ==
  /\ vstep[v] = "search"
  /\ \E s \in Server :
       got' = [got EXCEPT ![v].groups = GroupsOf(Seen(s), visit[v].user), ![v].server = s, ![v].read = now]
  /\ VGoto(v, "bind")
  /\ UNCHANGED <<visit, cacheVars>> /\ NoSession

\* Then the password is tried on the same connection; a wrong one ends the request and is never cached.
BindUser(v) ==
  /\ vstep[v] = "bind"
  /\ IF visit[v].pass = Seen(got[v].server).password[visit[v].user]
     THEN VGoto(v, "put") /\ UNCHANGED got
     ELSE Reply(v, 401) /\ got' = [got EXCEPT ![v] = Nothing]
  /\ UNCHANGED <<visit, cacheVars>> /\ NoSession

Store(v) ==
  /\ vstep[v] = "put"
  /\ LET late == now - got[v].read
     IN /\ got' = [got EXCEPT ![v].read = 0, ![v].server = "primary", ![v].late = late, ![v].at = now]
        /\ IF MaxSize > 0 THEN Put(Key(v), Entry(got[v].groups, late, now)) ELSE UNCHANGED cacheVars
  /\ Granted(v, got[v].groups)
  /\ UNCHANGED visit /\ NoSession

authenticate(v) ==
  \/ LookupHit(v) \/ LookupMiss(v) \/ SearchUser(v) \/ BindUser(v) \/ Store(v)

\* No server answers, or one fails in the middle.
DirectoryFails(v) ==
  /\ Fault
  /\ vstep[v] \in {"search", "bind"}
  /\ Reply(v, 500)
  /\ got' = [got EXCEPT ![v] = Nothing]
  /\ UNCHANGED <<visit, cacheVars>> /\ NoSession

-----------------------------------------------------------------------------
\* Sessions of the web UI. Each call of the store is atomic under its mutex.

NoAuth == UNCHANGED <<got, cacheVars>>

\* A login needs the permission to read; its roles stay those of this moment.
Login(v) ==
  /\ vstep[v] = "grant" /\ visit[v].kind = "login"
  /\ LET roles == resolveRoles(got[v].groups)
     IN IF hasPermission(roles, "read")
        THEN /\ sessions' = [t \in {v} \cup DOMAIN sessions |->
                  IF t = v THEN [roles |-> roles, expires |-> now + SessionTTL] ELSE sessions[t]]
             /\ lastUse' = [lastUse EXCEPT ![v] = now]
             /\ Reply(v, 200)
        ELSE Reply(v, 403) /\ UNCHANGED <<sessions, lastUse>>
  /\ UNCHANGED <<visit, sweepAt, ended>> /\ NoAuth

\* The browser has the cookie of a login that was answered.
HasCookie(v) == visit[v].token \in Visitor /\ reply[visit[v].token] = 200

Found(t) == t \in DOMAIN sessions /\ now <= sessions[t].expires

\* Mutant: a use does not prolong the session.
SessionGetFixed(t) ==
  IF Found(t)
  THEN lastUse' = [lastUse EXCEPT ![t] = now] /\ UNCHANGED sessions
  ELSE sessions' = Restrict(sessions, DOMAIN sessions \ {t}) /\ UNCHANGED lastUse

\* A session that is found is prolonged; an expired one is removed.
SessionGet(t) ==
  IF Found(t)
  THEN /\ sessions' = [sessions EXCEPT ![t].expires = now + SessionTTL]
       /\ lastUse' = [lastUse EXCEPT ![t] = now]
  ELSE sessions' = Restrict(sessions, DOMAIN sessions \ {t}) /\ UNCHANGED lastUse

\* The login page sends a visitor with a session on; looking prolongs it too.
LoginForm(v) ==
  /\ vstep[v] = "idle" /\ visit[v].kind = "form" /\ HasCookie(v)
  /\ SessionGet(visit[v].token)
  /\ Reply(v, IF Found(visit[v].token) THEN 303 ELSE 200)
  /\ UNCHANGED <<visit, sweepAt, ended>> /\ NoAuth

\* authenticateSession and requirePermissions; without a session, to the login page.
Page(v) ==
  /\ vstep[v] = "idle" /\ visit[v].kind = "page" /\ HasCookie(v)
  /\ SessionGet(visit[v].token)
  /\ Reply(v, IF ~Found(visit[v].token) THEN 303
              ELSE IF hasPermission(sessions[visit[v].token].roles, visit[v].perm) THEN 200 ELSE 403)
  /\ UNCHANGED <<visit, sweepAt, ended>> /\ NoAuth

Logout(v) ==
  /\ vstep[v] = "idle" /\ visit[v].kind = "logout" /\ HasCookie(v)
  /\ sessions' = Restrict(sessions, DOMAIN sessions \ {visit[v].token})
  /\ ended' = ended \cup {visit[v].token}
  /\ Reply(v, 303)
  /\ UNCHANGED <<visit, sweepAt, lastUse>> /\ NoAuth

NoRequest == UNCHANGED <<visit, vstep, reply, lastUse, ended>> /\ NoAuth

\* The ticker fires: the sweeper takes the time first and the mutex later. (A session
\* created after that cannot be swept, so a sweep of nothing is left out.)
SweepStart == sweepAt = -1 /\ sessions # <<>> /\ sweepAt' = now /\ UNCHANGED sessions /\ NoRequest

\* Mutant: the sweep leaves expired sessions another TTL.
SweepLate ==
  /\ sweepAt # -1
  /\ sessions' = Restrict(sessions,
       {t \in DOMAIN sessions : sweepAt <= sessions[t].expires + SessionTTL})
  /\ sweepAt' = -1
  /\ NoRequest

Sweep ==
  /\ sweepAt # -1
  /\ sessions' = Restrict(sessions, {t \in DOMAIN sessions : sweepAt <= sessions[t].expires})
  /\ sweepAt' = -1
  /\ NoRequest

Serve(v) ==
  authenticate(v) \/ Login(v) \/ LoginForm(v) \/ Page(v) \/ Logout(v)

\* A restart: cache and sessions are gone, requests in flight are not answered.
AccessCrash ==
  /\ vstep' = [v \in Visitor |-> IF vstep[v] \in {"idle", "done"} THEN vstep[v] ELSE "gone"]
  /\ index' = <<>> /\ lru' = <<>>
  /\ ended' = ended \cup DOMAIN sessions
  /\ sessions' = <<>>
  /\ sweepAt' = -1
  /\ UNCHANGED <<visit, got, reply, lastUse>>

-----------------------------------------------------------------------------
\* Nobody is let in on what was not true lately: a Basic request or a login that
\* succeeds had the right password and a group giving the permission, on some server
\* of the directory, no longer ago than the cache's TTL and the time the authentication
\* itself took. (AuthenticateUser of cache.go: a hit must not renew the entry, a
\* failure must not be stored.)
RevocationBounded ==
  \A v \in Visitor : visit[v].kind \in {"basic", "login"} /\ reply[v] = 200 =>
    LET since == got[v].at - TTL - got[v].late
        perm == IF visit[v].kind = "login" THEN "read" ELSE visit[v].perm
        Lately(i) == Until(i) >= since
    IN /\ \E i \in DOMAIN contents : Lately(i) /\ contents[i].password[visit[v].user] = visit[v].pass
       /\ \E i \in DOMAIN contents :
            Lately(i) /\ hasPermission(resolveRoles(GroupsOf(contents[i], visit[v].user)), perm)

\* A session ends when it must and not before: one that was logged out is gone for
\* good, and one that was used within its TTL is there, although the sweeper decides
\* with a time it took before it got the mutex. (uiSessionStore)
SessionsHonest ==
  \A t \in Visitor :
    /\ t \in ended => t \notin DOMAIN sessions
    /\ lastUse[t] # -1 /\ t \notin ended /\ now <= lastUse[t] + SessionTTL => t \in DOMAIN sessions

\* A session nobody uses any more does not stay in memory. (sweepExpired)
ExpiredIsSwept ==
  \A t \in Visitor : (t \in DOMAIN sessions /\ now > sessions[t].expires) ~> t \notin DOMAIN sessions

\* The cache is a map whose entries expire.
Map == INSTANCE ExpiringMap WITH
  Keys <- Users \X Passwords,
  Results <- SUBSET Groups,
  map <- [k \in DOMAIN index |-> [result |-> index[k].groups, until |-> index[k].expires]],
  served <- {[key |-> Key(v), result |-> got[v].groups, at |-> got[v].at] :
               v \in {w \in Visitor : got[w].cached}}

\* The list and the index together behave like that map: what is served was learned,
\* at most TTL ago, and has not changed since.
CacheImplementsMap == Map!Spec
=============================================================================
