-------------------------------- MODULE Session --------------------------------
(***************************************************************************)
(* The editor's session: the two cookies and the routes that set, rotate   *)
(* and clear them (app/api/v1/endpoints/auth.py), the check every other    *)
(* route makes (app/api/deps.py), and in each browser tab the fetch that   *)
(* refreshes a session and retries (static/js/api.js) under the gate that  *)
(* shows a view or the login (static/js/main.js).                          *)
(*                                                                         *)
(* The tabs share the cookies. A cookie is the time its token expires, 0 if*)
(* there is none: the browser drops it and the server refuses it at the    *)
(* same moment. A request carries the cookie of the moment it was sent; it *)
(* is served and answered in steps of their own, in any order.             *)
(***************************************************************************)
EXTENDS Naturals

CONSTANTS
  Tabs,
  Calls,       \* requests the views make, anything but /auth/*
  TabOf,       \* TabOf[c]: the tab that makes c
  AccessTtl,   \* access_token_minutes
  RefreshTtl,  \* refresh_token_days
  MaxTime,     \* bound: the clock
  MaxFaults,   \* bound: requests that fail on the network
  MaxReloads   \* bound: pages reloaded by hand

ASSUME SessionAssumption ==
  /\ TabOf \in [Calls -> Tabs]
  /\ AccessTtl \in Nat \ {0} /\ RefreshTtl \in Nat \ {0}
  /\ MaxTime \in Nat /\ MaxFaults \in Nat /\ MaxReloads \in Nat

VARIABLES
  now,
  user,        \* the editor's row exists
  jar,         \* the browser's cookies
  authed,      \* authed[t]: null, true or false
  form,        \* form[t]: the login form of the tab
  mounted,     \* mounted[t]: times the picker was mounted
  refreshing,  \* refreshing[t]: the one refresh under way
  entry,       \* entry[t]: /auth/me, /auth/login or /auth/logout under way
  call,        \* call[c]
  lapsed,      \* lapsed[t]: since its page loaded, the session was over once
  faults, reloads

page == <<authed, form, mounted>>
vars == <<now, user, jar, page, refreshing, entry, call, lapsed, faults, reloads>>

Times   == 0..(MaxTime + AccessTtl + RefreshTtl)
Pair(t) == [access |-> t + AccessTtl, refresh |-> t + RefreshTtl]
NoPair  == [access |-> 0, refresh |-> 0]

\* What a request is: sent with a cookie, or answered. An answer that sets
\* cookies carries the time it was served.
None == [at |-> "none", stamp |-> 0]
Sent(cookie) == [at |-> "sent", stamp |-> cookie]

Refreshes  == [at : {"none", "sent", "ok", "no"}, stamp : Times]
Entries    == [kind : {"none", "me", "login", "logout"},
               at : {"none", "sent", "ok", "no"}, stamp : Times]
CallStates == [at : {"none", "sent", "ok", "no", "wait"}, stamp : Times, try : 1..2]

TypeOK ==
  /\ now \in 0..MaxTime /\ user \in BOOLEAN
  /\ jar \in [access : Times, refresh : Times]
  /\ authed \in [Tabs -> {"unknown", "in", "out"}]
  /\ form \in [Tabs -> {"none", "blank", "typed"}]
  /\ mounted \in [Tabs -> 0..1]
  /\ refreshing \in [Tabs -> Refreshes] /\ entry \in [Tabs -> Entries]
  /\ call \in [Calls -> CallStates]
  /\ lapsed \in [Tabs -> BOOLEAN]
  /\ faults \in 0..MaxFaults /\ reloads \in 0..MaxReloads

\* Mutant of Accepts: the row of the user is not loaded again.
AcceptsUnloaded(token) == token > now

\* current_user, and the same three checks in refresh: a token, not expired,
\* of a user whose row is still there.
Accepts(token) == token > now /\ user

Over == ~Accepts(jar.refresh)

NoEntry    == [kind |-> "none", at |-> "none", stamp |-> 0]
Boot(cookies) == [kind |-> "me", at |-> "sent", stamp |-> cookies.access]
Idle       == [at |-> "none", stamp |-> 0, try |-> 1]

Init ==
  /\ now = 0 /\ user = TRUE /\ jar = NoPair
  /\ authed = [t \in Tabs |-> "unknown"]
  /\ form = [t \in Tabs |-> "none"]
  /\ mounted = [t \in Tabs |-> 0]
  /\ refreshing = [t \in Tabs |-> None]
  /\ entry = [t \in Tabs |-> Boot(NoPair)]
  /\ call = [c \in Calls |-> Idle]
  /\ lapsed = [t \in Tabs |-> TRUE]
  /\ faults = 0 /\ reloads = 0

-----------------------------------------------------------------------------
\* History for the properties: a page loaded with a good session has none.
Reloaded(t) == authed'[t] = "unknown" /\ authed[t] # "unknown"
Remember == lapsed' = [t \in Tabs |-> Over' \/ (lapsed[t] /\ ~Reloaded(t))]

\* A tick of the clock, the lifetime of an access token being AccessTtl of
\* them. A refresh and a retry take seconds: no tick falls within them.
Prompt ==
  /\ \A t \in Tabs : refreshing[t].at = "none"
  /\ \A c \in Calls : call[c].try = 1

Advance ==
  /\ now < MaxTime /\ Prompt
  /\ now' = now + 1
  /\ UNCHANGED <<user, jar, page, refreshing, entry, call, faults, reloads>>
  /\ Remember

\* Deleting the row is the kill switch.
DeleteUser ==
  /\ user
  /\ user' = FALSE
  /\ UNCHANGED <<now, jar, page, refreshing, entry, call, faults, reloads>>
  /\ Remember

-----------------------------------------------------------------------------
(* The server. *)

ServeCall(c) ==
  /\ call[c].at = "sent"
  /\ call' = [call EXCEPT ![c] =
       [@ EXCEPT !.at = IF Accepts(call[c].stamp) THEN "ok" ELSE "no"]]
  /\ UNCHANGED <<now, user, jar, page, refreshing, entry, faults, reloads>>
  /\ Remember

\* Both tokens are rotated; the old ones stay good.
ServeRefresh(t) ==
  /\ refreshing[t].at = "sent"
  /\ refreshing' = [refreshing EXCEPT ![t] =
       IF Accepts(refreshing[t].stamp) THEN [at |-> "ok", stamp |-> now]
                                       ELSE [at |-> "no", stamp |-> 0]]
  /\ UNCHANGED <<now, user, jar, page, entry, call, faults, reloads>>
  /\ Remember

\* me checks the access cookie, login the password, logout nothing.
ServeEntry(t) ==
  /\ entry[t].at = "sent"
  /\ \E ok \in BOOLEAN :
       /\ entry[t].kind = "me" => ok = Accepts(entry[t].stamp)
       /\ entry[t].kind = "login" => (ok => user)
       /\ entry[t].kind = "logout" => ok
       /\ entry' = [entry EXCEPT ![t] =
            [@ EXCEPT !.at = IF ok THEN "ok" ELSE "no", !.stamp = IF ok THEN now ELSE 0]]
  /\ UNCHANGED <<now, user, jar, page, refreshing, call, faults, reloads>>
  /\ Remember

\* A request or its answer is lost, and fetch rejects. A view call throws with
\* no status to look at; a refresh or an entry has failed.
Fault == faults < MaxFaults /\ faults' = faults + 1

LoseCall(c) ==
  /\ call[c].at \in {"sent", "ok", "no"} /\ Fault
  /\ call' = [call EXCEPT ![c] = Idle]
  /\ UNCHANGED <<now, user, jar, page, refreshing, entry, reloads>>
  /\ Remember

LoseRefresh(t) ==
  /\ refreshing[t].at \in {"sent", "ok"} /\ Fault
  /\ refreshing' = [refreshing EXCEPT ![t] = [at |-> "no", stamp |-> 0]]
  /\ UNCHANGED <<now, user, jar, page, entry, call, reloads>>
  /\ Remember

LoseEntry(t) ==
  /\ entry[t].at \in {"sent", "ok"} /\ Fault
  /\ entry' = [entry EXCEPT ![t] = [@ EXCEPT !.at = "no", !.stamp = 0]]
  /\ UNCHANGED <<now, user, jar, page, refreshing, call, reloads>>
  /\ Remember

-----------------------------------------------------------------------------
(* A tab. *)

\* A view that is on the screen asks for something.
Send(c) ==
  /\ authed[TabOf[c]] = "in" /\ call[c].at = "none"
  /\ call' = [call EXCEPT ![c] = [at |-> "sent", stamp |-> jar.access, try |-> 1]]
  /\ UNCHANGED <<now, user, jar, page, refreshing, entry, faults, reloads>>
  /\ Remember

AnswerCall(c) ==
  /\ call[c].at = "ok"
  /\ call' = [call EXCEPT ![c] = Idle]
  /\ UNCHANGED <<now, user, jar, page, refreshing, entry, faults, reloads>>
  /\ Remember

\* The first 401 joins the refresh under way, or starts it.
Join(c) ==
  LET t == TabOf[c] IN
  /\ call[c].at = "no" /\ call[c].try = 1
  /\ call' = [call EXCEPT ![c] = [@ EXCEPT !.at = "wait", !.stamp = 0]]
  /\ refreshing' = [refreshing EXCEPT ![t] = IF @ = None THEN Sent(jar.refresh) ELSE @]
  /\ UNCHANGED <<now, user, jar, page, entry, faults, reloads>>
  /\ Remember

ShowLogin(t) ==
  /\ authed' = [authed EXCEPT ![t] = "out"]
  /\ form' = [form EXCEPT ![t] = "blank"]
  /\ UNCHANGED mounted

\* Mutant of LoggedOut: the form is drawn again for every late 401.
LoggedOutAgain(t) == ShowLogin(t)

\* The feedcast:logged-out listener: once per dead session.
LoggedOut(t) == IF authed[t] = "out" THEN UNCHANGED page ELSE ShowLogin(t)

\* Mutant of GiveUp: the first refusal ends the session.
GiveUpAtOnce(c) ==
  /\ call[c].at = "no"
  /\ call' = [call EXCEPT ![c] = Idle]
  /\ LoggedOut(TabOf[c])
  /\ UNCHANGED <<now, user, jar, refreshing, entry, faults, reloads>>
  /\ Remember

\* The retry was refused as well.
GiveUp(c) ==
  /\ call[c].at = "no" /\ call[c].try = 2
  /\ call' = [call EXCEPT ![c] = Idle]
  /\ LoggedOut(TabOf[c])
  /\ UNCHANGED <<now, user, jar, refreshing, entry, faults, reloads>>
  /\ Remember

\* Mutant of Waiting: only one of those that wait goes on.
WaitingFirst(t) ==
  LET all == {c \in Calls : TabOf[c] = t /\ call[c].at = "wait"}
  IN  IF all = {} THEN {} ELSE {CHOOSE c \in all : TRUE}

Waiting(t) == {c \in Calls : TabOf[c] = t /\ call[c].at = "wait"}

\* The refresh bought a new pair; all that waited for it are sent again.
Refreshed(t) ==
  /\ refreshing[t].at = "ok"
  /\ jar' = Pair(refreshing[t].stamp)
  /\ refreshing' = [refreshing EXCEPT ![t] = None]
  /\ call' = [c \in Calls |->
       IF c \in Waiting(t) THEN [at |-> "sent", stamp |-> jar'.access, try |-> 2]
                           ELSE call[c]]
  /\ UNCHANGED <<now, user, page, entry, faults, reloads>>
  /\ Remember

\* The refresh failed: the 401 of each that waited stands.
NotRefreshed(t) ==
  /\ refreshing[t].at = "no"
  /\ refreshing' = [refreshing EXCEPT ![t] = None]
  /\ call' = [c \in Calls |-> IF c \in Waiting(t) THEN Idle ELSE call[c]]
  /\ IF Waiting(t) = {} THEN UNCHANGED page ELSE LoggedOut(t)
  /\ UNCHANGED <<now, user, jar, entry, faults, reloads>>
  /\ Remember

\* Mutant of Mounts: the flag is not looked at.
MountsAgain(n) == n + 1

\* The picker is mounted once per page.
Mounts(n) == IF n = 0 THEN 1 ELSE n

OnLoggedIn(t) ==
  /\ authed' = [authed EXCEPT ![t] = "in"]
  /\ form' = [form EXCEPT ![t] = "none"]
  /\ mounted' = [mounted EXCEPT ![t] = Mounts(@)]

\* The editor types, submits, and logs out from a view.
Type(t) ==
  /\ form[t] = "blank"
  /\ form' = [form EXCEPT ![t] = "typed"]
  /\ UNCHANGED <<now, user, jar, authed, mounted, refreshing, entry, call, faults, reloads>>
  /\ Remember

Ask(t, kind) ==
  /\ entry[t] = NoEntry
  /\ entry' = [entry EXCEPT ![t] = [kind |-> kind, at |-> "sent", stamp |-> 0]]
  /\ UNCHANGED <<now, user, jar, page, refreshing, call, faults, reloads>>
  /\ Remember

Submit(t) == form[t] = "typed" /\ Ask(t, "login")
Logout(t) == authed[t] = "in" /\ Ask(t, "logout")

\* A page starts over with the cookies the browser has by then; what the old
\* one had under way is dropped.
Restart(t, cookies) ==
  /\ jar' = cookies
  /\ authed' = [authed EXCEPT ![t] = "unknown"]
  /\ form' = [form EXCEPT ![t] = "none"]
  /\ mounted' = [mounted EXCEPT ![t] = 0]
  /\ refreshing' = [refreshing EXCEPT ![t] = None]
  /\ entry' = [entry EXCEPT ![t] = Boot(cookies)]
  /\ call' = [c \in Calls |-> IF TabOf[c] = t THEN Idle ELSE call[c]]

\* Cookies of an answer the browser had but the page had not looked at.
Landed(t) ==
  (IF refreshing[t].at = "ok" THEN {Pair(refreshing[t].stamp)} ELSE {})
    \cup (IF entry[t].kind = "login" /\ entry[t].at = "ok"
          THEN {Pair(entry[t].stamp)} ELSE {})

EntryAnswered(t) ==
  /\ \/ /\ entry[t].kind \in {"me", "login"} /\ entry[t].at = "ok"
        /\ jar' = IF entry[t].kind = "login" THEN Pair(entry[t].stamp) ELSE jar
        /\ OnLoggedIn(t)
        /\ entry' = [entry EXCEPT ![t] = NoEntry]
        /\ UNCHANGED <<refreshing, call>>
     \/ /\ entry[t].kind = "me" /\ entry[t].at = "no"
        /\ ShowLogin(t)
        /\ entry' = [entry EXCEPT ![t] = NoEntry]
        /\ UNCHANGED <<jar, refreshing, call>>
     \/ /\ entry[t].kind = "login" /\ entry[t].at = "no"
        /\ entry' = [entry EXCEPT ![t] = NoEntry]
        /\ UNCHANGED <<jar, page, refreshing, call>>
     \/ /\ entry[t].kind = "logout" /\ entry[t].at = "ok"
        /\ \E cookies \in {NoPair} \cup Landed(t) : Restart(t, cookies)
     \/ /\ entry[t].kind = "logout" /\ entry[t].at = "no"
        /\ Restart(t, jar)
  /\ UNCHANGED <<now, user, faults, reloads>>
  /\ Remember

Reload(t) ==
  /\ reloads < MaxReloads
  /\ reloads' = reloads + 1
  /\ \E cookies \in {jar} \cup Landed(t) : Restart(t, cookies)
  /\ UNCHANGED <<now, user, faults>>
  /\ Remember

-----------------------------------------------------------------------------
CallStep(c) == ServeCall(c) \/ AnswerCall(c) \/ Join(c) \/ GiveUp(c)
RefreshStep(t) == ServeRefresh(t) \/ Refreshed(t) \/ NotRefreshed(t)
EntryStep(t) == ServeEntry(t) \/ EntryAnswered(t)

Next ==
  \/ Advance \/ DeleteUser
  \/ \E c \in Calls : Send(c) \/ CallStep(c) \/ LoseCall(c)
  \/ \E t \in Tabs : LoseRefresh(t) \/ LoseEntry(t)
  \/ \E t \in Tabs : RefreshStep(t) \/ EntryStep(t)
  \/ \E t \in Tabs : Type(t) \/ Submit(t) \/ Logout(t) \/ Reload(t)

Spec == Init /\ [][Next]_vars

\* The server answers and the page takes answers. The editor, the clock, the
\* network's failures and the kill switch owe nothing.
FairSpec ==
  /\ Spec
  /\ \A c \in Calls : WF_vars(CallStep(c))
  /\ \A t \in Tabs : WF_vars(RefreshStep(t)) /\ WF_vars(EntryStep(t))

-----------------------------------------------------------------------------
\* A tab whose page was loaded with a session that has been good ever since is
\* not sent to the login by an expired access cookie, however many of its calls
\* are refused, join a refresh late, or race another tab's (api.js:33-37).
KeptWhileLive ==
  [][\A t \in Tabs :
       authed[t] = "in" /\ authed'[t] = "out" => lapsed[t] \/ faults > 0]_vars

\* A login form that is being filled in is not drawn again by answers that
\* come late (main.js:139-141).
TypingKept ==
  [][\A t \in Tabs : form[t] = "typed" => ~(form'[t] = "blank" /\ authed'[t] = "out")]_vars

\* Every call of a view ends: none waits for a refresh that is gone.
CallsEnd == \A c \in Calls : call[c].at # "none" ~> call[c].at = "none"

\* Deleting the row cuts a tab off at its next call, whatever tokens it has and
\* whatever refresh is under way (deps.py:24-26).
CutOff ==
  \A c \in Calls :
    ~user /\ call[c].at = "sent" ~> authed[TabOf[c]] # "in" \/ faults > 0

\* The refresh cookie buys a new pair whenever a request comes back 401
\* (api.js:33-34): nobody sees the login while the session is good.
LoginOnlyWhenOver ==
  \A t \in Tabs : authed[t] = "out" => lapsed[t] \/ faults > 0

\* A browser that logged out stays logged out until someone logs in
\* (main.js:130-131).
LogoutSticks ==
  [][jar = NoPair /\ jar' # NoPair =>
       \E t \in Tabs : entry[t].kind = "login"]_vars
=============================================================================
