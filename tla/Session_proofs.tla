---------------------------- MODULE Session_proofs ----------------------------
(***************************************************************************)
(* A session that is good is not lost to a race of refused calls, for any  *)
(* number of tabs, calls and lifetimes.                                    *)
(***************************************************************************)
EXTENDS Session, TLAPS

\* An answered refresh or login was served at a time the clock has reached, a
\* refresh at this very tick; a page that still asks /auth/me shows no view.
StampsOK ==
  \A t \in Tabs :
    /\ refreshing[t].at = "ok" => refreshing[t].stamp = now
    /\ entry[t].at = "ok" => entry[t].stamp <= MaxTime
    /\ entry[t].kind = "me" => authed[t] # "in"

\* While the session of a page is good, its refresh is not refused, and a
\* retry carries an access token that is.
RetriesGood(t) ==
  /\ refreshing[t].at # "no"
  /\ refreshing[t].at = "sent" => refreshing[t].stamp > now
  /\ \A c \in Calls : TabOf[c] = t /\ call[c].try = 2 =>
       call[c].at = "ok" \/ (call[c].at = "sent" /\ call[c].stamp > now)

LiveOK ==
  \A t \in Tabs : ~lapsed[t] => ~Over /\ (faults = 0 => RetriesGood(t))

IInv == TypeOK /\ StampsOK /\ LiveOK

LEMMA TimesFacts ==
  /\ 0 \in Times
  /\ 0..MaxTime \subseteq Times
  /\ NoPair \in [access : Times, refresh : Times]
  /\ \A s \in 0..MaxTime : Pair(s) \in [access : Times, refresh : Times]
                             /\ Pair(s).access = s + AccessTtl
BY SessionAssumption DEF Times, NoPair, Pair

LEMMA InitInv == Init => IInv
<1> SUFFICES ASSUME Init PROVE IInv
  OBVIOUS
<1>1. TypeOK
  BY TimesFacts, SessionAssumption
     DEF Init, TypeOK, None, Boot, NoPair, Idle, Refreshes, Entries, CallStates
<1>2. StampsOK
  BY DEF Init, StampsOK, None, Boot, NoPair
<1>3. LiveOK
  BY DEF Init, LiveOK
<1> QED
  BY <1>1, <1>2, <1>3 DEF IInv

\* The cookies an answer left behind are cookies.
LEMMA LandedType ==
  ASSUME TypeOK, StampsOK, NEW t \in Tabs, NEW p \in Landed(t)
  PROVE  p \in [access : Times, refresh : Times]
<1>1. refreshing[t].at = "ok" => refreshing[t].stamp \in 0..MaxTime
  BY DEF TypeOK, StampsOK
<1>2. entry[t].at = "ok" => entry[t].stamp \in 0..MaxTime
  BY SessionAssumption DEF TypeOK, StampsOK, Entries, Times
<1> QED
  BY <1>1, <1>2, TimesFacts DEF Landed

\* A page that starts over.
LEMMA RestartType ==
  ASSUME TypeOK, StampsOK, NEW t \in Tabs,
         NEW p \in [access : Times, refresh : Times], Restart(t, p),
         UNCHANGED <<now, user, faults>>, reloads' \in 0..MaxReloads, Remember
  PROVE  TypeOK' /\ StampsOK'
<1>1. lapsed' \in [Tabs -> BOOLEAN]
  BY DEF Remember, Over, Accepts, TypeOK
<1>2. Boot(p) \in Entries
  BY DEF Boot, Entries
<1>3. None \in Refreshes
  BY TimesFacts DEF None, Refreshes
<1>4. Idle \in CallStates
  BY TimesFacts DEF Idle, CallStates
<1>5. TypeOK'
  <2>1. jar' \in [access : Times, refresh : Times] /\ user' \in BOOLEAN
          /\ now' \in 0..MaxTime /\ faults' \in 0..MaxFaults
    BY DEF Restart, TypeOK
  <2>2. /\ authed' \in [Tabs -> {"unknown", "in", "out"}]
        /\ form' \in [Tabs -> {"none", "blank", "typed"}]
        /\ mounted' \in [Tabs -> 0..1]
    BY DEF Restart, TypeOK
  <2>3. refreshing' \in [Tabs -> Refreshes]
    BY <1>3 DEF Restart, TypeOK
  <2>4. entry' \in [Tabs -> Entries]
    BY <1>2 DEF Restart, TypeOK
  <2>5. call' \in [Calls -> CallStates]
    BY <1>4 DEF Restart, TypeOK
  <2> QED
    BY <1>1, <2>1, <2>2, <2>3, <2>4, <2>5 DEF TypeOK
<1>6. ASSUME NEW u \in Tabs PROVE
        /\ refreshing'[u].at = "ok" => refreshing'[u].stamp = now'
        /\ entry'[u].at = "ok" => entry'[u].stamp <= MaxTime
        /\ entry'[u].kind = "me" => authed'[u] # "in"
  <2>1. CASE u = t
    BY <2>1 DEF Restart, TypeOK, None, Boot
  <2>2. CASE u # t
    BY <2>2 DEF Restart, TypeOK, StampsOK
  <2> QED
    BY <2>1, <2>2
<1> QED
  BY <1>5, <1>6 DEF StampsOK

\* Drawing the login, or leaving the page as it is, puts no tab in a view.
LEMMA LoginPage ==
  ASSUME TypeOK, NEW t \in Tabs, UNCHANGED page \/ ShowLogin(t)
  PROVE  /\ authed' \in [Tabs -> {"unknown", "in", "out"}]
         /\ form' \in [Tabs -> {"none", "blank", "typed"}]
         /\ mounted' \in [Tabs -> 0..1]
         /\ \A u \in Tabs : authed'[u] = "in" => authed[u] = "in"
BY DEF ShowLogin, page, TypeOK

\* Types and stamps survive every step.
LEMMA TypeStep ==
  ASSUME TypeOK, StampsOK, Next
  PROVE  TypeOK' /\ StampsOK'
<1>0. Remember => lapsed' \in [Tabs -> BOOLEAN]
  BY DEF Remember, Over
<1>a. 0 \in Times /\ now \in Times /\ now \in Nat /\ now <= MaxTime
  BY TimesFacts, SessionAssumption DEF TypeOK
<1>b. Idle \in CallStates /\ None \in Refreshes /\ NoEntry \in Entries
  BY <1>a DEF Idle, None, NoEntry, CallStates, Refreshes, Entries
<1>1. CASE Advance
  BY <1>0, <1>1, SessionAssumption DEF Advance, Prompt, page, TypeOK, StampsOK
<1>2. CASE DeleteUser
  BY <1>0, <1>2 DEF DeleteUser, page, TypeOK, StampsOK
<1>3. ASSUME NEW c \in Calls,
             Send(c) \/ ServeCall(c) \/ AnswerCall(c) \/ LoseCall(c)
      PROVE  TypeOK' /\ StampsOK'
  <2>1. call[c] \in CallStates /\ jar.access \in Times
    BY DEF TypeOK
  <2>2. \E new \in CallStates : call' = [call EXCEPT ![c] = new]
    <3>1. CASE Send(c)
      <4> DEFINE new == [at |-> "sent", stamp |-> jar.access, try |-> 1]
      <4>1. new \in CallStates
        BY <2>1 DEF CallStates
      <4> QED
        BY <3>1, <4>1 DEF Send
    <3>2. CASE ServeCall(c)
      BY <2>1, <3>2 DEF ServeCall, CallStates
    <3>3. CASE AnswerCall(c) \/ LoseCall(c)
      BY <1>b, <3>3 DEF AnswerCall, LoseCall
    <3> QED
      BY <1>3, <3>1, <3>2, <3>3
  <2>3. call' \in [Calls -> CallStates]
    BY <2>2 DEF TypeOK
  <2>4. UNCHANGED <<now, user, jar, page, refreshing, entry, reloads>> /\ Remember
    BY <1>3 DEF Send, ServeCall, AnswerCall, LoseCall
  <2>5. faults' \in 0..MaxFaults
    BY <1>3, SessionAssumption DEF Send, ServeCall, AnswerCall, LoseCall, Fault, TypeOK
  <2> QED
    BY <1>0, <2>3, <2>4, <2>5 DEF page, TypeOK, StampsOK
<1>4. ASSUME NEW t \in Tabs, LoseRefresh(t) PROVE TypeOK' /\ StampsOK'
  <2>1. [at |-> "no", stamp |-> 0] \in Refreshes
    BY <1>a DEF Refreshes
  <2>2. refreshing' \in [Tabs -> Refreshes]
    BY <1>4, <2>1 DEF LoseRefresh, TypeOK
  <2>3. faults' \in 0..MaxFaults
    BY <1>4, SessionAssumption DEF LoseRefresh, Fault, TypeOK
  <2> QED
    BY <1>0, <1>4, <2>2, <2>3 DEF LoseRefresh, page, TypeOK, StampsOK
<1>5. ASSUME NEW t \in Tabs, LoseEntry(t) PROVE TypeOK' /\ StampsOK'
  <2>1. PICK new : /\ entry' = [entry EXCEPT ![t] = new]
                   /\ new = [entry[t] EXCEPT !.at = "no", !.stamp = 0]
    BY <1>5 DEF LoseEntry, TypeOK
  <2>2. new \in Entries /\ new.at = "no" /\ new.kind = entry[t].kind
    <3>1. entry[t] \in Entries
      BY DEF TypeOK
    <3> QED
      BY <1>a, <2>1, <3>1 DEF Entries
  <2>3. entry' \in [Tabs -> Entries]
    BY <2>1, <2>2 DEF TypeOK
  <2>4. faults' \in 0..MaxFaults
    BY <1>5, SessionAssumption DEF LoseEntry, Fault, TypeOK
  <2> QED
    BY <1>0, <1>5, <2>1, <2>2, <2>3, <2>4 DEF LoseEntry, page, TypeOK, StampsOK
<1>6. ASSUME NEW c \in Calls, Join(c) PROVE TypeOK' /\ StampsOK'
  <2>1. call[c] \in CallStates /\ Sent(jar.refresh) \in Refreshes
    BY DEF TypeOK, Sent, Refreshes
  <2>2. [call[c] EXCEPT !.at = "wait", !.stamp = 0] \in CallStates
    BY <1>a, <2>1 DEF CallStates
  <2>3. call' \in [Calls -> CallStates]
    BY <1>6, <2>2 DEF Join, TypeOK
  <2>4. /\ refreshing' \in [Tabs -> Refreshes]
        /\ \A t \in Tabs : refreshing'[t] = refreshing[t] \/ refreshing'[t] = Sent(jar.refresh)
    BY <1>6, <2>1 DEF Join, TypeOK
  <2> QED
    BY <1>0, <1>6, <2>3, <2>4 DEF Join, page, TypeOK, StampsOK, Sent
<1>7. ASSUME NEW c \in Calls, GiveUp(c) PROVE TypeOK' /\ StampsOK'
  <2>1. call' \in [Calls -> CallStates]
    BY <1>7, <1>b DEF GiveUp, TypeOK
  <2>2. TabOf[c] \in Tabs /\ (UNCHANGED page \/ ShowLogin(TabOf[c]))
    BY <1>7, SessionAssumption DEF GiveUp, LoggedOut
  <2> QED
    BY <1>0, <1>7, <2>1, <2>2, LoginPage DEF GiveUp, TypeOK, StampsOK
<1>8. ASSUME NEW t \in Tabs, ServeRefresh(t) PROVE TypeOK' /\ StampsOK'
  <2>1. PICK new \in Refreshes : /\ refreshing' = [refreshing EXCEPT ![t] = new]
                                 /\ new.at = "ok" => new.stamp = now
    <3> DEFINE r == IF Accepts(refreshing[t].stamp) THEN [at |-> "ok", stamp |-> now]
                                                     ELSE [at |-> "no", stamp |-> 0]
    <3>1. r \in Refreshes /\ (r.at = "ok" => r.stamp = now)
      BY <1>a DEF Refreshes
    <3>2. refreshing' = [refreshing EXCEPT ![t] = r]
      BY <1>8 DEF ServeRefresh
    <3> QED
      BY <3>1, <3>2
  <2>2. refreshing' \in [Tabs -> Refreshes]
    BY <2>1 DEF TypeOK
  <2> QED
    BY <1>0, <1>8, <2>1, <2>2 DEF ServeRefresh, page, TypeOK, StampsOK
<1>9. ASSUME NEW t \in Tabs, Refreshed(t) PROVE TypeOK' /\ StampsOK'
  <2>1. refreshing[t].stamp \in 0..MaxTime
    BY <1>9 DEF Refreshed, TypeOK, StampsOK
  <2>2. jar' \in [access : Times, refresh : Times]
    BY <1>9, <2>1, TimesFacts DEF Refreshed
  <2>3. [at |-> "sent", stamp |-> jar'.access, try |-> 2] \in CallStates
    BY <2>2 DEF CallStates
  <2>4. call' \in [Calls -> CallStates]
    BY <1>9, <2>3 DEF Refreshed, TypeOK
  <2>5. refreshing' = [refreshing EXCEPT ![t] = None]
    BY <1>9 DEF Refreshed
  <2>6. refreshing' \in [Tabs -> Refreshes]
    BY <1>b, <2>5 DEF TypeOK
  <2> QED
    BY <1>0, <1>9, <2>2, <2>4, <2>5, <2>6 DEF Refreshed, None, page, TypeOK, StampsOK
<1>10. ASSUME NEW t \in Tabs, NotRefreshed(t) PROVE TypeOK' /\ StampsOK'
  <2>1. call' \in [Calls -> CallStates]
    BY <1>10, <1>b DEF NotRefreshed, TypeOK
  <2>2. refreshing' = [refreshing EXCEPT ![t] = None]
    BY <1>10 DEF NotRefreshed
  <2>3. refreshing' \in [Tabs -> Refreshes]
    BY <1>b, <2>2 DEF TypeOK
  <2>4. UNCHANGED page \/ ShowLogin(t)
    BY <1>10 DEF NotRefreshed, LoggedOut
  <2> QED
    BY <1>0, <1>10, <2>1, <2>2, <2>3, <2>4, LoginPage
       DEF NotRefreshed, None, TypeOK, StampsOK
<1>11. ASSUME NEW t \in Tabs, ServeEntry(t) PROVE TypeOK' /\ StampsOK'
  <2>1. PICK new : /\ entry' = [entry EXCEPT ![t] = new]
                   /\ \E ok \in BOOLEAN :
                        new = [entry[t] EXCEPT !.at = IF ok THEN "ok" ELSE "no",
                                               !.stamp = IF ok THEN now ELSE 0]
    BY <1>11 DEF ServeEntry, TypeOK
  <2>2. new \in Entries /\ new.kind = entry[t].kind /\ (new.at = "ok" => new.stamp = now)
    <3>1. entry[t] \in Entries
      BY DEF TypeOK
    <3>2. \/ new = [entry[t] EXCEPT !.at = "ok", !.stamp = now]
          \/ new = [entry[t] EXCEPT !.at = "no", !.stamp = 0]
      BY <2>1
    <3> QED
      BY <1>a, <3>1, <3>2 DEF Entries
  <2>3. entry' \in [Tabs -> Entries]
    BY <2>1, <2>2 DEF TypeOK
  <2> QED
    BY <1>0, <1>11, <1>a, <2>1, <2>2, <2>3 DEF ServeEntry, page, TypeOK, StampsOK
<1>12. ASSUME NEW t \in Tabs, EntryAnswered(t) PROVE TypeOK' /\ StampsOK'
  <2>1. UNCHANGED <<now, user, faults, reloads>> /\ Remember
    BY <1>12 DEF EntryAnswered
  <2>2. ASSUME entry' = [entry EXCEPT ![t] = NoEntry], UNCHANGED <<refreshing, call>>,
               jar' \in [access : Times, refresh : Times],
               OnLoggedIn(t) \/ ShowLogin(t) \/ UNCHANGED page
        PROVE  TypeOK' /\ StampsOK'
    <3>1. entry' \in [Tabs -> Entries]
      BY <1>b, <2>2 DEF TypeOK
    <3>2. CASE OnLoggedIn(t)
      BY <1>0, <2>1, <2>2, <3>1, <3>2 DEF OnLoggedIn, Mounts, NoEntry, TypeOK, StampsOK
    <3>3. CASE ShowLogin(t) \/ UNCHANGED page
      BY <1>0, <2>1, <2>2, <3>1, <3>3, LoginPage DEF NoEntry, TypeOK, StampsOK
    <3> QED
      BY <2>2, <3>2, <3>3
  <2>3. entry[t].at = "ok" => entry[t].stamp \in 0..MaxTime
    BY SessionAssumption DEF TypeOK, StampsOK, Entries, Times
  <2>4. entry[t].at = "ok" => Pair(entry[t].stamp) \in [access : Times, refresh : Times]
    BY <2>3, TimesFacts
  <2>5. CASE \E cookies \in {NoPair} \cup Landed(t) : Restart(t, cookies)
    <3>1. reloads' \in 0..MaxReloads
      BY <2>1 DEF TypeOK
    <3> QED
      BY <2>1, <2>5, <3>1, LandedType, RestartType, TimesFacts
  <2>6. CASE Restart(t, jar)
    BY <2>1, <2>6, RestartType DEF TypeOK
  <2> QED
    BY <1>12, <2>2, <2>4, <2>5, <2>6 DEF EntryAnswered, TypeOK
<1>13. ASSUME NEW t \in Tabs, Type(t) PROVE TypeOK' /\ StampsOK'
  BY <1>0, <1>13 DEF Type, TypeOK, StampsOK
<1>14. ASSUME NEW t \in Tabs, Submit(t) \/ Logout(t) PROVE TypeOK' /\ StampsOK'
  <2>1. PICK kind \in {"login", "logout"} : Ask(t, kind)
    BY <1>14 DEF Submit, Logout
  <2>2. [kind |-> kind, at |-> "sent", stamp |-> 0] \in Entries
    BY <1>a DEF Entries
  <2> QED
    BY <1>0, <2>1, <2>2 DEF Ask, page, TypeOK, StampsOK
<1>15. ASSUME NEW t \in Tabs, Reload(t) PROVE TypeOK' /\ StampsOK'
  <2>1. PICK p \in {jar} \cup Landed(t) : Restart(t, p)
    BY <1>15 DEF Reload
  <2>2. p \in [access : Times, refresh : Times]
    BY <2>1, LandedType DEF TypeOK
  <2>3. reloads' \in 0..MaxReloads
    BY <1>15, SessionAssumption DEF Reload, TypeOK
  <2> QED
    BY <1>15, <2>1, <2>2, <2>3, RestartType DEF Reload
<1> QED
  BY <1>1, <1>2, <1>3, <1>4, <1>5, <1>6, <1>7, <1>8, <1>9, <1>10, <1>11, <1>12,
     <1>13, <1>14, <1>15 DEF Next, CallStep, RefreshStep, EntryStep

THEOREM TypeCorrect == Spec => [](TypeOK /\ StampsOK)
<1>1. Init => TypeOK /\ StampsOK
  BY InitInv DEF IInv
<1>2. TypeOK /\ StampsOK /\ UNCHANGED vars => TypeOK' /\ StampsOK'
  BY DEF TypeOK, StampsOK, vars, page
<1>3. TypeOK /\ StampsOK /\ [Next]_vars => TypeOK' /\ StampsOK'
  BY <1>2, TypeStep
<1> QED
  BY <1>1, <1>3, PTL DEF Spec

-----------------------------------------------------------------------------
\* A page that starts over has nothing to be refused.
LEMMA RestartLive ==
  ASSUME TypeOK, NEW t \in Tabs, NEW p, Restart(t, p)
  PROVE  RetriesGood(t)'
BY DEF Restart, RetriesGood, TypeOK, None, Idle

\* A step that leaves a tab's refresh and calls alone, or ends some of them.
LEMMA QuietLive ==
  ASSUME TypeOK, NEW t \in Tabs, RetriesGood(t), now' = now,
         refreshing'[t] = refreshing[t] \/ refreshing'[t] = None,
         \A c \in Calls : TabOf[c] = t => call'[c] = call[c] \/ call'[c].try = 1
  PROVE  RetriesGood(t)'
BY DEF RetriesGood, None

\* Only a page that starts over forgets that its session was over once.
LEMMA ReloadedRestarts ==
  ASSUME TypeOK, Next, NEW t \in Tabs, Reloaded(t)
  PROVE  \E p : Restart(t, p)
<1>1. authed'[t] # authed[t] /\ authed'[t] = "unknown"
  BY DEF Reloaded
<1>2. \A u \in Tabs : ShowLogin(u) \/ OnLoggedIn(u) \/ UNCHANGED page => FALSE
  BY <1>1 DEF ShowLogin, OnLoggedIn, page, TypeOK
<1>3. ASSUME NEW u \in Tabs, NEW p, Restart(u, p) PROVE \E q : Restart(t, q)
  <2>1. u = t
    BY <1>1, <1>3 DEF Restart, TypeOK
  <2> QED
    BY <1>3, <2>1
<1>4. ASSUME NEW c \in Calls PROVE ~(Send(c) \/ CallStep(c) \/ LoseCall(c))
  BY <1>2, SessionAssumption
     DEF Send, CallStep, ServeCall, AnswerCall, Join, GiveUp, LoggedOut, LoseCall
<1>5. ~(Advance \/ DeleteUser)
  BY <1>2 DEF Advance, DeleteUser
<1>6. ASSUME NEW u \in Tabs
      PROVE  ~(LoseRefresh(u) \/ LoseEntry(u) \/ RefreshStep(u) \/ ServeEntry(u)
                 \/ Type(u) \/ Submit(u) \/ Logout(u))
  BY <1>1, <1>2 DEF LoseRefresh, LoseEntry, RefreshStep, ServeRefresh, Refreshed,
     NotRefreshed, LoggedOut, ServeEntry, Type, Submit, Logout, Ask
<1>7. ASSUME NEW u \in Tabs, EntryAnswered(u) \/ Reload(u) PROVE \E p : Restart(u, p)
  BY <1>2, <1>7 DEF EntryAnswered, Reload
<1> QED
  BY <1>3, <1>4, <1>5, <1>6, <1>7 DEF Next, EntryStep

LEMMA LiveStep ==
  ASSUME TypeOK, StampsOK, LiveOK, Next, NEW t \in Tabs,
         ~lapsed[t], ~Over', faults' = 0, faults = 0
  PROVE  RetriesGood(t)'
<1>0. jar.refresh > now /\ user /\ RetriesGood(t) /\ now \in Nat
  BY SessionAssumption DEF LiveOK, Over, Accepts, TypeOK
<1>1. CASE Advance
  BY <1>1 DEF Advance, Prompt, RetriesGood, TypeOK
<1>2. CASE DeleteUser
  BY <1>0, <1>2, QuietLive DEF DeleteUser
<1>3. ASSUME NEW c \in Calls, Send(c) \/ AnswerCall(c) \/ GiveUp(c)
      PROVE  RetriesGood(t)'
  <2>1. \A d \in Calls : call'[d] = call[d] \/ call'[d].try = 1
    BY <1>3 DEF Send, AnswerCall, GiveUp, Idle, TypeOK
  <2>2. now' = now /\ refreshing' = refreshing
    BY <1>3 DEF Send, AnswerCall, GiveUp
  <2> QED
    BY <1>0, <2>1, <2>2, QuietLive
<1>4. ASSUME NEW c \in Calls, ServeCall(c) PROVE RetriesGood(t)'
  <2>1. /\ now' = now /\ refreshing' = refreshing
        /\ \A d \in Calls : d # c => call'[d] = call[d]
    BY <1>4 DEF ServeCall, TypeOK
  <2>2. /\ call[c] \in CallStates /\ call[c].at = "sent"
        /\ call'[c] = [call[c] EXCEPT !.at = IF Accepts(call[c].stamp) THEN "ok" ELSE "no"]
    BY <1>4 DEF ServeCall, TypeOK
  <2>3. TabOf[c] = t /\ call'[c].try = 2 => call'[c].at = "ok"
    BY <1>0, <2>2 DEF RetriesGood, Accepts, CallStates
  <2> QED
    BY <1>0, <2>1, <2>3 DEF RetriesGood
<1>5. ASSUME NEW c \in Calls, Join(c) PROVE RetriesGood(t)'
  <2>1. now' = now /\ \A d \in Calls : call'[d] = call[d] \/ call'[d].try = 1
    <3>1. call[c] \in CallStates /\ call[c].try = 1
      BY <1>5 DEF Join, TypeOK
    <3>2. [call[c] EXCEPT !.at = "wait", !.stamp = 0].try = 1
      BY <3>1 DEF CallStates
    <3> QED
      BY <1>5, <3>2 DEF Join, TypeOK
  <2>2. refreshing'[t] = refreshing[t] \/ refreshing'[t] = Sent(jar.refresh)
    BY <1>5 DEF Join, TypeOK
  <2> QED
    BY <1>0, <2>1, <2>2 DEF RetriesGood, Sent
<1>6. ASSUME NEW c \in Calls PROVE ~LoseCall(c)
  BY DEF LoseCall, Fault
<1>7. ASSUME NEW u \in Tabs PROVE ~LoseRefresh(u) /\ ~LoseEntry(u)
  BY DEF LoseRefresh, LoseEntry, Fault
<1>8. ASSUME NEW u \in Tabs, ServeRefresh(u) PROVE RetriesGood(t)'
  <2>1. now' = now /\ call' = call
    BY <1>8 DEF ServeRefresh
  <2>2. refreshing'[t] = refreshing[t] \/ refreshing'[t] = [at |-> "ok", stamp |-> now]
    BY <1>0, <1>8 DEF ServeRefresh, RetriesGood, Accepts, TypeOK
  <2> QED
    BY <1>0, <2>1, <2>2 DEF RetriesGood
<1>9. ASSUME NEW u \in Tabs, Refreshed(u) PROVE RetriesGood(t)'
  <2>1. now' = now /\ (refreshing'[t] = refreshing[t] \/ refreshing'[t] = None)
    BY <1>9 DEF Refreshed, TypeOK
  <2>2. jar'.access > now
    <3>1. refreshing[u].stamp = now
      BY <1>9 DEF Refreshed, StampsOK
    <3> QED
      BY <1>0, <1>9, <3>1, SessionAssumption DEF Refreshed, Pair
  <2>3. ASSUME NEW d \in Calls
        PROVE  call'[d] = call[d] \/ (call'[d].at = "sent" /\ call'[d].stamp > now)
    BY <1>9, <2>2 DEF Refreshed
  <2> QED
    BY <1>0, <2>1, <2>3 DEF RetriesGood, None
<1>10. ASSUME NEW u \in Tabs, NotRefreshed(u) PROVE RetriesGood(t)'
  <2>1. now' = now /\ (refreshing'[t] = refreshing[t] \/ refreshing'[t] = None)
    BY <1>10 DEF NotRefreshed, TypeOK
  <2>2. \A d \in Calls : call'[d] = call[d] \/ call'[d].try = 1
    BY <1>10 DEF NotRefreshed, Idle
  <2> QED
    BY <1>0, <2>1, <2>2, QuietLive
<1>11. ASSUME NEW u \in Tabs, NEW p, Restart(u, p), now' = now PROVE RetriesGood(t)'
  <2>1. CASE u = t
    BY <1>11, <2>1, RestartLive
  <2>2. CASE u # t
    <3>1. refreshing'[t] = refreshing[t]
      BY <1>11, <2>2 DEF Restart, TypeOK
    <3>2. \A d \in Calls : TabOf[d] = t => call'[d] = call[d]
      BY <1>11, <2>2 DEF Restart
    <3> QED
      BY <1>0, <1>11, <3>1, <3>2, QuietLive
  <2> QED
    BY <2>1, <2>2
<1>12. ASSUME NEW u \in Tabs, EntryAnswered(u) \/ Reload(u) PROVE RetriesGood(t)'
  <2>1. now' = now
    BY <1>12 DEF EntryAnswered, Reload
  <2>2. UNCHANGED <<refreshing, call>> \/ \E p : Restart(u, p)
    BY <1>12 DEF EntryAnswered, Reload
  <2> QED
    BY <1>0, <1>11, <2>1, <2>2, QuietLive
<1>13. ASSUME NEW u \in Tabs, ServeEntry(u) \/ Type(u) \/ Submit(u) \/ Logout(u)
       PROVE  RetriesGood(t)'
  <2>1. UNCHANGED <<now, refreshing, call>>
    BY <1>13 DEF ServeEntry, Type, Submit, Logout, Ask
  <2> QED
    BY <1>0, <2>1, QuietLive
<1> QED
  BY <1>1, <1>2, <1>3, <1>4, <1>5, <1>6, <1>7, <1>8, <1>9, <1>10, <1>12, <1>13
     DEF Next, CallStep, RefreshStep, EntryStep

\* The invariant survives every step.
LEMMA InvStep ==
  ASSUME IInv, [Next]_vars
  PROVE  IInv'
<1>1. CASE UNCHANGED vars
  BY <1>1 DEF IInv, TypeOK, StampsOK, LiveOK, RetriesGood, Over, Accepts, vars, page
<1>2. CASE Next
  <2>1. TypeOK' /\ StampsOK'
    BY <1>2, TypeStep DEF IInv
  <2>2. ASSUME NEW t \in Tabs, ~lapsed'[t]
        PROVE  ~Over' /\ (faults' = 0 => RetriesGood(t)')
    <3>1. Remember
      BY <1>2 DEF Next, CallStep, RefreshStep, EntryStep, Advance, DeleteUser, Send,
         ServeCall, AnswerCall, Join, GiveUp, LoseCall, LoseRefresh, LoseEntry,
         ServeRefresh, Refreshed, NotRefreshed, ServeEntry, EntryAnswered, Type, Submit,
         Logout, Ask, Reload
    <3>2. ~Over' /\ (~lapsed[t] \/ Reloaded(t))
      BY <2>2, <3>1 DEF Remember
    <3>3. faults' = 0 => faults = 0
      <4>1. faults' = faults \/ Fault
        BY <1>2 DEF Next, CallStep, RefreshStep, EntryStep, Advance, DeleteUser,
           Send, ServeCall, AnswerCall, Join, GiveUp, LoseCall, LoseRefresh, LoseEntry,
           ServeRefresh, Refreshed, NotRefreshed, ServeEntry, EntryAnswered, Type,
           Submit, Logout, Ask, Reload
      <4>2. faults \in Nat
        BY SessionAssumption DEF IInv, TypeOK
      <4> QED
        BY <4>1, <4>2 DEF Fault
    <3>4. CASE Reloaded(t)
      BY <1>2, <3>2, <3>4, ReloadedRestarts, RestartLive DEF IInv
    <3>5. CASE ~lapsed[t]
      BY <1>2, <3>2, <3>3, <3>5, LiveStep DEF IInv
    <3> QED
      BY <3>2, <3>4, <3>5
  <2> QED
    BY <2>1, <2>2 DEF IInv, LiveOK
<1> QED
  BY <1>1, <1>2

\* A page loaded with a session that stayed good is not sent to the login,
\* whatever its calls, the other tabs and the clock do.
THEOREM KeptWhileLiveHolds == Spec => KeptWhileLive
<1>1. ASSUME IInv, Next, NEW t \in Tabs, authed[t] = "in", authed'[t] = "out",
             ~lapsed[t], ~(faults > 0)
      PROVE  FALSE
  <2>1. RetriesGood(t) /\ TypeOK /\ StampsOK
    BY <1>1 DEF IInv, LiveOK, TypeOK
  <2>2. ~UNCHANGED page /\ \A u \in Tabs : ShowLogin(u) \/ OnLoggedIn(u) => ShowLogin(t) /\ u = t
    BY <1>1, <2>1 DEF ShowLogin, OnLoggedIn, page, TypeOK
  <2>3. ASSUME NEW c \in Calls PROVE ~(Send(c) \/ CallStep(c) \/ LoseCall(c))
    <3>1. ~GiveUp(c)
      BY <2>1, <2>2, SessionAssumption DEF GiveUp, LoggedOut, RetriesGood
    <3> QED
      BY <2>2, <3>1 DEF Send, CallStep, ServeCall, AnswerCall, Join, LoseCall
  <2>4. ~(Advance \/ DeleteUser)
    BY <2>2 DEF Advance, DeleteUser
  <2>5. ASSUME NEW u \in Tabs PROVE ~RefreshStep(u)
    BY <2>1, <2>2 DEF RefreshStep, ServeRefresh, Refreshed, NotRefreshed, LoggedOut, RetriesGood
  <2>6. ASSUME NEW u \in Tabs, NEW p PROVE ~Restart(u, p)
    BY <1>1, <2>1 DEF Restart, TypeOK
  <2>7. ASSUME NEW u \in Tabs PROVE ~(EntryAnswered(u) \/ Reload(u))
    <3>1. ~(entry[u].kind = "me" /\ ShowLogin(u))
      BY <1>1, <2>1, <2>2 DEF StampsOK
    <3>2. ~OnLoggedIn(u)
      BY <1>1, <2>1 DEF OnLoggedIn, TypeOK
    <3> QED
      BY <2>2, <2>6, <3>1, <3>2 DEF EntryAnswered, Reload
  <2>8. ASSUME NEW u \in Tabs
        PROVE  ~(LoseRefresh(u) \/ LoseEntry(u) \/ ServeEntry(u) \/ Type(u) \/ Submit(u)
                   \/ Logout(u))
    BY <1>1, <2>2 DEF LoseRefresh, LoseEntry, ServeEntry, Type, Submit, Logout, Ask
  <2> QED
    BY <1>1, <2>3, <2>4, <2>5, <2>7, <2>8 DEF Next, EntryStep
<1>2. IInv /\ [Next]_vars =>
        [\A t \in Tabs :
           authed[t] = "in" /\ authed'[t] = "out" => lapsed[t] \/ faults > 0]_vars
  BY <1>1
<1> QED
  BY <1>2, InitInv, InvStep, PTL DEF Spec, KeptWhileLive

-----------------------------------------------------------------------------
\* The login is shown with its form and nothing else is; a page that has not yet
\* been told whether it is logged in has nothing under way but /auth/me.
FormOK ==
  \A t \in Tabs :
    /\ form[t] # "none" => authed[t] = "out"
    /\ entry[t].kind = "me" => authed[t] = "unknown"
    /\ authed[t] = "unknown" => \A c \in Calls : TabOf[c] = t => call[c].at = "none"

\* A call that is under way is of a page that has been told.
LEMMA Told ==
  ASSUME TypeOK, FormOK, NEW c \in Calls, call[c].at # "none"
  PROVE  TabOf[c] \in Tabs /\ authed[TabOf[c]] # "unknown"
BY SessionAssumption DEF FormOK

\* What drawing the login, or leaving the page, does to the form.
LEMMA LoginForm ==
  ASSUME TypeOK, FormOK, NEW t \in Tabs, LoggedOut(t), authed[t] # "unknown"
  PROVE  \A u \in Tabs :
           /\ form'[u] # "none" => authed'[u] = "out"
           /\ authed'[u] = "unknown" <=> authed[u] = "unknown"
           /\ form'[u] = form[u] \/ authed[u] # "out"
BY DEF LoggedOut, ShowLogin, page, TypeOK, FormOK

LEMMA RestartForm ==
  ASSUME TypeOK, FormOK, NEW t \in Tabs, NEW p, Restart(t, p)
  PROVE  FormOK' /\ \A u \in Tabs : form'[u] = form[u] \/ form'[u] = "none"
BY DEF Restart, FormOK, TypeOK, Idle, Boot

\* The form is drawn only where there was none.
LEMMA FormStep ==
  ASSUME TypeOK, FormOK, Next
  PROVE  /\ FormOK'
         /\ \A t \in Tabs : form[t] = "typed" => form'[t] # "blank"
<1> DEFINE kept == \A t \in Tabs : form[t] = "typed" => form'[t] # "blank"
<1>1. ASSUME UNCHANGED page, \A t \in Tabs : entry'[t].kind = "me" => entry[t].kind = "me",
             \A c \in Calls : call'[c].at = "none" \/ call[c].at # "none"
                                \/ authed[TabOf[c]] = "in"
      PROVE  FormOK' /\ kept
  BY <1>1 DEF FormOK, page
<1>2. CASE Advance \/ DeleteUser
  BY <1>1, <1>2 DEF Advance, DeleteUser
<1>3. ASSUME NEW c \in Calls,
             Send(c) \/ ServeCall(c) \/ AnswerCall(c) \/ LoseCall(c) \/ Join(c)
      PROVE  FormOK' /\ kept
  <2>1. /\ UNCHANGED page /\ entry' = entry
        /\ \A d \in Calls : d # c => call'[d] = call[d]
        /\ call[c].at # "none" \/ authed[TabOf[c]] = "in"
    BY <1>3 DEF Send, ServeCall, AnswerCall, LoseCall, Join, TypeOK
  <2> QED
    BY <1>1, <2>1
<1>4. ASSUME NEW t \in Tabs, LoseRefresh(t) \/ ServeRefresh(t) \/ Refreshed(t)
      PROVE  FormOK' /\ kept
  <2>1. UNCHANGED page /\ entry' = entry
    BY <1>4 DEF LoseRefresh, ServeRefresh, Refreshed
  <2>2. \A c \in Calls : call'[c] = call[c] \/ call[c].at = "wait"
    BY <1>4 DEF LoseRefresh, ServeRefresh, Refreshed, Waiting, TypeOK
  <2> QED
    BY <1>1, <2>1, <2>2
<1>5. ASSUME NEW t \in Tabs, LoseEntry(t) \/ ServeEntry(t) PROVE FormOK' /\ kept
  <2>1. UNCHANGED page /\ call' = call
    BY <1>5 DEF LoseEntry, ServeEntry
  <2>2. \A u \in Tabs : entry'[u].kind = entry[u].kind
    <3>1. entry[t] \in Entries
      BY DEF TypeOK
    <3>2. PICK a, b : entry' = [entry EXCEPT ![t] = [@ EXCEPT !.at = a, !.stamp = b]]
      BY <1>5 DEF LoseEntry, ServeEntry
    <3> QED
      BY <3>1, <3>2 DEF TypeOK, Entries
  <2> QED
    BY <1>1, <2>1, <2>2
<1>6. ASSUME NEW c \in Calls, GiveUp(c) PROVE FormOK' /\ kept
  <2>1. /\ LoggedOut(TabOf[c]) /\ call[c].at = "no" /\ entry' = entry
        /\ \A d \in Calls : call'[d] = call[d] \/ call'[d].at = "none"
    BY <1>6 DEF GiveUp, Idle, TypeOK
  <2>2. TabOf[c] \in Tabs /\ authed[TabOf[c]] # "unknown"
    BY <2>1, Told
  <2> QED
    BY <2>1, <2>2, LoginForm DEF FormOK
<1>7. ASSUME NEW t \in Tabs, NotRefreshed(t) PROVE FormOK' /\ kept
  <2>1. /\ entry' = entry
        /\ \A d \in Calls : call'[d] = call[d] \/ call'[d].at = "none"
    BY <1>7 DEF NotRefreshed, Idle
  <2>2. CASE Waiting(t) = {}
    BY <1>1, <1>7, <2>1, <2>2 DEF NotRefreshed
  <2>3. CASE Waiting(t) # {}
    <3>1. authed[t] # "unknown"
      BY <2>3 DEF Waiting, FormOK
    <3>2. LoggedOut(t)
      BY <1>7, <2>3 DEF NotRefreshed
    <3> QED
      BY <2>1, <3>1, <3>2, LoginForm DEF FormOK
  <2> QED
    BY <2>2, <2>3
<1>8. ASSUME NEW t \in Tabs, EntryAnswered(t) PROVE FormOK' /\ kept
  <2>1. CASE \E p : Restart(t, p)
    BY <2>1, RestartForm
  <2>2. CASE /\ OnLoggedIn(t) /\ entry' = [entry EXCEPT ![t] = NoEntry]
             /\ UNCHANGED call
    BY <2>2 DEF OnLoggedIn, NoEntry, FormOK, TypeOK
  <2>3. CASE /\ entry[t].kind = "me" /\ ShowLogin(t)
             /\ entry' = [entry EXCEPT ![t] = NoEntry] /\ UNCHANGED call
    BY <2>3 DEF ShowLogin, NoEntry, FormOK, TypeOK
  <2>4. CASE UNCHANGED <<page, call>> /\ entry' = [entry EXCEPT ![t] = NoEntry]
    BY <1>1, <2>4 DEF NoEntry, TypeOK
  <2> QED
    BY <1>8, <2>1, <2>2, <2>3, <2>4 DEF EntryAnswered
<1>9. ASSUME NEW t \in Tabs, Type(t) PROVE FormOK' /\ kept
  BY <1>9 DEF Type, FormOK, TypeOK
<1>10. ASSUME NEW t \in Tabs, Submit(t) \/ Logout(t) PROVE FormOK' /\ kept
  <2>1. PICK kind \in {"login", "logout"} : Ask(t, kind)
    BY <1>10 DEF Submit, Logout
  <2> QED
    BY <1>1, <2>1 DEF Ask, TypeOK
<1>11. ASSUME NEW t \in Tabs, Reload(t) PROVE FormOK' /\ kept
  BY <1>11, RestartForm DEF Reload
<1> QED
  BY <1>2, <1>3, <1>4, <1>5, <1>6, <1>7, <1>8, <1>9, <1>10, <1>11
     DEF Next, CallStep, RefreshStep, EntryStep

\* A login form that is being filled in is not drawn again by answers that come
\* late, whatever other tabs do (main.js:139-141).
THEOREM TypingKeptHolds == Spec => TypingKept
<1>1. Init => TypeOK /\ StampsOK /\ FormOK
  BY InitInv DEF IInv, Init, FormOK, Boot, Idle
<1>2. TypeOK /\ StampsOK /\ FormOK /\ [Next]_vars => (TypeOK /\ StampsOK /\ FormOK)'
  <2>1. FormOK /\ UNCHANGED vars => FormOK'
    BY DEF FormOK, vars, page
  <2>2. TypeOK /\ StampsOK /\ UNCHANGED vars => TypeOK' /\ StampsOK'
    BY DEF TypeOK, StampsOK, vars, page
  <2> QED
    BY <2>1, <2>2, TypeStep, FormStep
<1>3. TypeOK /\ FormOK /\ [Next]_vars =>
        [\A t \in Tabs :
           form[t] = "typed" => ~(form'[t] = "blank" /\ authed'[t] = "out")]_vars
  BY FormStep
<1> QED
  BY <1>1, <1>2, <1>3, PTL DEF Spec, TypingKept
=============================================================================
