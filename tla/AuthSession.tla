----------------------------- MODULE AuthSession -----------------------------
(***************************************************************************)
(* A signed-in browser: the tokens of api/v1/auth.py, the two blacklists   *)
(* in Redis, get_current_user of core/deps.py, the preview endpoint, and   *)
(* the response interceptor of frontend/src/api/client.ts that refreshes   *)
(* the access token, in several tabs that share one localStorage.  The     *)
(* users are the rows of Accounts, which an administrator may disable or   *)
(* delete meanwhile.                                                       *)
(*                                                                         *)
(* Time is a clock of whole units that any step may find advanced; a token *)
(* is valid strictly before its expiry.  Redis keeps what it was told.     *)
(* The browser sends its access token as the Bearer and its refresh token  *)
(* to the refresh endpoint, never the other way round.                     *)
(*                                                                         *)
(* An operator introduced by "Mutant:" is no part of the model: it is what *)
(* the action after it would be with a plausible bug.                      *)
(***************************************************************************)
EXTENDS Accounts

CONSTANTS
  Tabs,         \* tabs of the browser
  Calls,        \* API calls
  TabOf,        \* TabOf[c]: the tab that makes call c
  CallKinds,    \* CallKinds[c]: what call c may be
  AccessLife,   \* ACCESS_TOKEN_EXPIRE_MINUTES
  RefreshLife,  \* REFRESH_TOKEN_EXPIRE_MINUTES
  Fallback,     \* TTL of the blacklist entry of a token without an expiry
  MaxTime,      \* bound on the clock
  MaxTokens,    \* bound on the tokens issued; a call refreshes once at most
  Starts,       \* installations to start from, each with who is still to come
  MaxDrops      \* bound on the answers lost or never given

\* "preview": the endpoint that looks at the token itself; "api": any other.
AllCalls == {"api", "logout", "preview"}
Start == [used : BOOLEAN, browser : BOOLEAN, actors : SUBSET Actors]

ASSUME AuthSessionAssumption ==
  /\ IsFiniteSet(Calls) /\ TabOf \in [Calls -> Tabs] /\ Starts \subseteq Start
  /\ \A s \in Starts : s.used => Procs \ s.actors # {} /\ Names # {AdminName}
  /\ CallKinds \in [Calls -> SUBSET AllCalls]
  /\ {AccessLife, RefreshLife, Fallback, MaxTime} \subseteq Nat \ {0}
  /\ {MaxTokens, MaxDrops} \subseteq Nat

VARIABLES
  now,        \* the clock
  expiry,     \* expiry[k]: when token k expires; issued in order
  black,      \* black[k].access, .refresh: when the entry of token k in
              \* access_blacklist, in refresh_blacklist expires, 0 if none
  store,      \* localStorage: access_token and refresh_token
  refreshing, \* refreshing[t]: isRefreshing of tab t
  call,       \* call[c]: where call c is
  drops       \* answers lost or never given

tabVars == <<now, expiry, black, store, refreshing, call, drops>>
sessionVars == <<accountVars, tabVars>>

Tokens == 1..MaxTokens
Lists == {"access", "refresh"}
Missing == 0               \* no token
Undefined == MaxTokens + 1 \* the text "undefined", which no server issued
IdleCall == [pc |-> "idle", kind |-> "api", token |-> Missing, retry |-> FALSE,
             late |-> FALSE, new |-> Missing]

TabsInit ==
  /\ now = 1
  /\ expiry = [k \in Tokens |-> 0]
  /\ black = [k \in Tokens |-> [access |-> 0, refresh |-> 0]]
  /\ store = [access |-> Missing, refresh |-> Missing]
  /\ refreshing = [t \in Tabs |-> FALSE]
  /\ call = [c \in Calls |-> IdleCall]
  /\ drops = 0

Issued(k) == k \in Tokens /\ expiry[k] > 0
Unissued == {k \in Tokens : expiry[k] = 0}
NextToken == CHOOSE k \in Unissued : \A l \in Unissued : k <= l
Valid(k) == Issued(k) /\ now < expiry[k]
\* k is on the blacklist that get_current_user, that refresh looks at.
LoggedOut(k) == k \in Tokens /\ now < black[k].access
Exchanged(k) == k \in Tokens /\ now < black[k].refresh
\* For the properties: a list has been told of k.
Revoked(k, list) == k \in Tokens /\ black[k][list] > 0
OwnerActive == Live(Owner) /\ row[Owner].active

CallTo(c, pc) == call' = [call EXCEPT ![c].pc = pc]
Done(pc) == [IdleCall EXCEPT !.pc = pc]
Settle(c, pc) == call' = [call EXCEPT ![c] = Done(pc)]

\* Nothing looks at the clock before the first token is issued.
Tick ==
  /\ Issued(1) /\ now < MaxTime
  /\ now' = now + 1
  /\ UNCHANGED <<expiry, black, store, refreshing, call, drops>>

(* The login page: both tokens are issued and stored.                        *)
Login ==
  /\ store.access = Missing /\ OwnerActive
  /\ Cardinality(Unissued) >= 2 + Cardinality(Calls)
  /\ LET a == NextToken IN
       /\ expiry' = [expiry EXCEPT ![a] = now + AccessLife, ![a + 1] = now + RefreshLife]
       /\ store' = [access |-> a, refresh |-> a + 1]
  /\ UNCHANGED <<now, black, refreshing, call, drops>>

-----------------------------------------------------------------------------
(* One call and its 401.                                                     *)

Sent(j, token) ==
  [j EXCEPT !.pc = "sent", !.token = token, !.late = Revoked(token, "access"), !.new = Missing]

\* The request interceptor attaches the stored token.
Send(c) ==
  /\ call[c].pc = "idle" /\ store.access # Missing
  /\ \E kind \in CallKinds[c] :
       call' = [call EXCEPT ![c] = Sent([@ EXCEPT !.kind = kind], store.access)]
  /\ UNCHANGED <<now, expiry, black, store, refreshing, drops>>

(* get_current_user up to the blacklist; the preview endpoint decodes the    *)
(* token and asks no blacklist.                                              *)
Authenticate(c) ==
  LET k == call[c].token IN
  /\ call[c].pc = "sent"
  /\ CallTo(c, IF Valid(k) /\ (call[c].kind = "preview" \/ ~LoggedOut(k))
               THEN "known" ELSE "denied")
  /\ UNCHANGED <<now, expiry, black, store, refreshing, drops>>

(* The user's row, which the preview loads for its access log only, and the  *)
(* handler of a call that is no logout.                                      *)
Serve(c) ==
  /\ call[c].pc = "known"
  /\ \/ ~OwnerActive /\ call[c].kind # "preview" /\ CallTo(c, "denied")
     \/ OwnerActive /\ call[c].kind = "api" /\ Settle(c, "ok")
     \/ call[c].kind = "preview" /\ Settle(c, "ok")
  /\ UNCHANGED <<now, expiry, black, store, refreshing, drops>>

SignedOut == [access |-> Missing, refresh |-> Missing]

\* Mutant: the lifetime is one unit short.
LogoutShort(c) ==
  LET k == call[c].token IN
  /\ call[c].pc = "known" /\ call[c].kind = "logout" /\ OwnerActive
  /\ black' = [black EXCEPT ![k].access = expiry[k] - 1]
  /\ CallTo(c, "leaving")
  /\ UNCHANGED <<now, expiry, store, refreshing, drops>>

(* logout: the token's remaining lifetime is the TTL of its entry.  A token  *)
(* that expired since it was checked is no longer decoded, and gets the      *)
(* fallback, or, in the very second of its expiry, a TTL of 0, which Redis   *)
(* refuses.                                                                  *)
Logout(c) ==
  LET k == call[c].token IN
  /\ call[c].pc = "known" /\ call[c].kind = "logout" /\ OwnerActive
  /\ \/ Valid(k) /\ black' = [black EXCEPT ![k].access = expiry[k]]
     \/ ~Valid(k) /\ black' = [black EXCEPT ![k].access = now + Fallback]
     \/ now = expiry[k] /\ UNCHANGED black
  /\ CallTo(c, "leaving")
  /\ UNCHANGED <<now, expiry, store, refreshing, drops>>

\* The tab forgets its tokens whatever the answer to the logout was.
Leave(c) ==
  /\ call[c].pc = "leaving"
  /\ store' = SignedOut /\ Settle(c, "ok")
  /\ UNCHANGED <<now, expiry, black, refreshing, drops>>

\* The end of a call that fails; a failed logout leaves too.
Abandon(c, pc) ==
  IF call[c].kind = "logout" THEN CallTo(c, "leaving") ELSE Settle(c, pc)

(* The interceptor on a 401: the first of a tab refreshes, the others wait   *)
(* for it, and one that was repeated already fails.  Without a refresh token *)
(* it returns with isRefreshing set.                                         *)
Denied(c) ==
  LET t == TabOf[c] IN
  /\ call[c].pc = "denied"
  /\ \/ call[c].retry /\ Abandon(c, "failed") /\ UNCHANGED <<store, refreshing>>
     \/ ~call[c].retry /\ refreshing[t] /\ CallTo(c, "queued") /\ UNCHANGED <<store, refreshing>>
     \/ /\ ~call[c].retry /\ ~refreshing[t] /\ store.refresh # Missing
        /\ refreshing' = [refreshing EXCEPT ![t] = TRUE]
        /\ call' = [call EXCEPT ![c] = [@ EXCEPT
             !.pc = "asking", !.retry = TRUE, !.token = store.refresh,
             !.late = Revoked(store.refresh, "refresh")]]
        /\ UNCHANGED store
     \/ /\ ~call[c].retry /\ ~refreshing[t] /\ store.refresh = Missing
        /\ refreshing' = [refreshing EXCEPT ![t] = TRUE]
        /\ Settle(c, "tokenless")
        /\ store' = IF call[c].kind = "logout" THEN SignedOut ELSE store
  /\ UNCHANGED <<now, expiry, black, drops>>

-----------------------------------------------------------------------------
(* The refresh request: the blacklist, the token, the user; then the entry   *)
(* and the new access token.  No new refresh token comes back.               *)

CheckRefresh(c) ==
  LET k == call[c].token IN
  /\ call[c].pc = "asking"
  /\ CallTo(c, IF Valid(k) /\ ~Exchanged(k) /\ OwnerActive THEN "rotating" ELSE "refused")
  /\ UNCHANGED <<now, expiry, black, store, refreshing, drops>>

Rotate(c) ==
  LET k == call[c].token IN
  /\ call[c].pc = "rotating" /\ Unissued # {}
  /\ \/ /\ Valid(k)
        /\ black' = [black EXCEPT ![k].refresh = expiry[k]]
        /\ expiry' = [expiry EXCEPT ![NextToken] = now + AccessLife]
        /\ call' = [call EXCEPT ![c].pc = "renewed", ![c].new = NextToken]
     \/ ~Valid(k) /\ CallTo(c, "refused") /\ UNCHANGED <<black, expiry>>
  /\ UNCHANGED <<now, store, refreshing, drops>>

(* The connection of a refresh breaks; or the server never answers, and the  *)
(* bare axios.post, which has no timeout of its own, waits for good.         *)
Drop(c) ==
  /\ call[c].pc \in {"asking", "rotating", "renewed"}
  /\ drops < MaxDrops /\ drops' = drops + 1
  /\ \E pc \in {"refused", "unanswered"} : CallTo(c, pc)
  /\ UNCHANGED <<now, expiry, black, store, refreshing>>

Waiting(t) == {c \in Calls : TabOf[c] = t /\ call[c].pc = "queued"}

\* The tokens are stored (the absent one as "undefined") and the calls are
\* sent again, those that waited without the mark of a repeated one.
Renewed(c) ==
  LET t == TabOf[c] again == Waiting(t) \cup {c} IN
  /\ call[c].pc = "renewed"
  /\ store' = [access |-> call[c].new, refresh |-> Undefined]
  /\ refreshing' = [refreshing EXCEPT ![t] = FALSE]
  /\ call' = [d \in Calls |-> IF d \in again THEN Sent(call[d], call[c].new) ELSE call[d]]
  /\ UNCHANGED <<now, expiry, black, drops>>

\* Mutant: the calls that wait are forgotten.
RefusedForgets(c) ==
  /\ call[c].pc = "refused"
  /\ store' = SignedOut
  /\ refreshing' = [refreshing EXCEPT ![TabOf[c]] = FALSE]
  /\ Settle(c, "failed")
  /\ UNCHANGED <<now, expiry, black, drops>>

\* Mutant: without the finally clause.
RefusedKeepsFlag(c) ==
  /\ call[c].pc = "refused"
  /\ store' = SignedOut
  /\ call' = [d \in Calls |-> IF d \in Waiting(TabOf[c]) \cup {c}
                              THEN Done("failed") ELSE call[d]]
  /\ UNCHANGED <<now, expiry, black, refreshing, drops>>

Refused(c) ==
  LET t == TabOf[c] over == Waiting(t) \cup {c} IN
  /\ call[c].pc = "refused"
  /\ store' = SignedOut
  /\ refreshing' = [refreshing EXCEPT ![t] = FALSE]
  /\ call' = [d \in Calls |-> IF d \in over THEN Done("failed") ELSE call[d]]
  /\ UNCHANGED <<now, expiry, black, drops>>

Progress(c) ==
  \/ Authenticate(c) \/ Serve(c) \/ Logout(c) \/ Leave(c) \/ Denied(c)
  \/ CheckRefresh(c) \/ Rotate(c) \/ Renewed(c) \/ Refused(c)

TabsNext == Tick \/ Login \/ \E c \in Calls : Send(c) \/ Drop(c) \/ Progress(c)

-----------------------------------------------------------------------------
(* Composition: an empty installation, or one in use, which has the          *)
(* administrator a process made before and perhaps the browser's user.       *)

InUse(s) ==
  LET p == CHOOSE q \in Procs \ s.actors : TRUE
      n == CHOOSE m \in Names : m # AdminName IN
    /\ row = [i \in Ids |-> CASE i = p -> User(AdminName, "admin")
                              [] i = Owner /\ s.browser -> User(n, "user")
                              [] OTHER -> NoRow]
    /\ code = [c \in Codes |-> [state |-> IF c = "default" THEN "dated" ELSE "absent",
                                 by |-> None]]
    /\ providers = {p}

Init ==
  /\ \E s \in Starts :
       /\ IF s.used THEN InUse(s) ELSE Empty
       /\ job = [a \in Actors |-> IF a \in s.actors THEN IdleJob
                                   ELSE [IdleJob EXCEPT !.pc = IF s.used THEN "ok" ELSE "failed"]]
  /\ TabsInit

Next == \/ AccountsNext /\ UNCHANGED tabVars
        \/ TabsNext /\ UNCHANGED accountVars

Spec == Init /\ [][Next]_sessionVars

(* The server goes on with every call, and so does the tab's event loop.     *)
FairSpec == Spec /\ \A c \in Calls : WF_tabVars(Progress(c))

-----------------------------------------------------------------------------
(* Properties.                                                               *)

Pending == {"asking", "rotating", "renewed", "refused", "unanswered"}
Settled == {"ok", "failed", "tokenless"}

CallType ==
  [pc : {"idle", "sent", "known", "denied", "queued", "leaving"} \cup Pending \cup Settled,
   kind : AllCalls, token : 0..Undefined, retry : BOOLEAN, late : BOOLEAN,
   new : 0..MaxTokens]

TypeOK ==
  /\ AccountsTypeOK
  /\ now \in 1..MaxTime
  /\ expiry \in [Tokens -> 0..(MaxTime + AccessLife + RefreshLife)]
  /\ black \in [Tokens -> [Lists -> 0..(MaxTime + AccessLife + RefreshLife + Fallback)]]
  /\ store \in [access : 0..MaxTokens, refresh : 0..Undefined]
  /\ refreshing \in [Tabs -> BOOLEAN]
  /\ call \in [Calls -> CallType]
  /\ drops \in 0..MaxDrops

(* A token the logout was told of is no longer served by an endpoint that    *)
(* depends on get_current_user, and a refresh token that was exchanged is    *)
(* not exchanged again, by a request sent after that, for the rest of the    *)
(* token's life: the entry must outlive the token although both run on       *)
(* lifetimes computed earlier.  The preview endpoint asks no blacklist.      *)
RevokedStaysRevoked ==
  \A c \in Calls : call[c].late =>
    /\ call[c].pc \notin {"rotating", "renewed"}
    /\ call[c].pc = "known" => call[c].kind = "preview"

(* "Invalidates the used refresh token via a Redis blacklist so it cannot be *)
(* replayed" (refresh of auth.py): no two calls are given access tokens for  *)
(* one refresh token.                                                        *)
ExchangedOnce ==
  \A c, d \in Calls :
    call[c].pc = "renewed" /\ call[d].pc = "renewed" /\ call[c].token = call[d].token => c = d

(* A tab that says it is refreshing has a call doing so, one that found no   *)
(* refresh token, or one the server never answers: nothing else leaves calls *)
(* waiting for nobody.                                                       *)
RefreshHasOwner ==
  \A t \in Tabs : refreshing[t] =>
    \E c \in Calls : TabOf[c] = t /\ call[c].pc \in Pending \cup {"tokenless"}

(* Every call is answered or fails in its tab, also one that waits for the   *)
(* refresh of another, unless the tab has lost its refresh token meanwhile   *)
(* or a refresh of the tab is never answered (it has no timeout).            *)
EveryCallSettles ==
  \A c \in Calls :
    call[c].pc # "idle" ~>
      \/ call[c].pc \in Settled
      \/ \E d \in Calls : TabOf[d] = TabOf[c] /\ call[d].pc \in {"tokenless", "unanswered"}
=============================================================================
