------------------------- MODULE AuthSessionProofs -------------------------
(***************************************************************************)
(* Proofs about Accounts and AuthSession for any processes, requests,      *)
(* tabs, calls, lifetimes and bounds.                                      *)
(***************************************************************************)
EXTENDS AuthSession, FiniteSetTheorems, TLAPS

HaveCodes == \E c \in Codes : code[c].state # "absent"

\* A request of an administrator that may have taken the administrators away.
Tampered == \E r \in Requests : job[r].kind \in {"update", "delete"} /\ job[r].pc = "ok"

\* A request that may have taken the active providers away.
Shelved == \E r \in Requests : job[r].kind = "shelve" /\ job[r].pc = "ok"
Provided == providers # {} \/ Shelved

(* What a request knows of its own row and values between its two steps.     *)
RequestOK(r) ==
  LET j == job[r] IN
  /\ j.pc \in {"idle", "registering"} => ~Live(r)
  /\ j.pc = "updating" => j.kind = "update"
  /\ j.pc = "deleting" => j.kind = "delete"
  /\ j.pc = "registering" => j.kind = "register"
  /\ j.pc = "saving" => j.kind = "profile"
  /\ j.pc = "inviting" => j.kind = "invite"

\* A process that has been past the first step, the second, or all of them.
PastAdmin == {"codes", "viewCodes", "insertCodes", "viewProviders", "providers",
              "insertProvider", "ok"}
PastCodes == {"viewProviders", "providers", "insertProvider", "ok"}

(* What a booting process leaves behind and what its read view shows.        *)
BootOK(p) ==
  LET j == job[p] IN
  /\ j.pc \in PastAdmin => Admins # {} \/ Tampered
  /\ j.pc \in PastCodes => HaveCodes
  /\ j.pc = "ok" /\ HasKey => Provided
  /\ j.pc = "insertProvider" => HasKey
  /\ "codes" \in j.view => HaveCodes
  /\ "providers" \in j.view => Provided

(* A process that starts when another has been through the bootstrap has a   *)
(* read view that shows what the other left.                                 *)
RestartOK(p) ==
  LET j == job[p] IN
  j.after # {} =>
    /\ HaveCodes /\ (HasKey => Provided)
    /\ j.pc \in {"codes", "providers"} => "codes" \in j.view /\ (HasKey => "providers" \in j.view \/ Shelved)
    /\ j.pc \notin {"insertCodes", "viewProviders"} /\ "codes" \notin j.made
    /\ j.pc = "insertProvider" \/ "provider" \in j.made => Shelved
    /\ j.pc = "insertAdmin" \/ "admin" \in j.made => Tampered

AccountsInv ==
  /\ AccountsTypeOK /\ NamesUnique
  /\ \A a \in Actors : job[a].pc = "idle" => job[a] = IdleJob
  /\ \A r \in Requests : RequestOK(r)
  /\ \A p \in Procs : BootOK(p) /\ RestartOK(p)

(* The browser: tokens are issued in order, the entry of a token on a        *)
(* blacklist outlives the token, a token found good was issued, and a call   *)
(* with a token that was revoked when it was sent gets no further, but for   *)
(* the preview.                                                              *)
TokensInOrder == \E n \in 0..MaxTokens : \A k \in Tokens : expiry[k] > 0 <=> k <= n
BlackOutlives ==
  \A k \in Tokens, l \in Lists : black[k][l] > 0 => expiry[k] > 0 /\ black[k][l] >= expiry[k]
Good(j) ==
  /\ j.pc \in {"known", "rotating"} => Issued(j.token)
  /\ j.late /\ j.pc = "sent" => Revoked(j.token, "access")
  /\ j.late /\ j.pc = "asking" => Revoked(j.token, "refresh")
  /\ j.late /\ j.pc = "known" => j.kind = "preview"
  /\ j.late => j.pc \notin {"rotating", "renewed"}
CallOK(c) == Good(call[c])

TabsInv ==
  /\ now \in 1..MaxTime
  /\ expiry \in [Tokens -> 0..(MaxTime + AccessLife + RefreshLife)]
  /\ black \in [Tokens -> [Lists -> 0..(MaxTime + AccessLife + RefreshLife + Fallback)]]
  /\ store \in [access : 0..MaxTokens, refresh : 0..Undefined]
  /\ refreshing \in [Tabs -> BOOLEAN]
  /\ call \in [Calls -> CallType]
  /\ drops \in 0..MaxDrops
  /\ TokensInOrder /\ BlackOutlives /\ RefreshHasOwner
  /\ \A c \in Calls : CallOK(c)

-----------------------------------------------------------------------------
(* The browser's part: tokens, the blacklist and the calls of the tabs.     *)

(* What the assumptions say of the numbers.                                *)
LEMMA Lifetimes ==
  /\ AccessLife \in Nat /\ AccessLife > 0 /\ RefreshLife \in Nat /\ RefreshLife > 0
  /\ Fallback \in Nat /\ Fallback > 0
  /\ MaxTime \in Nat /\ MaxTime > 0 /\ MaxTokens \in Nat /\ MaxDrops \in Nat
BY AuthSessionAssumption

\* The next token is the first that was not issued.
LEMMA NextTokenIs ==
  ASSUME TabsInv, Unissued # {}
  PROVE  /\ NextToken \in Tokens /\ expiry[NextToken] = 0
         /\ \A k \in Tokens : expiry[k] > 0 <=> k < NextToken
<1>1. PICK n \in 0..MaxTokens : \A k \in Tokens : expiry[k] > 0 <=> k <= n
  BY DEF TabsInv, TokensInOrder
<1>2. \A k \in Tokens : expiry[k] \in Nat
  BY Lifetimes DEF TabsInv
<1>3. PICK m \in Unissued : TRUE
  OBVIOUS
<1>4. n + 1 \in Tokens /\ n + 1 \in Unissued
  BY <1>1, <1>2, <1>3, Lifetimes DEF Unissued, Tokens
<1>5. \A k \in Unissued : n + 1 <= k
  BY <1>1, <1>2, Lifetimes DEF Unissued, Tokens
<1>6. NextToken = n + 1
  <2>1. \A k \in Unissued : (\A l \in Unissued : k <= l) => k = n + 1
    BY <1>4, <1>5, Lifetimes DEF Unissued, Tokens
  <2>2. QED
    BY <1>4, <1>5, <2>1 DEF NextToken
<1>7. QED
  BY <1>1, <1>4, <1>6, Lifetimes DEF Unissued, Tokens

\* A login finds room for both its tokens.
LEMMA TwoTokens ==
  ASSUME TabsInv, Cardinality(Unissued) >= 2 + Cardinality(Calls)
  PROVE  Unissued # {} /\ NextToken \in Tokens /\ NextToken + 1 \in Tokens
<1>1. Cardinality(Calls) \in Nat
  BY AuthSessionAssumption, FS_CardinalityType
<1>2. Unissued # {}
  BY <1>1, FS_EmptySet
<1>3. /\ NextToken \in Tokens
      /\ \A k \in Tokens : expiry[k] > 0 <=> k < NextToken
  BY <1>2, NextTokenIs
<1>4. NextToken \in Tokens /\ Unissued \subseteq NextToken..MaxTokens
  <2>1. ASSUME NEW k \in Unissued PROVE k \in NextToken..MaxTokens
    <3>1. k \in Tokens /\ ~(expiry[k] > 0)
      BY DEF Unissued
    <3>2. ~(k < NextToken)
      BY <1>3, <3>1
    <3>3. QED
      BY <1>3, <3>1, <3>2, Lifetimes DEF Tokens
  <2>2. QED
    BY <1>3, <2>1
<1>5. /\ IsFiniteSet(NextToken..MaxTokens)
      /\ Cardinality(NextToken..MaxTokens) = MaxTokens - NextToken + 1
  BY <1>4, Lifetimes, FS_Interval DEF Tokens
<1>6. Cardinality(Unissued) <= MaxTokens - NextToken + 1 /\ Cardinality(Unissued) \in Nat
  BY <1>4, <1>5, FS_Subset, FS_CardinalityType
<1>7. QED
  BY <1>1, <1>2, <1>4, <1>6, Lifetimes DEF Tokens

\* A revoked token is never found good again.
LEMMA RevokedIsBad ==
  ASSUME TabsInv, NEW k, Valid(k)
  PROVE  /\ Revoked(k, "access") => LoggedOut(k)
         /\ Revoked(k, "refresh") => Exchanged(k)
<1>1. /\ k \in Tokens /\ now \in Nat /\ expiry[k] \in Nat /\ now < expiry[k]
      /\ \A l \in Lists : black[k][l] \in Nat /\ (black[k][l] > 0 => black[k][l] >= expiry[k])
  BY Lifetimes DEF TabsInv, BlackOutlives, Valid, Issued
<1>2. black[k]["access"] > 0 => now < black[k]["access"]
  BY <1>1 DEF Lists
<1>3. black[k]["refresh"] > 0 => now < black[k]["refresh"]
  BY <1>1 DEF Lists
<1>4. QED
  BY <1>1, <1>2, <1>3 DEF Revoked, LoggedOut, Exchanged

\* One call moves, and neither the clock nor a token does.
LEMMA CallMoves ==
  ASSUME TabsInv, NEW c \in Calls, NEW j \in CallType, call' = [call EXCEPT ![c] = j],
         UNCHANGED <<now, expiry, black>>, drops' \in 0..MaxDrops,
         store' \in [access : 0..MaxTokens, refresh : 0..Undefined],
         refreshing' \in [Tabs -> BOOLEAN], RefreshHasOwner', Good(j)
  PROVE  TabsInv'
<1>1. call' \in [Calls -> CallType] /\ call'[c] = j /\ \A d \in Calls \ {c} : call'[d] = call[d]
  BY DEF TabsInv
<1>2. \A d \in Calls : CallOK(d)'
  BY <1>1 DEF TabsInv, CallOK, Good, Issued, Revoked
<1>3. TokensInOrder' /\ BlackOutlives'
  BY DEF TabsInv, TokensInOrder, BlackOutlives
<1>4. QED
  BY <1>1, <1>2, <1>3 DEF TabsInv

\* A call that refreshes for its tab goes on doing so.
LEMMA OwnerStays ==
  ASSUME TabsInv, NEW c \in Calls, NEW pc, call' \in [Calls -> CallType],
         call'[c].pc = pc, \A d \in Calls \ {c} : call'[d] = call[d],
         call[c].pc \in Pending \cup {"tokenless"} => pc \in Pending \cup {"tokenless"},
         UNCHANGED refreshing
  PROVE  RefreshHasOwner'
BY DEF TabsInv, RefreshHasOwner

(* The records a call moves to by a change of position are calls.          *)
LEMMA CallTypes ==
  ASSUME NEW j \in CallType
  PROVE  /\ \A pc \in {"idle", "sent", "known", "denied", "queued", "leaving"} \cup Pending \cup Settled :
              /\ [j EXCEPT !.pc = pc] \in CallType /\ Done(pc) \in CallType
              /\ [j EXCEPT !.pc = pc].pc = pc /\ [j EXCEPT !.pc = pc].token = j.token
              /\ [j EXCEPT !.pc = pc].late = j.late /\ [j EXCEPT !.pc = pc].kind = j.kind
              /\ Done(pc).pc = pc /\ Done(pc).late = FALSE
         /\ \A k \in 0..Undefined :
              /\ Sent(j, k) \in CallType /\ Sent(j, k).pc = "sent"
              /\ Sent(j, k).token = k /\ Sent(j, k).late = Revoked(k, "access")
<1>1. 0 \in 0..Undefined /\ 0 \in 0..MaxTokens
  BY Lifetimes DEF Undefined
<1>2. ASSUME NEW pc \in {"idle", "sent", "known", "denied", "queued", "leaving"} \cup Pending \cup Settled
      PROVE  /\ [j EXCEPT !.pc = pc] \in CallType
             /\ [j EXCEPT !.pc = pc].pc = pc /\ [j EXCEPT !.pc = pc].token = j.token
             /\ [j EXCEPT !.pc = pc].late = j.late /\ [j EXCEPT !.pc = pc].kind = j.kind
  BY DEF CallType
<1>3. ASSUME NEW pc \in {"idle", "sent", "known", "denied", "queued", "leaving"} \cup Pending \cup Settled
      PROVE  Done(pc) \in CallType /\ Done(pc).pc = pc /\ Done(pc).late = FALSE
  BY <1>1 DEF CallType, Done, IdleCall, Missing, AllCalls
<1>4. ASSUME NEW k \in 0..Undefined
      PROVE  /\ Sent(j, k) \in CallType /\ Sent(j, k).pc = "sent"
             /\ Sent(j, k).token = k /\ Sent(j, k).late = Revoked(k, "access")
  <2>1. Revoked(k, "access") \in BOOLEAN
    BY DEF Revoked
  <2>2. QED
    BY <1>1, <2>1 DEF CallType, Sent, Missing
<1>5. QED
  BY <1>2, <1>3, <1>4

\* Steps of a call that move it from one position to another and leave the
\* tokens of the tab and its flag alone.
LEMMA CallMovesTo ==
  ASSUME TabsInv, NEW c \in Calls,
         NEW pc \in {"idle", "known", "denied", "queued", "leaving"} \cup Pending \cup Settled,
         pc # "asking",
         \/ call' = [call EXCEPT ![c].pc = pc]
         \/ call' = [call EXCEPT ![c] = Done(pc)] /\ pc \notin {"known", "rotating"},
         UNCHANGED <<now, expiry, black, refreshing>>, drops' \in 0..MaxDrops,
         store' \in [access : 0..MaxTokens, refresh : 0..Undefined],
         call[c].pc \in Pending \cup {"tokenless"} => pc \in Pending \cup {"tokenless"},
         pc \in {"known", "rotating"} => Issued(call[c].token),
         pc \in {"rotating", "renewed"} => ~call[c].late,
         pc = "known" /\ call[c].late => call[c].kind = "preview"
  PROVE  TabsInv'
<1>1. call[c] \in CallType /\ CallOK(c)
  BY DEF TabsInv
<1>2. PICK j \in CallType : /\ call' = [call EXCEPT ![c] = j] /\ j.pc = pc
                            /\ j = [call[c] EXCEPT !.pc = pc]
                               \/ (j = Done(pc) /\ pc \notin {"known", "rotating"})
  <2>1. CASE call' = [call EXCEPT ![c].pc = pc]
    <3> DEFINE e == [call[c] EXCEPT !.pc = pc]
    <3>1. call' = [call EXCEPT ![c] = e]
      BY <2>1
    <3>2. e \in CallType /\ e.pc = pc
      BY <1>1 DEF CallType
    <3>3. QED
      BY <3>1, <3>2
  <2>2. CASE call' = [call EXCEPT ![c] = Done(pc)] /\ pc \notin {"known", "rotating"}
    BY <1>1, <2>2, CallTypes
  <2>3. QED
    BY <2>1, <2>2
<1>3. Good(j)
  <2>1. CASE j = [call[c] EXCEPT !.pc = pc]
    <3>1. /\ j.pc = pc /\ j.token = call[c].token /\ j.late = call[c].late
          /\ j.kind = call[c].kind /\ pc # "sent"
      BY <1>1, <2>1, CallTypes DEF Pending, Settled
    <3>2. QED
      BY <3>1 DEF Good
  <2>2. CASE j = Done(pc) /\ pc \notin {"known", "rotating"}
    <3>1. j.pc = pc /\ j.late = FALSE
      BY <1>1, <2>2, CallTypes
    <3>2. QED
      BY <2>2, <3>1 DEF Good
  <2>3. QED
    BY <1>2, <2>1, <2>2
<1>4. /\ call' \in [Calls -> CallType] /\ call'[c].pc = pc
      /\ \A d \in Calls \ {c} : call'[d] = call[d]
  BY <1>2 DEF TabsInv
<1>5. RefreshHasOwner' /\ refreshing' \in [Tabs -> BOOLEAN]
  BY <1>4, OwnerStays DEF TabsInv
<1>6. QED
  BY <1>2, <1>3, <1>5, CallMoves

(* The clock: a revoked token stays revoked as time passes.                *)
LEMMA ClockSafe ==
  ASSUME TabsInv, Tick
  PROVE  TabsInv'
<1>1. now' \in 1..MaxTime
  BY Lifetimes DEF Tick, TabsInv
<1>2. UNCHANGED <<expiry, black, store, refreshing, call, drops>>
  BY DEF Tick
<1>3. RefreshHasOwner' /\ TokensInOrder' /\ BlackOutlives' /\ \A c \in Calls : CallOK(c)'
  BY <1>2 DEF TabsInv, RefreshHasOwner, TokensInOrder, BlackOutlives, CallOK, Good, Issued, Revoked
<1>4. QED
  BY <1>1, <1>2, <1>3 DEF TabsInv

(* A call sent with the stored token; one revoked by now is marked late.   *)
LEMMA SendSafe ==
  ASSUME TabsInv, NEW c \in Calls, Send(c)
  PROVE  TabsInv'
<1>0. /\ call[c] \in CallType /\ call[c].pc = "idle" /\ store.access \in 0..Undefined
      /\ UNCHANGED <<now, expiry, black, store, refreshing, drops>>
  BY Lifetimes DEF TabsInv, Send, Undefined
<1>1. PICK kind \in AllCalls :
        call' = [call EXCEPT ![c] = Sent([call[c] EXCEPT !.kind = kind], store.access)]
  BY <1>0, AuthSessionAssumption DEF Send
<1> DEFINE j == Sent([call[c] EXCEPT !.kind = kind], store.access)
<1>2. [call[c] EXCEPT !.kind = kind] \in CallType
  BY <1>0 DEF CallType
<1>3. /\ j \in CallType /\ j.pc = "sent" /\ j.token = store.access
      /\ j.late = Revoked(store.access, "access")
  <2>1. ASSUME NEW k \in 0..Undefined, NEW e \in CallType
        PROVE  /\ Sent(e, k) \in CallType /\ Sent(e, k).pc = "sent"
               /\ Sent(e, k).token = k /\ Sent(e, k).late = Revoked(k, "access")
    BY CallTypes
  <2>2. QED
    BY <1>0, <1>2, <2>1
<1> HIDE DEF j
<1>4. /\ call' = [call EXCEPT ![c] = j] /\ call' \in [Calls -> CallType] /\ call'[c].pc = "sent"
      /\ \A d \in Calls \ {c} : call'[d] = call[d]
  BY <1>1, <1>3 DEF TabsInv, j
<1>5. RefreshHasOwner'
  BY <1>0, <1>4, OwnerStays DEF Pending
<1>6. Good(j)
  BY <1>3 DEF Good
<1>7. QED
  BY <1>0, <1>3, <1>4, <1>5, <1>6, CallMoves DEF TabsInv

(* The server checks the access token: a late call is denied, unless it is *)
(* the preview.                                                            *)
LEMMA AuthenticateSafe ==
  ASSUME TabsInv, NEW c \in Calls, Authenticate(c)
  PROVE  TabsInv'
<1>0. /\ call[c] \in CallType /\ CallOK(c) /\ call[c].pc = "sent"
      /\ UNCHANGED <<now, expiry, black, store, refreshing, drops>>
  BY DEF TabsInv, Authenticate
<1>1. PICK pc \in {"known", "denied"} :
        /\ call' = [call EXCEPT ![c].pc = pc]
        /\ pc = "known" => /\ Valid(call[c].token)
                           /\ call[c].kind = "preview" \/ ~LoggedOut(call[c].token)
  BY DEF Authenticate, CallTo
<1>2. pc = "known" => Issued(call[c].token) /\ (call[c].late => call[c].kind = "preview")
  BY <1>0, <1>1, RevokedIsBad DEF CallOK, Good, Valid
<1>3. QED
  BY <1>0, <1>1, <1>2, CallMovesTo DEF TabsInv, Pending

(* The server loads the user of a known call and serves or denies it.      *)
LEMMA ServeSafe ==
  ASSUME TabsInv, NEW c \in Calls, Serve(c)
  PROVE  TabsInv'
<1>0. call[c].pc = "known" /\ UNCHANGED <<now, expiry, black, store, refreshing, drops>>
  BY DEF Serve
<1>1. call' = [call EXCEPT ![c].pc = "denied"] \/ call' = [call EXCEPT ![c] = Done("ok")]
  BY DEF Serve, CallTo, Settle
<1>2. QED
  BY <1>0, <1>1, CallMovesTo DEF TabsInv, Pending, Settled

(* A logout ends in the browser by forgetting the tokens.                  *)
LEMMA LeaveSafe ==
  ASSUME TabsInv, NEW c \in Calls, Leave(c)
  PROVE  TabsInv'
<1>0. call[c].pc = "leaving" /\ UNCHANGED <<now, expiry, black, refreshing, drops>>
  BY DEF Leave
<1>1. PICK pc \in {"ok"} :
        /\ call' = [call EXCEPT ![c] = Done(pc)]
        /\ store' \in [access : 0..MaxTokens, refresh : 0..Undefined]
  BY Lifetimes DEF Leave, Settle, SignedOut, Missing, Undefined
<1>2. drops' \in 0..MaxDrops /\ call[c].pc \notin Pending \cup {"tokenless"}
  BY <1>0 DEF TabsInv, Pending
<1>3. QED
  BY <1>0, <1>1, <1>2, CallMovesTo DEF Settled, Pending

(* A refresh is refused or never answered; nothing is revoked or issued.   *)
LEMMA DropSafe ==
  ASSUME TabsInv, NEW c \in Calls, Drop(c)
  PROVE  TabsInv'
<1>0. UNCHANGED <<now, expiry, black, store, refreshing>> /\ drops' \in 0..MaxDrops
  BY Lifetimes DEF Drop, TabsInv
<1>1. PICK pc \in {"refused", "unanswered"} : call' = [call EXCEPT ![c].pc = pc]
  BY DEF Drop, CallTo
<1>2. store' \in [access : 0..MaxTokens, refresh : 0..Undefined] /\ pc \in Pending
  BY <1>0 DEF TabsInv, Pending
<1>3. QED
  BY <1>0, <1>1, <1>2, CallMovesTo DEF Pending

(* The server checks the refresh token: a late call is refused.            *)
LEMMA CheckRefreshSafe ==
  ASSUME TabsInv, NEW c \in Calls, CheckRefresh(c)
  PROVE  TabsInv'
<1>0. /\ call[c] \in CallType /\ CallOK(c) /\ call[c].pc = "asking"
      /\ UNCHANGED <<now, expiry, black, store, refreshing, drops>>
  BY DEF TabsInv, CheckRefresh
<1>1. PICK pc \in {"rotating", "refused"} :
        /\ call' = [call EXCEPT ![c].pc = pc]
        /\ pc = "rotating" => Valid(call[c].token) /\ ~Exchanged(call[c].token)
  BY DEF CheckRefresh, CallTo
<1>2. pc = "rotating" => Issued(call[c].token) /\ ~call[c].late
  BY <1>0, <1>1, RevokedIsBad DEF CallOK, Good, Valid
<1>3. QED
  BY <1>0, <1>1, <1>2, CallMovesTo DEF TabsInv, Pending

\* What calls know of tokens stays true while tokens are issued and revoked.
LEMMA TokensGrow ==
  ASSUME TabsInv, NEW d \in Calls, call'[d] = call[d],
         \A k \in Tokens : expiry[k] > 0 => expiry'[k] > 0,
         \A k \in Tokens, l \in Lists : black[k][l] > 0 => black'[k][l] > 0
  PROVE  CallOK(d)'
BY DEF TabsInv, CallOK, Good, Issued, Revoked, Lists

(* Logout puts the access token on the blacklist for as long as it lives.  *)
LEMMA LogoutSafe ==
  ASSUME TabsInv, NEW c \in Calls, Logout(c)
  PROVE  TabsInv'
<1> DEFINE k == call[c].token
<1>0. /\ call[c] \in CallType /\ CallOK(c) /\ call[c].pc = "known"
      /\ UNCHANGED <<now, expiry, store, refreshing, drops>>
  BY DEF TabsInv, Logout
<1>1. k \in Tokens /\ expiry[k] > 0 /\ ~call[c].late
  BY <1>0 DEF CallOK, Good, Issued, Logout
<1>2. /\ now \in 1..MaxTime /\ expiry[k] \in 0..(MaxTime + AccessLife + RefreshLife)
      /\ black \in [Tokens -> [Lists -> 0..(MaxTime + AccessLife + RefreshLife + Fallback)]]
  BY <1>1 DEF TabsInv
<1>3. \/ black' = [black EXCEPT ![k]["access"] = expiry[k]]
      \/ ~(now < expiry[k]) /\ black' = [black EXCEPT ![k]["access"] = now + Fallback]
      \/ UNCHANGED black
  BY <1>1 DEF Logout, Valid, Issued
<1> DEFINE Written == \A l \in Lists : (black'[k][l] = black[k][l]
                                        \/ (black'[k][l] > 0 /\ black'[k][l] >= expiry[k]))
<1>4. /\ black' \in [Tokens -> [Lists -> 0..(MaxTime + AccessLife + RefreshLife + Fallback)]]
      /\ Written
      /\ \A m \in Tokens \ {k} : black'[m] = black[m]
  <2>1. black[k] \in [Lists -> 0..(MaxTime + AccessLife + RefreshLife + Fallback)] /\ "access" \in Lists
    BY <1>1, <1>2 DEF Lists
  <2>2. ASSUME NEW e \in 1..(MaxTime + AccessLife + RefreshLife + Fallback), e >= expiry[k],
               black' = [black EXCEPT ![k]["access"] = e]
        PROVE  /\ black' \in [Tokens -> [Lists -> 0..(MaxTime + AccessLife + RefreshLife + Fallback)]]
               /\ Written
               /\ \A m \in Tokens \ {k} : black'[m] = black[m]
    BY <1>1, <1>2, <2>1, <2>2, Lifetimes
  <2>3. /\ expiry[k] \in 1..(MaxTime + AccessLife + RefreshLife + Fallback) /\ expiry[k] >= expiry[k]
        /\ ~(now < expiry[k]) => /\ now + Fallback \in 1..(MaxTime + AccessLife + RefreshLife + Fallback)
                                /\ now + Fallback >= expiry[k]
    BY <1>1, <1>2, Lifetimes
  <2>4. CASE UNCHANGED black
    BY <1>2, <2>4
  <2>5. QED
    BY <1>3, <2>2, <2>3, <2>4
<1>5. PICK j \in CallType : j = [call[c] EXCEPT !.pc = "leaving"] /\ j.pc = "leaving" /\ j.late = FALSE
  <2>1. call[c].late = FALSE
    BY <1>0, <1>1 DEF CallType
  <2> DEFINE e == [call[c] EXCEPT !.pc = "leaving"]
  <2>2. e \in CallType /\ e.pc = "leaving" /\ e.late = FALSE
    BY <1>0, <2>1 DEF CallType
  <2>3. QED
    BY <2>2
<1>6. /\ call' \in [Calls -> CallType] /\ call'[c] = j
      /\ \A d \in Calls \ {c} : call'[d] = call[d]
  <2>1. call' = [call EXCEPT ![c] = j]
    BY <1>5 DEF Logout, CallTo
  <2>2. QED
    BY <2>1 DEF TabsInv
<1> HIDE DEF k
<1>7. \A d \in Calls : CallOK(d)'
  <2>1. CallOK(c)'
    BY <1>5, <1>6 DEF CallOK, Good
  <2>2. \A l \in Tokens : /\ expiry[l] > 0 => expiry'[l] > 0
                        /\ \A i \in Lists : black[l][i] > 0 => black'[l][i] > 0
    BY <1>0, <1>1, <1>4
  <2>3. \A d \in Calls \ {c} : CallOK(d)'
    BY <1>6, <2>2, TokensGrow
  <2>4. QED
    BY <2>1, <2>3
<1>8. RefreshHasOwner'
  BY <1>0, <1>5, <1>6, OwnerStays DEF Pending
<1>9. BlackOutlives' /\ TokensInOrder'
  BY <1>0, <1>1, <1>4 DEF TabsInv, BlackOutlives, TokensInOrder
<1>10. QED
  BY <1>0, <1>4, <1>6, <1>7, <1>8, <1>9 DEF TabsInv

(* A refresh issues the next token and puts the old refresh token on the   *)
(* blacklist.                                                              *)
LEMMA RotateSafe ==
  ASSUME TabsInv, NEW c \in Calls, Rotate(c)
  PROVE  TabsInv'
<1> DEFINE k == call[c].token
           a == NextToken
<1>0. /\ call[c] \in CallType /\ CallOK(c) /\ call[c].pc = "rotating" /\ Unissued # {}
      /\ UNCHANGED <<now, store, refreshing, drops>>
  BY DEF TabsInv, Rotate
<1>1. CASE call' = [call EXCEPT ![c].pc = "refused"] /\ UNCHANGED <<black, expiry>>
  <2>1. PICK pc \in {"refused"} : call' = [call EXCEPT ![c].pc = pc]
    BY <1>1
  <2>2. /\ store' \in [access : 0..MaxTokens, refresh : 0..Undefined] /\ "refused" \in Pending
        /\ drops' \in 0..MaxDrops
    BY <1>0 DEF TabsInv, Pending
  <2>3. QED
    BY <1>0, <1>1, <2>1, <2>2, CallMovesTo
<1>2. CASE /\ black' = [black EXCEPT ![k]["refresh"] = expiry[k]]
           /\ expiry' = [expiry EXCEPT ![a] = now + AccessLife]
           /\ call' = [call EXCEPT ![c].pc = "renewed", ![c].new = a]
  <2>1. k \in Tokens /\ expiry[k] > 0 /\ ~call[c].late
    BY <1>0 DEF CallOK, Good, Issued
  <2>2. /\ a \in Tokens /\ expiry[a] = 0 /\ \A l \in Tokens : expiry[l] > 0 <=> l < a
    BY <1>0, NextTokenIs
  <2>3. /\ now \in 1..MaxTime
        /\ expiry \in [Tokens -> 0..(MaxTime + AccessLife + RefreshLife)]
        /\ black \in [Tokens -> [Lists -> 0..(MaxTime + AccessLife + RefreshLife + Fallback)]]
    BY DEF TabsInv
  <2> DEFINE e == [call[c] EXCEPT !.pc = "renewed", !.new = a]
  <2>4. e \in CallType /\ e.pc = "renewed" /\ e.late = FALSE
    <3>1. a \in 0..MaxTokens /\ call[c].late = FALSE
      BY <1>0, <2>1, <2>2, Lifetimes DEF Tokens, CallType
    <3>2. QED
      BY <1>0, <3>1 DEF CallType, Pending
  <2>5. /\ call' \in [Calls -> CallType] /\ call'[c] = e
        /\ \A d \in Calls \ {c} : call'[d] = call[d]
    <3>1. call' = [call EXCEPT ![c] = e]
      BY <1>2
    <3> HIDE DEF e
    <3>2. QED
      BY <2>4, <3>1 DEF TabsInv
  <2> HIDE DEF e, k, a
  <2>6. /\ expiry' \in [Tokens -> 0..(MaxTime + AccessLife + RefreshLife)]
        /\ expiry'[a] > 0 /\ \A l \in Tokens \ {a} : expiry'[l] = expiry[l]
    BY <1>2, <2>2, <2>3, Lifetimes
  <2>7. /\ black' \in [Tokens -> [Lists -> 0..(MaxTime + AccessLife + RefreshLife + Fallback)]]
        /\ black'[k]["refresh"] = expiry[k] /\ black'[k]["access"] = black[k]["access"]
        /\ \A l \in Tokens \ {k} : black'[l] = black[l]
    <3>1. /\ black[k] \in [Lists -> 0..(MaxTime + AccessLife + RefreshLife + Fallback)]
          /\ "refresh" \in Lists /\ "access" \in Lists
          /\ expiry[k] \in 0..(MaxTime + AccessLife + RefreshLife + Fallback)
      BY <2>1, <2>3, Lifetimes DEF Lists
    <3>2. QED
      BY <1>2, <2>1, <2>3, <3>1
  <2>8. TokensInOrder'
    <3>1. a \in 0..MaxTokens /\ \A l \in Tokens : expiry'[l] > 0 <=> l <= a
      BY <2>2, <2>3, <2>6, Lifetimes, SMTT(30) DEF Tokens
    <3>2. QED
      BY <3>1 DEF TokensInOrder
  <2>9. BlackOutlives'
    BY <2>1, <2>2, <2>3, <2>6, <2>7 DEF TabsInv, BlackOutlives, Lists
  <2>10. \A d \in Calls : CallOK(d)'
    <3>1. CallOK(c)'
      BY <2>4, <2>5 DEF CallOK, Good
    <3>2. \A l \in Tokens : /\ expiry[l] > 0 => expiry'[l] > 0
                        /\ \A i \in Lists : black[l][i] > 0 => black'[l][i] > 0
      BY <2>1, <2>2, <2>6, <2>7 DEF Lists
    <3>3. QED
      BY <2>5, <3>1, <3>2, TokensGrow
  <2>11. RefreshHasOwner'
    BY <1>0, <2>4, <2>5, OwnerStays DEF Pending
  <2>12. QED
    BY <1>0, <2>5, <2>6, <2>7, <2>8, <2>9, <2>10, <2>11 DEF TabsInv
<1>3. QED
  BY <1>1, <1>2 DEF Rotate, CallTo

(* A login issues the next two tokens.                                     *)
LEMMA LoginSafe ==
  ASSUME TabsInv, Login
  PROVE  TabsInv'
<1> DEFINE a == NextToken
<1>1. a \in Tokens /\ a + 1 \in Tokens /\ expiry[a] = 0 /\ \A l \in Tokens : expiry[l] > 0 <=> l < a
  BY TwoTokens, NextTokenIs DEF Login
<1>2. /\ now \in 1..MaxTime
      /\ expiry \in [Tokens -> 0..(MaxTime + AccessLife + RefreshLife)]
  BY DEF TabsInv
<1>3. /\ expiry' = [expiry EXCEPT ![a] = now + AccessLife, ![a + 1] = now + RefreshLife]
      /\ store' = [access |-> a, refresh |-> a + 1]
      /\ UNCHANGED <<now, black, refreshing, call, drops>>
  BY DEF Login
<1>4. store' \in [access : 0..MaxTokens, refresh : 0..Undefined]
  BY <1>1, <1>3, Lifetimes DEF Tokens, Undefined
<1> HIDE DEF a
<1>5. /\ expiry' \in [Tokens -> 0..(MaxTime + AccessLife + RefreshLife)]
      /\ expiry'[a] > 0 /\ expiry'[a + 1] > 0
      /\ \A l \in Tokens \ {a, a + 1} : expiry'[l] = expiry[l]
  BY <1>1, <1>2, <1>3, Lifetimes DEF Tokens
<1>6. \A l \in Tokens : expiry[l] > 0 => expiry'[l] > 0 /\ expiry'[l] = expiry[l]
  BY <1>1, <1>2, <1>5, Lifetimes DEF Tokens
<1>7. TokensInOrder'
  <2>1. a + 1 \in 0..MaxTokens /\ \A l \in Tokens : expiry'[l] > 0 <=> l <= a + 1
    BY <1>1, <1>2, <1>5, Lifetimes DEF Tokens
  <2>2. QED
    BY <2>1 DEF TokensInOrder
<1>8. BlackOutlives'
  BY <1>3, <1>6 DEF TabsInv, BlackOutlives
<1>9. \A d \in Calls : CallOK(d)'
  BY <1>3, <1>6, TokensGrow
<1>10. RefreshHasOwner'
  BY <1>3 DEF TabsInv, RefreshHasOwner
<1>11. QED
  BY <1>3, <1>4, <1>5, <1>7, <1>8, <1>9, <1>10 DEF TabsInv

\* The end of a refresh: the tab's flag is reset, and only calls of that tab
\* that were refreshing or waiting for it have moved.
LEMMA FlagReset ==
  ASSUME TabsInv, NEW c \in Calls,
         refreshing' = [refreshing EXCEPT ![TabOf[c]] = FALSE],
         \A d \in Calls : TabOf[d] # TabOf[c] => call'[d] = call[d]
  PROVE  RefreshHasOwner' /\ refreshing' \in [Tabs -> BOOLEAN]
<1>1. refreshing' \in [Tabs -> BOOLEAN] /\ TabOf[c] \in Tabs
  BY AuthSessionAssumption DEF TabsInv
<1>2. ASSUME NEW t \in Tabs, refreshing'[t]
      PROVE  \E d \in Calls : TabOf[d] = t /\ call'[d].pc \in Pending \cup {"tokenless"}
  <2>1. t # TabOf[c] /\ refreshing[t]
    BY <1>1, <1>2 DEF TabsInv
  <2>2. PICK d \in Calls : TabOf[d] = t /\ call[d].pc \in Pending \cup {"tokenless"}
    BY <2>1 DEF TabsInv, RefreshHasOwner
  <2>3. QED
    BY <2>1, <2>2
<1>3. QED
  BY <1>1, <1>2 DEF RefreshHasOwner

(* The tab stores the new token, and the calls that waited are sent again. *)
LEMMA RenewedSafe ==
  ASSUME TabsInv, NEW c \in Calls, Renewed(c)
  PROVE  TabsInv'
<1> DEFINE again == Waiting(TabOf[c]) \cup {c}
           k == call[c].new
<1>0. /\ call \in [Calls -> CallType] /\ UNCHANGED <<now, expiry, black, drops>>
      /\ store' = [access |-> k, refresh |-> Undefined]
      /\ refreshing' = [refreshing EXCEPT ![TabOf[c]] = FALSE]
      /\ call' = [d \in Calls |-> IF d \in again THEN Sent(call[d], k) ELSE call[d]]
  BY DEF TabsInv, Renewed
<1>1. k \in 0..MaxTokens /\ k \in 0..Undefined /\ \A d \in again : d \in Calls /\ TabOf[d] = TabOf[c]
  <2>1. k \in 0..MaxTokens
    BY <1>0 DEF CallType
  <2>2. QED
    BY <2>1, Lifetimes DEF Undefined, Waiting
<1>2. store' \in [access : 0..MaxTokens, refresh : 0..Undefined]
  BY <1>0, <1>1, Lifetimes DEF Undefined
<1> HIDE DEF k, again
<1>3. ASSUME NEW d \in again
      PROVE  /\ call'[d] \in CallType /\ call'[d].pc = "sent" /\ call'[d].token = k
             /\ call'[d].late = Revoked(k, "access")
  <2>1. call'[d] = Sent(call[d], k) /\ call[d] \in CallType
    BY <1>0, <1>1
  <2>2. ASSUME NEW l \in 0..Undefined, NEW e \in CallType
        PROVE  /\ Sent(e, l) \in CallType /\ Sent(e, l).pc = "sent"
               /\ Sent(e, l).token = l /\ Sent(e, l).late = Revoked(l, "access")
    BY CallTypes
  <2>3. QED
    BY <1>1, <2>1, <2>2
<1>4. \A d \in Calls \ again : call'[d] = call[d]
  BY <1>0
<1>5. call' \in [Calls -> CallType]
  <2>1. \A d \in Calls : call'[d] \in CallType
    BY <1>0, <1>3, <1>4
  <2>2. QED
    BY <1>0, <2>1
<1>6. \A d \in Calls : CallOK(d)'
  <2>1. \A d \in again : CallOK(d)'
    BY <1>0, <1>3 DEF CallOK, Good, Revoked
  <2>2. \A d \in Calls \ again : CallOK(d)'
    BY <1>0, <1>4, TokensGrow
  <2>3. QED
    BY <2>1, <2>2
<1>7. RefreshHasOwner' /\ refreshing' \in [Tabs -> BOOLEAN]
  BY <1>0, <1>1, <1>4, FlagReset
<1>8. TokensInOrder' /\ BlackOutlives'
  BY <1>0 DEF TabsInv, TokensInOrder, BlackOutlives
<1>9. QED
  BY <1>0, <1>2, <1>5, <1>6, <1>7, <1>8 DEF TabsInv

(* A refused refresh signs the tab out, and the calls that waited fail.    *)
LEMMA RefusedSafe ==
  ASSUME TabsInv, NEW c \in Calls, Refused(c)
  PROVE  TabsInv'
<1> DEFINE over == Waiting(TabOf[c]) \cup {c}
<1>0. /\ call \in [Calls -> CallType] /\ UNCHANGED <<now, expiry, black, drops>>
      /\ store' = SignedOut
      /\ refreshing' = [refreshing EXCEPT ![TabOf[c]] = FALSE]
      /\ call' = [d \in Calls |-> IF d \in over THEN Done("failed") ELSE call[d]]
  BY DEF TabsInv, Refused
<1>1. \A d \in over : d \in Calls /\ TabOf[d] = TabOf[c]
  BY DEF Waiting
<1>2. store' \in [access : 0..MaxTokens, refresh : 0..Undefined]
  BY <1>0, Lifetimes DEF Undefined, SignedOut, Missing
<1> HIDE DEF over
<1>3. Done("failed") \in CallType /\ Done("failed").pc = "failed" /\ Done("failed").late = FALSE
  BY <1>0, CallTypes DEF Settled
<1>4. /\ \A d \in Calls \ over : call'[d] = call[d]
      /\ \A d \in over : call'[d] = Done("failed")
  BY <1>0, <1>1
<1>5. call' \in [Calls -> CallType]
  BY <1>0, <1>3
<1>6. \A d \in Calls : CallOK(d)'
  <2>1. \A d \in over : CallOK(d)'
    BY <1>3, <1>4 DEF CallOK, Good
  <2>2. \A d \in Calls \ over : CallOK(d)'
    BY <1>0, <1>4, TokensGrow
  <2>3. QED
    BY <2>1, <2>2
<1>7. RefreshHasOwner' /\ refreshing' \in [Tabs -> BOOLEAN]
  BY <1>0, <1>1, <1>4, FlagReset
<1>8. TokensInOrder' /\ BlackOutlives'
  BY <1>0 DEF TabsInv, TokensInOrder, BlackOutlives
<1>9. QED
  BY <1>0, <1>2, <1>5, <1>6, <1>7, <1>8 DEF TabsInv

(* A 401: the call waits for the tab's refresh, starts one, or gives up.   *)
LEMMA DeniedSafe ==
  ASSUME TabsInv, NEW c \in Calls, Denied(c)
  PROVE  TabsInv'
<1> DEFINE t == TabOf[c]
<1>0. /\ call[c] \in CallType /\ call \in [Calls -> CallType] /\ call[c].pc = "denied"
      /\ store \in [access : 0..MaxTokens, refresh : 0..Undefined]
      /\ refreshing \in [Tabs -> BOOLEAN] /\ t \in Tabs
      /\ UNCHANGED <<now, expiry, black, drops>> /\ drops \in 0..MaxDrops
  BY AuthSessionAssumption DEF TabsInv, Denied
<1>1. CASE Abandon(c, "failed") /\ UNCHANGED <<store, refreshing>>
  <2>1. \/ call' = [call EXCEPT ![c].pc = "leaving"]
        \/ call' = [call EXCEPT ![c] = Done("failed")]
    BY <1>1 DEF Abandon, CallTo, Settle
  <2>2. QED
    BY <1>0, <1>1, <2>1, CallMovesTo DEF Settled, Pending
<1>2. CASE CallTo(c, "queued") /\ UNCHANGED <<store, refreshing>>
  <2>1. PICK pc \in {"queued"} : call' = [call EXCEPT ![c].pc = pc]
    BY <1>2 DEF CallTo
  <2>2. QED
    BY <1>0, <1>2, <2>1, CallMovesTo DEF Pending
<1>3. CASE /\ refreshing' = [refreshing EXCEPT ![t] = TRUE]
           /\ call' = [call EXCEPT ![c] = [@ EXCEPT
                !.pc = "asking", !.retry = TRUE, !.token = store.refresh,
                !.late = Revoked(store.refresh, "refresh")]]
           /\ UNCHANGED store
  <2> DEFINE j == [call[c] EXCEPT !.pc = "asking", !.retry = TRUE, !.token = store.refresh,
                                  !.late = Revoked(store.refresh, "refresh")]
  <2>1. /\ j \in CallType /\ j.pc = "asking" /\ j.token = store.refresh
        /\ j.late = Revoked(store.refresh, "refresh")
    <3>1. Revoked(store.refresh, "refresh") \in BOOLEAN /\ store.refresh \in 0..Undefined
      BY <1>0 DEF Revoked
    <3>2. QED
      BY <1>0, <3>1 DEF CallType, Pending
  <2>2. call' = [call EXCEPT ![c] = j]
    BY <1>3
  <2> HIDE DEF j
  <2>3. call'[c] = j /\ \A d \in Calls \ {c} : call'[d] = call[d]
    BY <1>0, <2>2
  <2>4. RefreshHasOwner' /\ refreshing' \in [Tabs -> BOOLEAN]
    BY <1>0, <1>3, <2>1, <2>3 DEF TabsInv, RefreshHasOwner, Pending
  <2>5. /\ store' \in [access : 0..MaxTokens, refresh : 0..Undefined] /\ drops' \in 0..MaxDrops
        /\ Good(j)
    BY <1>0, <1>3, <2>1 DEF Good
  <2>6. QED
    BY <1>0, <2>1, <2>2, <2>4, <2>5, CallMoves
<1>4. CASE /\ refreshing' = [refreshing EXCEPT ![t] = TRUE]
           /\ Settle(c, "tokenless")
           /\ store' = IF call[c].kind = "logout" THEN SignedOut ELSE store
  <2> DEFINE j == Done("tokenless")
  <2>1. j \in CallType /\ j.pc = "tokenless" /\ j.late = FALSE
    BY <1>0, CallTypes DEF Settled
  <2>2. call' = [call EXCEPT ![c] = j]
    BY <1>4 DEF Settle
  <2> HIDE DEF j
  <2>3. call'[c] = j /\ \A d \in Calls \ {c} : call'[d] = call[d]
    BY <1>0, <2>2
  <2>4. RefreshHasOwner' /\ refreshing' \in [Tabs -> BOOLEAN]
    BY <1>0, <1>4, <2>1, <2>3 DEF TabsInv, RefreshHasOwner, Pending
  <2>5. store' \in [access : 0..MaxTokens, refresh : 0..Undefined]
    BY <1>0, <1>4, Lifetimes DEF SignedOut, Missing, Undefined
  <2>6. Good(j)
    BY <2>1 DEF Good
  <2>7. QED
    BY <1>0, <2>1, <2>2, <2>4, <2>5, <2>6, CallMoves
<1>5. QED
  BY <1>1, <1>2, <1>3, <1>4 DEF Denied

(* The browser's half of the invariant is inductive.                       *)
LEMMA TabsSafe ==
  /\ TabsInit => TabsInv
  /\ TabsInv /\ [TabsNext]_tabVars => TabsInv'
<1>1. ASSUME TabsInit PROVE TabsInv
  <2>1. \A c \in Calls : call[c] = IdleCall
    BY <1>1 DEF TabsInit
  <2>2. IdleCall \in CallType /\ IdleCall.pc = "idle" /\ IdleCall.late = FALSE
    BY Lifetimes DEF IdleCall, CallType, Missing, Undefined, AllCalls
  <2>3. TokensInOrder
    <3>1. 0 \in 0..MaxTokens /\ \A k \in Tokens : expiry[k] > 0 <=> k <= 0
      BY <1>1, Lifetimes DEF TabsInit, Tokens
    <3>2. QED
      BY <3>1 DEF TokensInOrder
  <2>4. BlackOutlives /\ RefreshHasOwner /\ \A c \in Calls : CallOK(c)
    BY <1>1, <2>1, <2>2 DEF TabsInit, BlackOutlives, RefreshHasOwner, CallOK, Good, Lists
  <2>5. QED
    BY <1>1, <2>1, <2>2, <2>3, <2>4, Lifetimes
    DEF TabsInit, TabsInv, Missing, Undefined, Lists
<1>2. ASSUME TabsInv, [TabsNext]_tabVars PROVE TabsInv'
  <2>1. CASE UNCHANGED tabVars
    BY <1>2, <2>1 DEF tabVars, TabsInv, TokensInOrder, BlackOutlives, RefreshHasOwner,
                      CallOK, Good, Issued, Revoked
  <2>2. ASSUME NEW c \in Calls, Send(c) \/ Drop(c) \/ Progress(c) PROVE TabsInv'
    BY <1>2, <2>2, SendSafe, DropSafe, AuthenticateSafe, ServeSafe, LogoutSafe, LeaveSafe,
       DeniedSafe, CheckRefreshSafe, RotateSafe, RenewedSafe, RefusedSafe DEF Progress
  <2>3. QED
    BY <1>2, <2>1, <2>2, ClockSafe, LoginSafe DEF TabsNext
<1>3. QED
  BY <1>1, <1>2

-----------------------------------------------------------------------------
(* Accounts: the tables, the bootstrap and the requests.                    *)

(* What the assumptions say of actors, requests and names.                 *)
LEMMA ActorSets ==
  /\ Actors \subseteq Ids /\ Procs \subseteq Actors /\ Requests \subseteq Actors
  /\ Owner \in Ids /\ None \notin Ids /\ None \notin Names /\ AdminName \in Names
  /\ Procs \cap Requests = {}
BY AccountsAssumption DEF Actors, Ids

\* One actor moves; the others keep what they rely on.
LEMMA ActorMoves ==
  ASSUME AccountsInv, NEW a \in Actors, NEW j \in AccountJob, job' = [job EXCEPT ![a] = j],
         job[a].pc # "ok", j.pc # "idle",
         row' \in [Ids -> [state : {"absent", "live", "deleted"}, name : Names \cup {None},
                          role : Roles, active : BOOLEAN]],
         code' \in [Codes -> [state : {"absent", "dated", "open", "used"}, by : Ids \cup {None}]],
         providers' \subseteq Actors, NamesUnique',
         \A i \in Ids \ {a} : Live(i)' => Live(i),
         HaveCodes => HaveCodes', Provided => Provided',
         Admins # {} \/ Tampered => Admins' # {} \/ Tampered',
         a \in Requests => RequestOK(a)', a \in Procs => BootOK(a)' /\ RestartOK(a)'
  PROVE  AccountsInv'
<1>0. /\ AccountsTypeOK /\ \A r \in Requests : RequestOK(r)
      /\ \A p \in Procs : BootOK(p) /\ RestartOK(p)
      /\ \A b \in Actors : job[b].pc = "idle" => job[b] = IdleJob
  BY DEF AccountsInv
<1>1. /\ job' \in [Actors -> AccountJob] /\ job'[a] = j
      /\ \A b \in Actors \ {a} : job'[b] = job[b]
  BY <1>0 DEF AccountsTypeOK
<1>2. AccountsTypeOK'
  BY <1>1 DEF AccountsTypeOK
<1>3. \A b \in Actors : job'[b].pc = "idle" => job'[b] = IdleJob
  BY <1>0, <1>1
<1>4. \A r \in Requests : RequestOK(r)'
  BY <1>0, <1>1, ActorSets DEF RequestOK
<1>5. (Tampered => Tampered') /\ (Shelved => Shelved')
  BY <1>1, ActorSets DEF Tampered, Shelved
<1>6. \A p \in Procs : BootOK(p)' /\ RestartOK(p)'
  <2>1. CASE a \in Procs
    <3>1. \A p \in Procs \ {a} : job'[p] = job[p]
      BY <1>1, ActorSets
    <3>2. \A p \in Procs \ {a} : BootOK(p)' /\ RestartOK(p)'
      BY <1>0, <1>5, <3>1 DEF BootOK, RestartOK
    <3>3. QED
      BY <2>1, <3>2
  <2>2. CASE a \notin Procs
    <3>1. \A p \in Procs : job'[p] = job[p]
      BY <1>1, <2>2, ActorSets
    <3>2. QED
      BY <1>0, <1>5, <3>1 DEF BootOK, RestartOK
  <2>3. QED
    BY <2>1, <2>2
<1>7. QED
  BY <1>2, <1>3, <1>4, <1>6 DEF AccountsInv

\* A step that writes none of the tables.
LEMMA QuietMove ==
  ASSUME AccountsInv, NEW a \in Actors, NEW j \in AccountJob, job' = [job EXCEPT ![a] = j],
         job[a].pc # "ok", j.pc # "idle",
         UNCHANGED <<row, code, providers>>,
         a \in Requests => RequestOK(a)', a \in Procs => BootOK(a)' /\ RestartOK(a)'
  PROVE  AccountsInv'
<1>1. \A b \in Actors \ {a} : job'[b] = job[b]
  BY DEF AccountsInv, AccountsTypeOK
<1>2. Admins' = Admins /\ HaveCodes' = HaveCodes /\ \A i \in Ids : Live(i)' = Live(i)
  BY DEF Admins, HaveCodes, Live
<1>3. (Tampered => Tampered') /\ (Provided => Provided')
  BY <1>1, ActorSets DEF Tampered, Shelved, Provided
<1>4. NamesUnique'
  BY DEF AccountsInv, NamesUnique, Live
<1>5. /\ row' \in [Ids -> [state : {"absent", "live", "deleted"}, name : Names \cup {None},
                           role : Roles, active : BOOLEAN]]
      /\ code' \in [Codes -> [state : {"absent", "dated", "open", "used"}, by : Ids \cup {None}]]
      /\ providers' \subseteq Actors
  BY DEF AccountsInv, AccountsTypeOK
<1>6. QED
  BY <1>2, <1>3, <1>4, <1>5, ActorMoves

\* What an actor that moves relies on, by its new values.
LEMMA RequestIs ==
  ASSUME NEW r \in Requests, NEW j, job'[r] = j, row'[r].state # "live" \/ j.pc \notin {"idle", "registering"},
         j.pc = "updating" => j.kind = "update",
         j.pc = "deleting" => j.kind = "delete",
         j.pc = "registering" => j.kind = "register",
         j.pc = "saving" => j.kind = "profile",
         j.pc = "inviting" => j.kind = "invite"
  PROVE  RequestOK(r)'
BY DEF RequestOK, Live

\* What a new read view shows.
LEMMA ViewShows ==
  /\ View \subseteq {"codes", "providers"}
  /\ "codes" \in View <=> HaveCodes
  /\ "providers" \in View <=> providers # {}
BY DEF View, HaveCodes

\* The end of an actor, with and without success.
LEMMA EndIs ==
  ASSUME NEW j \in AccountJob, NEW pc \in {"ok", "failed"}
  PROVE  /\ Ended(j, pc) \in AccountJob /\ Ended(j, pc).pc = pc /\ Ended(j, pc).kind = j.kind
         /\ Ended(j, pc).made = j.made
         /\ Ended(j, pc).after = j.after /\ Ended(j, pc).view = {}
<1>1. /\ j.kind \in Kinds \cup {"none", "boot"}
      /\ j.made \in SUBSET {"admin", "codes", "provider"} /\ j.after \in SUBSET Actors
  BY DEF AccountJob
<1>2. Ended(j, pc) \in AccountJob
  BY <1>1, ZenonT(60) DEF AccountJob, Ended, IdleJob
<1>3. /\ Ended(j, pc).pc = pc /\ Ended(j, pc).kind = j.kind
      /\ Ended(j, pc).made = j.made
      /\ Ended(j, pc).after = j.after /\ Ended(j, pc).view = {}
  BY DEF Ended, IdleJob
<1>4. QED
  BY <1>2, <1>3

(* An operation that fails and is rolled back changes no table.            *)
LEMMA FailSafe ==
  ASSUME AccountsInv, NEW a \in Actors, job[a].pc \notin {"ok", "idle"}, Fail(a)
  PROVE  AccountsInv'
<1>0. job \in [Actors -> AccountJob] /\ job[a] \in AccountJob
  BY DEF AccountsInv, AccountsTypeOK
<1> DEFINE j == [IdleJob EXCEPT !.pc = "failed", !.made = job[a].made, !.after = job[a].after]
<1>1. /\ j \in AccountJob /\ j.pc = "failed" /\ j.kind = "none" /\ j.view = {}
      /\ j.made = job[a].made /\ j.after = job[a].after
  BY <1>0, ZenonT(60) DEF AccountJob, IdleJob
<1>2. job' = [job EXCEPT ![a] = j] /\ UNCHANGED <<row, code, providers>>
  BY DEF Fail
<1> HIDE DEF j
<1>3. job'[a] = j
  BY <1>0, <1>2
<1>4. a \in Requests => RequestOK(a)'
  BY <1>1, <1>3, RequestIs
<1>5. ASSUME a \in Procs PROVE BootOK(a)' /\ RestartOK(a)'
  <2>1. (Tampered => Tampered') /\ (Shelved => Shelved')
    BY <1>0, <1>2, <1>5, ActorSets DEF Tampered, Shelved
  <2>2. RestartOK(a)
    BY <1>5 DEF AccountsInv
  <2>3. BootOK(a)'
    BY <1>1, <1>3 DEF BootOK, PastAdmin, PastCodes
  <2>4. QED
    BY <1>1, <1>2, <1>3, <2>1, <2>2, <2>3 DEF RestartOK, HaveCodes, Provided
<1>6. QED
  BY <1>1, <1>2, <1>4, <1>5, QuietMove

\* A process in the bootstrap writes none of the tables.
LEMMA BootMove ==
  ASSUME AccountsInv, NEW p \in Procs, NEW j \in AccountJob, job' = [job EXCEPT ![p] = j],
         job[p].pc # "ok", j.pc # "idle", UNCHANGED <<row, code, providers>>,
         j.pc \in PastAdmin => Admins # {} \/ Tampered,
         j.pc \in PastCodes => HaveCodes,
         j.pc = "ok" /\ HasKey => Provided,
         j.pc = "insertProvider" => HasKey,
         "codes" \in j.view => HaveCodes,
         "providers" \in j.view => Provided,
         j.after # {} =>
           /\ HaveCodes /\ (HasKey => Provided)
           /\ j.pc \in {"codes", "providers"} =>
                "codes" \in j.view /\ (HasKey => "providers" \in j.view \/ Shelved)
           /\ j.pc \notin {"insertCodes", "viewProviders"} /\ "codes" \notin j.made
           /\ j.pc = "insertProvider" \/ "provider" \in j.made => Shelved
           /\ j.pc = "insertAdmin" \/ "admin" \in j.made => Tampered
  PROVE  AccountsInv'
<1>1. p \in Actors /\ p \notin Requests
  BY ActorSets
<1>2. job'[p] = j /\ \A r \in Requests : job'[r] = job[r]
  BY <1>1 DEF AccountsInv, AccountsTypeOK
<1>3. (Tampered <=> Tampered') /\ (Shelved <=> Shelved') /\ (Admins # {} <=> Admins' # {}) /\ (HaveCodes <=> HaveCodes')
  BY <1>2 DEF Tampered, Shelved, Admins, Live, HaveCodes
<1>4. BootOK(p)'
  BY <1>2, <1>3 DEF BootOK, Provided
<1>5. RestartOK(p)'
  BY <1>2, <1>3 DEF RestartOK, Provided
<1>6. QED
  BY <1>1, <1>4, <1>5, QuietMove

(* The bootstrap looks for an administrator.                               *)
LEMMA BootAdminSafe ==
  ASSUME AccountsInv, NEW p \in Procs, BootAdmin(p)
  PROVE  AccountsInv'
<1>0. /\ p \in Actors /\ job \in [Actors -> AccountJob] /\ job[p] = IdleJob /\ job[p].pc = "idle"
      /\ UNCHANGED <<row, code, providers>>
  BY ActorSets DEF AccountsInv, AccountsTypeOK, BootAdmin
<1>1. PICK pc \in {"insertAdmin", "codes", "failed"} :
        /\ pc = IF Admins = {} THEN "insertAdmin"
                ELSE IF Cardinality(Admins) = 1 THEN "codes" ELSE "failed"
        /\ job' = [job EXCEPT ![p] = [job[p] EXCEPT !.kind = "boot", !.view = View,
                                                    !.after = Booted, !.pc = pc]]
  BY <1>0 DEF BootAdmin
<1> DEFINE j == [job[p] EXCEPT !.kind = "boot", !.view = View, !.after = Booted, !.pc = pc]
<1>2. Booted \subseteq Actors /\ View \in SUBSET {"codes", "providers"}
  BY ActorSets, ViewShows DEF Booted
<1>3. /\ j \in AccountJob /\ j.pc = pc /\ j.view = View /\ j.after = Booted /\ j.made = {}
  <2>1. job[p] \in AccountJob /\ job[p].made = {}
    BY <1>0 DEF IdleJob
  <2>2. j.pc = pc /\ j.view = View /\ j.after = Booted /\ j.made = {}
    BY <2>1 DEF AccountJob
  <2>3. j \in AccountJob
    <3>1. /\ Booted \in SUBSET Actors /\ View \in SUBSET {"codes", "providers"}
          /\ pc \in {"insertAdmin", "codes", "failed"}
      BY <1>2
    <3>2. QED
      BY <2>1, <3>1, ZenonT(60) DEF AccountJob
  <2>4. QED
    BY <2>2, <2>3
<1>4. job' = [job EXCEPT ![p] = j]
  BY <1>1
<1> HIDE DEF j
<1>5. Booted # {} => HaveCodes /\ (HasKey => Provided) /\ (Admins # {} \/ Tampered)
  BY DEF Booted, AccountsInv, BootOK, PastAdmin, PastCodes
<1>6. /\ pc \notin PastCodes /\ pc # "ok" /\ pc # "insertProvider" /\ pc # "idle"
      /\ pc \in PastAdmin => Admins # {}
      /\ pc = "insertAdmin" => Admins = {}
  BY <1>1 DEF PastCodes, PastAdmin
<1>7. /\ j.pc \in PastAdmin => Admins # {} \/ Tampered
      /\ j.pc \in PastCodes => HaveCodes
      /\ j.pc = "ok" /\ HasKey => Provided
      /\ j.pc = "insertProvider" => HasKey
      /\ "codes" \in j.view => HaveCodes
      /\ "providers" \in j.view => Provided
  BY <1>3, <1>6, ViewShows DEF Provided
<1>8. j.after # {} =>
        /\ HaveCodes /\ (HasKey => Provided)
        /\ j.pc \in {"codes", "providers"} =>
             "codes" \in j.view /\ (HasKey => "providers" \in j.view \/ Shelved)
        /\ j.pc \notin {"insertCodes", "viewProviders"} /\ "codes" \notin j.made
        /\ j.pc = "insertProvider" \/ "provider" \in j.made => Shelved
        /\ j.pc = "insertAdmin" \/ "admin" \in j.made => Tampered
  BY <1>3, <1>5, <1>6, ViewShows DEF Provided
<1>9. job[p].pc # "ok" /\ j.pc # "idle"
  BY <1>0, <1>3
<1>10. QED
  BY <1>0, <1>3, <1>4, <1>7, <1>8, <1>9, BootMove

(* The bootstrap inserts the administrator, unless the name is taken.      *)
LEMMA InsertAdminSafe ==
  ASSUME AccountsInv, NEW p \in Procs, InsertAdmin(p)
  PROVE  AccountsInv'
<1>0. /\ p \in Actors /\ p \in Ids /\ p \notin Requests /\ job \in [Actors -> AccountJob]
      /\ job[p].pc = "insertAdmin" /\ job[p] \in AccountJob /\ AccountsTypeOK
  BY ActorSets DEF AccountsInv, AccountsTypeOK, InsertAdmin
<1>1. CASE Fail(p)
  BY <1>0, <1>1, FailSafe
<1>2. CASE /\ ~NameTaken(AdminName)
           /\ row' = [row EXCEPT ![p] = User(AdminName, "admin")]
           /\ job' = [job EXCEPT ![p].pc = "viewCodes", ![p].made = @ \cup {"admin"}]
           /\ UNCHANGED <<code, providers>>
  <2> DEFINE j == [job[p] EXCEPT !.pc = "viewCodes", !.made = @ \cup {"admin"}]
             u == User(AdminName, "admin")
  <2>1. /\ j \in AccountJob /\ j.pc = "viewCodes" /\ j.made = job[p].made \cup {"admin"}
        /\ j.view = job[p].view /\ j.after = job[p].after
    BY <1>0 DEF AccountJob
  <2>2. job' = [job EXCEPT ![p] = j]
    BY <1>0, <1>2
  <2>3. /\ u \in [state : {"absent", "live", "deleted"}, name : Names \cup {None},
                  role : Roles, active : BOOLEAN]
        /\ u.state = "live" /\ u.name = AdminName /\ u.role = "admin"
    BY ActorSets DEF User, Roles
  <2> HIDE DEF j, u
  <2>4. /\ row' \in [Ids -> [state : {"absent", "live", "deleted"}, name : Names \cup {None},
                            role : Roles, active : BOOLEAN]]
        /\ row'[p] = u /\ \A i \in Ids \ {p} : row'[i] = row[i]
    BY <1>0, <1>2, <2>3 DEF AccountsTypeOK, u
  <2>5. NamesUnique'
    BY <1>2, <2>3, <2>4 DEF AccountsInv, NamesUnique, NameTaken, Live
  <2>6. job'[p] = j /\ \A r \in Requests : job'[r] = job[r]
    BY <1>0, <2>2
  <2>7. Admins' # {} /\ (Tampered <=> Tampered') /\ (Shelved <=> Shelved') /\ (HaveCodes <=> HaveCodes')
    <3>1. p \in Admins'
      BY <1>0, <2>3, <2>4 DEF Admins, Live
    <3>2. (Tampered <=> Tampered') /\ (Shelved <=> Shelved') /\ (HaveCodes <=> HaveCodes')
      BY <1>2, <2>6 DEF Tampered, Shelved, HaveCodes
    <3>3. QED
      BY <3>1, <3>2
  <2>8. BootOK(p) /\ RestartOK(p)
    BY DEF AccountsInv
  <2>9. BootOK(p)'
    BY <1>0, <1>2, <2>1, <2>6, <2>7, <2>8 DEF BootOK, PastAdmin, PastCodes, Provided
  <2>10. RestartOK(p)'
    BY <1>0, <1>2, <2>1, <2>6, <2>7, <2>8 DEF RestartOK, Provided
  <2>11. code' \in [Codes -> [state : {"absent", "dated", "open", "used"}, by : Ids \cup {None}]]
         /\ providers' \subseteq Actors /\ (Provided => Provided')
    BY <1>0, <1>2, <2>7 DEF AccountsTypeOK, Provided
  <2>12. \A i \in Ids \ {p} : Live(i)' => Live(i)
    BY <2>4 DEF Live
  <2>13. QED
    BY <1>0, <1>2, <2>1, <2>2, <2>4, <2>5, <2>7, <2>9, <2>10, <2>11, <2>12, ActorMoves
<1>3. QED
  BY <1>1, <1>2 DEF InsertAdmin

(* The bootstrap decides by its read view whether to insert codes.         *)
LEMMA BootCodesSafe ==
  ASSUME AccountsInv, NEW p \in Procs, BootCodes(p)
  PROVE  AccountsInv'
<1>0. /\ p \in Actors /\ job \in [Actors -> AccountJob] /\ job[p] \in AccountJob
      /\ job[p].pc \in {"codes", "viewCodes"} /\ UNCHANGED <<row, code, providers>>
      /\ BootOK(p) /\ RestartOK(p)
  BY ActorSets DEF AccountsInv, AccountsTypeOK, BootCodes
<1> DEFINE seen == Sees(p, "viewCodes")
           pc == IF "codes" \in seen THEN "providers" ELSE "insertCodes"
           j == [job[p] EXCEPT !.view = seen, !.pc = pc]
<1>1. /\ seen \in SUBSET {"codes", "providers"}
      /\ seen = View \/ (seen = job[p].view /\ job[p].pc = "codes")
  BY <1>0, ViewShows DEF Sees, AccountJob
<1>2. pc \in {"providers", "insertCodes"} /\ (pc = "providers" <=> "codes" \in seen)
  OBVIOUS
<1>3. job' = [job EXCEPT ![p] = j]
  BY <1>0 DEF BootCodes
<1> HIDE DEF seen, pc
<1>4. /\ j \in AccountJob /\ j.pc = pc /\ j.view = seen
      /\ j.made = job[p].made /\ j.after = job[p].after
  BY <1>0, <1>1, <1>2, ZenonT(60) DEF AccountJob
<1> HIDE DEF j
<1>5. ("codes" \in seen => HaveCodes) /\ ("providers" \in seen => Provided)
  BY <1>0, <1>1, ViewShows DEF BootOK, Provided
<1>6. /\ j.pc \in PastAdmin => Admins # {} \/ Tampered
      /\ j.pc \in PastCodes => HaveCodes
      /\ j.pc = "ok" /\ HasKey => Provided
      /\ j.pc = "insertProvider" => HasKey
      /\ "codes" \in j.view => HaveCodes
      /\ "providers" \in j.view => Provided
  BY <1>0, <1>2, <1>4, <1>5 DEF BootOK, PastAdmin, PastCodes
<1>7. j.after # {} => "codes" \in seen /\ (HasKey => "providers" \in seen \/ Shelved)
  BY <1>0, <1>1, <1>4, ViewShows DEF RestartOK, Provided
<1>8. j.after # {} =>
        /\ HaveCodes /\ (HasKey => Provided)
        /\ j.pc \in {"codes", "providers"} =>
             "codes" \in j.view /\ (HasKey => "providers" \in j.view \/ Shelved)
        /\ j.pc \notin {"insertCodes", "viewProviders"} /\ "codes" \notin j.made
        /\ j.pc = "insertProvider" \/ "provider" \in j.made => Shelved
        /\ j.pc = "insertAdmin" \/ "admin" \in j.made => Tampered
  BY <1>0, <1>2, <1>4, <1>7 DEF RestartOK
<1>9. job[p].pc # "ok" /\ j.pc # "idle"
  BY <1>0, <1>2, <1>4
<1>10. QED
  BY <1>0, <1>3, <1>4, <1>6, <1>8, <1>9, BootMove

(* The bootstrap decides by its read view whether to insert a provider.    *)
LEMMA BootProvidersSafe ==
  ASSUME AccountsInv, NEW p \in Procs, BootProviders(p)
  PROVE  AccountsInv'
<1>0. /\ p \in Actors /\ job \in [Actors -> AccountJob] /\ job[p] \in AccountJob
      /\ job[p].pc \in {"providers", "viewProviders"} /\ UNCHANGED <<row, code, providers>>
      /\ BootOK(p) /\ RestartOK(p)
  BY ActorSets DEF AccountsInv, AccountsTypeOK, BootProviders
<1> DEFINE seen == Sees(p, "viewProviders")
<1>1. /\ "providers" \in seen => Provided
      /\ job[p].after # {} /\ HasKey => "providers" \in seen \/ Shelved
  BY <1>0, ViewShows DEF Sees, BootOK, RestartOK, Provided
<1>2. PICK j \in AccountJob :
        /\ job' = [job EXCEPT ![p] = j] /\ j.made = job[p].made /\ j.after = job[p].after
        /\ \/ HasKey /\ "providers" \notin seen /\ j.pc = "insertProvider" /\ j.view = job[p].view
           \/ (HasKey => "providers" \in seen) /\ j.pc = "ok" /\ j.view = {}
  <2>1. CASE HasKey /\ "providers" \notin seen
    <3>1. job' = [job EXCEPT ![p] = [job[p] EXCEPT !.pc = "insertProvider"]]
      BY <1>0, <2>1 DEF BootProviders, Go
    <3>2. /\ [job[p] EXCEPT !.pc = "insertProvider"] \in AccountJob
          /\ [job[p] EXCEPT !.pc = "insertProvider"].pc = "insertProvider"
          /\ [job[p] EXCEPT !.pc = "insertProvider"].made = job[p].made
          /\ [job[p] EXCEPT !.pc = "insertProvider"].after = job[p].after
          /\ [job[p] EXCEPT !.pc = "insertProvider"].view = job[p].view
      BY <1>0 DEF AccountJob
    <3>3. QED
      BY <2>1, <3>1, <3>2
  <2>2. CASE ~(HasKey /\ "providers" \notin seen)
    <3>1. job' = [job EXCEPT ![p] = Ended(job[p], "ok")]
      BY <1>0, <2>2 DEF BootProviders, End
    <3>2. QED
      BY <1>0, <2>2, <3>1, EndIs
  <2>3. QED
    BY <2>1, <2>2
<1> HIDE DEF seen
<1>3. /\ j.pc \in PastAdmin => Admins # {} \/ Tampered
      /\ j.pc \in PastCodes => HaveCodes
      /\ j.pc = "ok" /\ HasKey => Provided
      /\ j.pc = "insertProvider" => HasKey
      /\ "codes" \in j.view => HaveCodes
      /\ "providers" \in j.view => Provided
  BY <1>0, <1>1, <1>2 DEF BootOK, PastAdmin, PastCodes
<1>4. j.after # {} =>
        /\ HaveCodes /\ (HasKey => Provided)
        /\ j.pc \in {"codes", "providers"} =>
             "codes" \in j.view /\ (HasKey => "providers" \in j.view \/ Shelved)
        /\ j.pc \notin {"insertCodes", "viewProviders"} /\ "codes" \notin j.made
        /\ j.pc = "insertProvider" \/ "provider" \in j.made => Shelved
        /\ j.pc = "insertAdmin" \/ "admin" \in j.made => Tampered
  BY <1>0, <1>1, <1>2 DEF RestartOK
<1>5. job[p].pc # "ok" /\ j.pc # "idle"
  BY <1>0, <1>2
<1>6. QED
  BY <1>0, <1>2, <1>3, <1>4, <1>5, BootMove

\* The default codes are made by a process that no other has been ahead of.
LEMMA InsertCodesSafe ==
  ASSUME AccountsInv, NEW p \in Procs, InsertCodes(p)
  PROVE  AccountsInv'
<1>0. /\ p \in Actors /\ p \notin Requests /\ job \in [Actors -> AccountJob]
      /\ job[p].pc = "insertCodes" /\ job[p] \in AccountJob /\ AccountsTypeOK
      /\ BootOK(p) /\ RestartOK(p)
  BY ActorSets DEF AccountsInv, AccountsTypeOK, InsertCodes
<1>1. CASE Fail(p)
  BY <1>0, <1>1, FailSafe
<1>2. CASE /\ code["default"].state = "absent"
           /\ code' = [code EXCEPT !["default"].state = "dated"]
           /\ job' = [job EXCEPT ![p].pc = "viewProviders", ![p].made = @ \cup {"codes"}]
           /\ UNCHANGED <<row, providers>>
  <2> DEFINE j == [job[p] EXCEPT !.pc = "viewProviders", !.made = @ \cup {"codes"}]
  <2>1. /\ j \in AccountJob /\ j.pc = "viewProviders"
        /\ j.view = job[p].view /\ j.after = job[p].after
    BY <1>0 DEF AccountJob
  <2>2. job' = [job EXCEPT ![p] = j]
    BY <1>0, <1>2
  <2> HIDE DEF j
  <2>3. /\ code' \in [Codes -> [state : {"absent", "dated", "open", "used"}, by : Ids \cup {None}]]
        /\ code'["default"].state = "dated" /\ \A c \in Codes \ {"default"} : code'[c] = code[c]
    BY <1>0, <1>2 DEF AccountsTypeOK, Codes
  <2>4. job'[p] = j /\ \A r \in Requests : job'[r] = job[r]
    BY <1>0, <2>2
  <2>5. HaveCodes'
    BY <2>3 DEF HaveCodes, Codes
  <2>6. (Admins # {} <=> Admins' # {}) /\ (Tampered <=> Tampered') /\ (Shelved <=> Shelved')
    BY <1>2, <2>4 DEF Admins, Live, Tampered, Shelved
  <2>7. BootOK(p)'
    BY <1>0, <1>2, <2>1, <2>4, <2>5, <2>6 DEF BootOK, PastAdmin, PastCodes, Provided
  <2>8. RestartOK(p)'
    BY <1>0, <2>1, <2>4 DEF RestartOK
  <2>9. NamesUnique' /\ \A i \in Ids : Live(i)' => Live(i)
    BY <1>2 DEF AccountsInv, NamesUnique, Live
  <2>10. /\ row' \in [Ids -> [state : {"absent", "live", "deleted"}, name : Names \cup {None},
                             role : Roles, active : BOOLEAN]]
         /\ providers' \subseteq Actors /\ (Provided => Provided')
    BY <1>0, <1>2, <2>6 DEF AccountsTypeOK, Provided
  <2>11. QED
    BY <1>0, <2>1, <2>2, <2>3, <2>5, <2>6, <2>7, <2>8, <2>9, <2>10, ActorMoves
<1>3. QED
  BY <1>1, <1>2 DEF InsertCodes

\* So is the default provider.
LEMMA InsertProviderSafe ==
  ASSUME AccountsInv, NEW p \in Procs, InsertProvider(p)
  PROVE  AccountsInv'
<1>0. /\ p \in Actors /\ p \notin Requests /\ job \in [Actors -> AccountJob]
      /\ job[p].pc = "insertProvider" /\ job[p] \in AccountJob /\ AccountsTypeOK
      /\ BootOK(p) /\ RestartOK(p) /\ providers' = providers \cup {p} /\ UNCHANGED <<row, code>>
  BY ActorSets DEF AccountsInv, AccountsTypeOK, InsertProvider
<1> DEFINE e == Ended(job[p], "ok")
           j == [e EXCEPT !.made = @ \cup {"provider"}]
<1>1. /\ e \in AccountJob /\ e.pc = "ok" /\ e.view = {} /\ e.after = job[p].after
      /\ e.made = job[p].made
  BY <1>0, EndIs
<1>2. job' = [job EXCEPT ![p] = j]
  BY <1>0 DEF InsertProvider
<1> HIDE DEF e
<1>3. /\ j \in AccountJob /\ j.pc = "ok" /\ j.view = {} /\ j.after = job[p].after
      /\ j.made = job[p].made \cup {"provider"}
  BY <1>1 DEF AccountJob
<1> HIDE DEF j
<1>4. job'[p] = j /\ \A r \in Requests : job'[r] = job[r]
  BY <1>0, <1>2
<1>5. /\ (Admins # {} <=> Admins' # {}) /\ (Tampered <=> Tampered') /\ (Shelved <=> Shelved') /\ (HaveCodes <=> HaveCodes')
      /\ \A i \in Ids : Live(i)' => Live(i)
  BY <1>0, <1>4 DEF Admins, Live, Tampered, Shelved, HaveCodes
<1>6. BootOK(p)' /\ RestartOK(p)'
  BY <1>0, <1>3, <1>4, <1>5 DEF BootOK, RestartOK, PastAdmin, PastCodes, Provided
<1>7. NamesUnique'
  BY <1>0 DEF AccountsInv, NamesUnique, Live
<1>8. /\ row' \in [Ids -> [state : {"absent", "live", "deleted"}, name : Names \cup {None},
                           role : Roles, active : BOOLEAN]]
      /\ code' \in [Codes -> [state : {"absent", "dated", "open", "used"}, by : Ids \cup {None}]]
      /\ providers' \subseteq Actors /\ (Provided => Provided')
  BY <1>0 DEF AccountsTypeOK, Provided
<1>9. QED
  BY <1>0, <1>2, <1>3, <1>5, <1>6, <1>7, <1>8, ActorMoves

(* The first step of a request writes none of the tables and leaves it at a  *)
(* position of its own.                                                      *)
LEMMA RequestStarts ==
  ASSUME AccountsInv, NEW r \in Requests, NEW j \in AccountJob, job' = [job EXCEPT ![r] = j],
         job[r].pc = "idle", UNCHANGED <<row, code, providers>>,
         \/ j.pc = "registering" /\ j.kind = "register"
         \/ j.pc = "saving" /\ j.kind = "profile"
         \/ j.pc = "inviting" /\ j.kind = "invite"
         \/ j.pc = "updating" /\ j.kind = "update"
         \/ j.pc = "deleting" /\ j.kind = "delete"
  PROVE  AccountsInv'
<1>1. r \in Actors /\ r \notin Procs
  BY ActorSets
<1>2. job'[r] = j
  BY <1>1 DEF AccountsInv, AccountsTypeOK
<1>3. row'[r].state # "live"
  BY DEF AccountsInv, RequestOK, Live
<1>4. RequestOK(r)'
  BY <1>2, <1>3, RequestIs
<1>5. j.pc # "idle" /\ job[r].pc # "ok"
  OBVIOUS
<1>6. QED
  BY <1>1, <1>4, <1>5, QuietMove

(* A request reads what it will decide on, and changes nothing.            *)
LEMMA StartsSafe ==
  ASSUME AccountsInv, NEW r \in Requests,
         Register(r) \/ Profile(r) \/ Invite(r) \/ Update(r) \/ Delete(r)
  PROVE  AccountsInv'
<1>0. /\ r \in Actors /\ job \in [Actors -> AccountJob] /\ job[r].pc = "idle"
      /\ job[r] \in AccountJob /\ UNCHANGED <<row, code, providers>>
  BY ActorSets DEF AccountsInv, AccountsTypeOK, Register, Profile, Invite, Update, Delete
<1>1. CASE Register(r)
  <2>1. PICK n \in Names, c \in Codes \cup {None} :
          job' = [job EXCEPT ![r] = [job[r] EXCEPT
            !.kind = "register", !.name = n, !.with = c, !.pc = "registering"]]
    BY <1>0, <1>1 DEF Register
  <2> DEFINE j == [job[r] EXCEPT !.kind = "register", !.name = n, !.with = c, !.pc = "registering"]
  <2>2. j.pc = "registering" /\ j.kind = "register"
    BY <1>0 DEF AccountJob
  <2>3. j \in AccountJob
    BY <1>0 DEF AccountJob, Kinds
  <2>4. job' = [job EXCEPT ![r] = j]
    BY <2>1
  <2> HIDE DEF j
  <2>5. QED
    BY <1>0, <2>2, <2>3, <2>4, RequestStarts
<1>2. CASE Profile(r)
  <2>1. PICK i \in Ids, n \in Names, active \in {"keep", "off"} :
          job' = [job EXCEPT ![r] = [job[r] EXCEPT
            !.kind = "profile", !.pc = "saving", !.name = n, !.target = i, !.active = active]]
    BY <1>0, <1>2 DEF Profile
  <2> DEFINE j == [job[r] EXCEPT !.kind = "profile", !.pc = "saving", !.name = n,
                                 !.target = i, !.active = active]
  <2>2. j \in AccountJob
    BY <1>0 DEF AccountJob, Kinds
  <2>3. j.pc = "saving" /\ j.kind = "profile"
    BY <1>0 DEF AccountJob
  <2>4. job' = [job EXCEPT ![r] = j]
    BY <2>1
  <2> HIDE DEF j
  <2>5. QED
    BY <1>0, <2>2, <2>3, <2>4, RequestStarts
<1>3. CASE Invite(r)
  <2> DEFINE j == [job[r] EXCEPT !.kind = "invite", !.pc = "inviting"]
  <2>1. j \in AccountJob /\ j.pc = "inviting" /\ j.kind = "invite"
    BY <1>0 DEF AccountJob, Kinds
  <2>2. job' = [job EXCEPT ![r] = j]
    BY <1>0, <1>3 DEF Invite
  <2> HIDE DEF j
  <2>3. QED
    BY <1>0, <2>1, <2>2, RequestStarts
<1>4. CASE Update(r)
  <2>1. PICK i \in Ids, b \in BodiesOf[r] :
          job' = [job EXCEPT ![r] = [job[r] EXCEPT
            !.kind = "update", !.pc = "updating", !.target = i,
            !.name = b.name, !.role = b.role, !.active = b.active]]
    BY <1>0, <1>4 DEF Update
  <2> DEFINE j == [job[r] EXCEPT !.kind = "update", !.pc = "updating", !.target = i,
                                 !.name = b.name, !.role = b.role, !.active = b.active]
  <2>2. /\ b.name \in Names \cup {None} /\ b.role \in Roles \cup {"keep"}
        /\ b.active \in {"on", "off", "keep"}
    BY AccountsAssumption DEF Body
  <2>3. j \in AccountJob
    BY <1>0, <2>2, ZenonT(60) DEF AccountJob, Kinds
  <2>4. j.pc = "updating" /\ j.kind = "update"
    BY <1>0 DEF AccountJob
  <2>5. job' = [job EXCEPT ![r] = j]
    BY <2>1
  <2> HIDE DEF j
  <2>6. QED
    BY <1>0, <2>3, <2>4, <2>5, RequestStarts
<1>5. CASE Delete(r)
  <2>1. PICK i \in Ids :
          job' = [job EXCEPT ![r] = [job[r] EXCEPT
            !.kind = "delete", !.pc = "deleting", !.target = i]]
    BY <1>0, <1>5 DEF Delete
  <2> DEFINE j == [job[r] EXCEPT !.kind = "delete", !.pc = "deleting", !.target = i]
  <2>2. j \in AccountJob /\ j.pc = "deleting" /\ j.kind = "delete"
    BY <1>0 DEF AccountJob, Kinds
  <2>3. job' = [job EXCEPT ![r] = j]
    BY <2>1
  <2> HIDE DEF j
  <2>4. QED
    BY <1>0, <2>2, <2>3, RequestStarts
<1>6. QED
  BY <1>1, <1>2, <1>3, <1>4, <1>5

\* A request that is no registration changes rows and makes nobody live.
LEMMA RowsChange ==
  ASSUME AccountsInv, NEW r \in Requests, End(r),
         job[r].pc \in {"saving", "updating", "deleting"}, UNCHANGED <<code, providers>>,
         row' \in [Ids -> [state : {"absent", "live", "deleted"}, name : Names \cup {None},
                          role : Roles, active : BOOLEAN]],
         NamesUnique', \A i \in Ids : row'[i].state = "live" => row[i].state = "live",
         job[r].pc = "saving" => Admins' = Admins
  PROVE  AccountsInv'
<1>0. /\ r \in Actors /\ r \notin Procs /\ job \in [Actors -> AccountJob] /\ job[r] \in AccountJob
      /\ job[r].pc # "ok" /\ AccountsTypeOK /\ RequestOK(r)
  BY ActorSets DEF AccountsInv, AccountsTypeOK
<1> DEFINE j == Ended(job[r], "ok")
<1>1. j \in AccountJob /\ j.pc = "ok" /\ j.kind = job[r].kind
  BY <1>0, EndIs
<1>2. job' = [job EXCEPT ![r] = j]
  BY <1>0 DEF End
<1> HIDE DEF j
<1>3. job'[r] = j /\ \A q \in Requests \ {r} : job'[q] = job[q]
  BY <1>0, <1>2
<1>4. j.kind \in {"profile", "update", "delete"}
  BY <1>0, <1>1 DEF RequestOK
<1>5. RequestOK(r)'
  BY <1>1, <1>3, <1>4, RequestIs
<1>6. (Tampered => Tampered') /\ (Shelved => Shelved')
  BY <1>0, <1>3 DEF Tampered, Shelved
<1>7. Admins # {} \/ Tampered => Admins' # {} \/ Tampered'
  <2>1. CASE job[r].pc = "saving"
    BY <1>6, <2>1
  <2>2. CASE job[r].pc \in {"updating", "deleting"}
    <3>1. Tampered'
      BY <1>0, <1>1, <1>3, <2>2 DEF RequestOK, Tampered
    <3>2. QED
      BY <3>1
  <2>3. QED
    BY <2>1, <2>2
<1>8. /\ code' \in [Codes -> [state : {"absent", "dated", "open", "used"}, by : Ids \cup {None}]]
      /\ providers' \subseteq Actors /\ (Provided => Provided')
      /\ HaveCodes => HaveCodes'
      /\ \A i \in Ids : Live(i)' => Live(i)
  BY <1>0, <1>6 DEF AccountsTypeOK, HaveCodes, Live, Provided
<1>9. QED
  BY <1>0, <1>1, <1>2, <1>5, <1>7, <1>8, ActorMoves

(* A profile is saved under a new name, unless the unique key refuses it.  *)
LEMMA SaveProfileSafe ==
  ASSUME AccountsInv, NEW r \in Requests, SaveProfile(r)
  PROVE  AccountsInv'
<1>0. /\ r \in Actors /\ job[r].pc = "saving" /\ job[r] \in AccountJob /\ AccountsTypeOK
  BY ActorSets DEF AccountsInv, AccountsTypeOK, SaveProfile
<1>1. CASE Fail(r)
  BY <1>0, <1>1, FailSafe
<1> DEFINE i == job[r].target
           n == job[r].name
           off == job[r].active
           u == [row[i] EXCEPT !.name = n, !.active = IF off = "off" THEN FALSE ELSE @]
<1>2. CASE /\ Live(i) /\ \A k \in Ids \ {i} : Live(k) => row[k].name # n
           /\ row' = [row EXCEPT ![i] = u] /\ End(r) /\ UNCHANGED <<code, providers>>
  <2>1. CASE i \notin Ids
    <3>1. row' = row
      BY <1>0, <1>2, <2>1 DEF AccountsTypeOK
    <3>2. NamesUnique' /\ Admins' = Admins
      BY <3>1 DEF AccountsInv, NamesUnique, Admins, Live
    <3>3. QED
      BY <1>0, <1>2, <3>1, <3>2, RowsChange DEF AccountsTypeOK, Live
  <2>2. CASE i \in Ids
    <3>1. n \in Names \cup {None}
      BY <1>0 DEF AccountJob
    <3>2. /\ u \in [state : {"absent", "live", "deleted"}, name : Names \cup {None},
                    role : Roles, active : BOOLEAN]
          /\ u.state = row[i].state /\ u.role = row[i].role /\ u.name = n
      <4>1. row[i] \in [state : {"absent", "live", "deleted"}, name : Names \cup {None},
                        role : Roles, active : BOOLEAN]
        BY <1>0, <2>2 DEF AccountsTypeOK
      <4>2. PICK active \in BOOLEAN : u = [row[i] EXCEPT !.name = n, !.active = active]
        BY <4>1
      <4>3. QED
        BY <3>1, <4>1, <4>2
    <3> HIDE DEF u, i, n
    <3>3. /\ row' \in [Ids -> [state : {"absent", "live", "deleted"}, name : Names \cup {None},
                              role : Roles, active : BOOLEAN]]
          /\ row'[i] = u /\ \A k \in Ids \ {i} : row'[k] = row[k]
      BY <1>0, <1>2, <2>2, <3>2 DEF AccountsTypeOK
    <3>4. /\ \A k \in Ids : row'[k].state = row[k].state /\ row'[k].role = row[k].role
          /\ \A k \in Ids : (Live(k)' <=> Live(k))
      BY <3>2, <3>3 DEF Live
    <3>5. Admins' = Admins
      BY <3>4 DEF Admins
    <3>6. NamesUnique'
      BY <1>2, <3>2, <3>3, <3>4 DEF AccountsInv, NamesUnique
    <3>7. QED
      BY <1>0, <1>2, <3>3, <3>4, <3>5, <3>6, RowsChange DEF Live
  <2>3. QED
    BY <2>1, <2>2
<1>3. \/ Fail(r)
      \/ /\ Live(i) /\ \A k \in Ids \ {i} : Live(k) => row[k].name # n
         /\ row' = [row EXCEPT ![i].name = n, ![i].active = IF off = "off" THEN FALSE ELSE @]
         /\ End(r) /\ UNCHANGED <<code, providers>>
  BY DEF SaveProfile
<1>4. [row EXCEPT ![i].name = n, ![i].active = IF off = "off" THEN FALSE ELSE @]
        = [row EXCEPT ![i] = u]
  <2>1. CASE i \in Ids
    BY <1>0, <2>1 DEF AccountsTypeOK
  <2>2. CASE i \notin Ids
    BY <1>0, <2>2 DEF AccountsTypeOK
  <2>3. QED
    BY <2>1, <2>2
<1>5. QED
  BY <1>1, <1>2, <1>3, <1>4

(* An administrator's update is saved.                                     *)
LEMMA SaveUpdateSafe ==
  ASSUME AccountsInv, NEW r \in Requests, SaveUpdate(r)
  PROVE  AccountsInv'
<1>0. /\ r \in Actors /\ job[r].pc = "updating" /\ job[r] \in AccountJob /\ AccountsTypeOK
  BY ActorSets DEF AccountsInv, AccountsTypeOK, SaveUpdate
<1>1. CASE Fail(r)
  BY <1>0, <1>1, FailSafe
<1> DEFINE i == job[r].target
           name(old) == IF job[r].name = None THEN old ELSE job[r].name
           role(old) == IF job[r].role = "keep" THEN old ELSE job[r].role
           active(old) == IF job[r].active = "keep" THEN old ELSE job[r].active = "on"
           u == [row[i] EXCEPT !.name = name(@), !.role = role(@), !.active = active(@)]
<1>2. CASE /\ Live(i) /\ \A k \in Ids \ {i} : Live(k) => row[k].name # job[r].name
           /\ row' = [row EXCEPT ![i] = u] /\ End(r) /\ UNCHANGED <<code, providers>>
  <2>1. CASE i \notin Ids
    <3>1. row' = row
      BY <1>0, <1>2, <2>1 DEF AccountsTypeOK
    <3>2. NamesUnique'
      BY <3>1 DEF AccountsInv, NamesUnique, Live
    <3>3. QED
      BY <1>0, <1>2, <3>1, <3>2, RowsChange, ZenonT(60) DEF AccountsTypeOK, Live
  <2>2. CASE i \in Ids
    <3>1. /\ job[r].name \in Names \cup {None} /\ job[r].role \in Roles \cup {"keep"}
          /\ row[i] \in [state : {"absent", "live", "deleted"}, name : Names \cup {None},
                         role : Roles, active : BOOLEAN]
      BY <1>0, <2>2 DEF AccountsTypeOK, AccountJob
    <3>2. PICK n \in Names \cup {None}, ro \in Roles, ac \in BOOLEAN :
            /\ n = name(row[i].name) /\ u = [row[i] EXCEPT !.name = n, !.role = ro, !.active = ac]
      <4>1. /\ name(row[i].name) \in Names \cup {None} /\ role(row[i].role) \in Roles
            /\ active(row[i].active) \in BOOLEAN
        BY <3>1
      <4>2. u = [row[i] EXCEPT !.name = name(row[i].name), !.role = role(row[i].role),
                               !.active = active(row[i].active)]
        BY <3>1
      <4>3. QED
        BY <4>1, <4>2
    <3>3. /\ u \in [state : {"absent", "live", "deleted"}, name : Names \cup {None},
                    role : Roles, active : BOOLEAN]
          /\ u.state = row[i].state /\ u.name = n
          /\ n = row[i].name \/ n = job[r].name
      BY <3>1, <3>2
    <3> HIDE DEF u, i
    <3>4. /\ row' \in [Ids -> [state : {"absent", "live", "deleted"}, name : Names \cup {None},
                              role : Roles, active : BOOLEAN]]
          /\ row'[i] = u /\ \A k \in Ids \ {i} : row'[k] = row[k]
      BY <1>0, <1>2, <2>2, <3>3 DEF AccountsTypeOK
    <3>5. /\ \A k \in Ids : row'[k].state = row[k].state
          /\ \A k \in Ids : (Live(k)' <=> Live(k))
      BY <3>3, <3>4 DEF Live
    <3>6. NamesUnique'
      BY <1>2, <3>3, <3>4, <3>5 DEF AccountsInv, NamesUnique
    <3>7. QED
      BY <1>0, <1>2, <3>4, <3>5, <3>6, RowsChange DEF Live
  <2>3. QED
    BY <2>1, <2>2
<1>3. \/ Fail(r)
      \/ /\ Live(i) /\ \A k \in Ids \ {i} : Live(k) => row[k].name # job[r].name
         /\ row' = [row EXCEPT ![i].name = name(@), ![i].role = role(@), ![i].active = active(@)]
         /\ End(r) /\ UNCHANGED <<code, providers>>
  BY DEF SaveUpdate
<1>4. [row EXCEPT ![i].name = name(@), ![i].role = role(@), ![i].active = active(@)]
        = [row EXCEPT ![i] = u]
  <2>1. CASE i \in Ids
    BY <1>0, <2>1 DEF AccountsTypeOK
  <2>2. CASE i \notin Ids
    BY <1>0, <2>2 DEF AccountsTypeOK
  <2>3. QED
    BY <2>1, <2>2
<1>5. QED
  BY <1>1, <1>2, <1>3, <1>4

(* A user is deleted, unless a code names it.                              *)
LEMMA RemoveUserSafe ==
  ASSUME AccountsInv, NEW r \in Requests, RemoveUser(r)
  PROVE  AccountsInv'
<1>0. /\ r \in Actors /\ job[r].pc = "deleting" /\ job[r] \in AccountJob /\ AccountsTypeOK
  BY ActorSets DEF AccountsInv, AccountsTypeOK, RemoveUser
<1>1. CASE Fail(r)
  BY <1>0, <1>1, FailSafe
<1> DEFINE i == job[r].target
<1>2. CASE /\ ~\E c \in Codes : code[c].by = i
           /\ row' = [row EXCEPT ![i].state = "deleted"] /\ End(r) /\ UNCHANGED <<code, providers>>
  <2> HIDE DEF i
  <2>1. /\ row' \in [Ids -> [state : {"absent", "live", "deleted"}, name : Names \cup {None},
                            role : Roles, active : BOOLEAN]]
        /\ \A k \in Ids \ {i} : row'[k] = row[k]
        /\ i \in Ids => row'[i].state = "deleted"
    BY <1>0, <1>2, ZenonT(60) DEF AccountsTypeOK
  <2>2. \A k \in Ids : row'[k].state = "live" => k # i /\ row'[k] = row[k]
    BY <2>1
  <2>3. NamesUnique'
    BY <2>2 DEF AccountsInv, NamesUnique, Live
  <2>4. QED
    BY <1>0, <1>2, <2>1, <2>2, <2>3, RowsChange
<1>3. QED
  BY <1>1, <1>2 DEF RemoveUser

(* A new code is inserted, unless the unique key refuses it.               *)
LEMMA InsertCodeSafe ==
  ASSUME AccountsInv, NEW r \in Requests, InsertCode(r)
  PROVE  AccountsInv'
<1>0. /\ r \in Actors /\ r \notin Procs /\ job \in [Actors -> AccountJob] /\ job[r] \in AccountJob
      /\ job[r].pc = "inviting" /\ AccountsTypeOK /\ RequestOK(r)
  BY ActorSets DEF AccountsInv, AccountsTypeOK, InsertCode
<1>1. CASE Fail(r)
  BY <1>0, <1>1, FailSafe
<1>2. CASE /\ code["issued"].state = "absent"
           /\ code' = [code EXCEPT !["issued"].state = "open"]
           /\ End(r) /\ UNCHANGED <<row, providers>>
  <2> DEFINE j == Ended(job[r], "ok")
  <2>1. /\ j \in AccountJob /\ j.pc = "ok" /\ j.kind = job[r].kind
    BY <1>0, EndIs
  <2>2. job' = [job EXCEPT ![r] = j]
    BY <1>0, <1>2 DEF End
  <2> HIDE DEF j
  <2>3. job'[r] = j /\ \A q \in Requests \ {r} : job'[q] = job[q]
    BY <1>0, <2>2
  <2>4. j.kind = "invite"
    BY <1>0, <2>1 DEF RequestOK
  <2>5. RequestOK(r)'
    BY <2>1, <2>3, <2>4, RequestIs
  <2>6. /\ code' \in [Codes -> [state : {"absent", "dated", "open", "used"}, by : Ids \cup {None}]]
        /\ code'["issued"].state = "open" /\ \A c \in Codes \ {"issued"} : code'[c] = code[c]
    BY <1>0, <1>2 DEF AccountsTypeOK, Codes
  <2>7. HaveCodes'
    BY <2>6 DEF HaveCodes, Codes
  <2>8. NamesUnique' /\ \A i \in Ids : Live(i)' => Live(i)
    BY <1>2 DEF AccountsInv, NamesUnique, Live
  <2>9. /\ Admins # {} \/ Tampered => Admins' # {} \/ Tampered'
        /\ Provided => Provided'
    BY <1>0, <1>2, <2>3 DEF Admins, Live, Tampered, Shelved, Provided
  <2>10. /\ row' \in [Ids -> [state : {"absent", "live", "deleted"}, name : Names \cup {None},
                             role : Roles, active : BOOLEAN]]
         /\ providers' \subseteq Actors
    BY <1>0, <1>2 DEF AccountsTypeOK
  <2>11. QED
    BY <1>0, <2>1, <2>2, <2>5, <2>6, <2>7, <2>8, <2>9, <2>10, ActorMoves
<1>3. QED
  BY <1>1, <1>2 DEF InsertCode

\* The new user has a free name.
LEMMA InsertUserSafe ==
  ASSUME AccountsInv, NEW r \in Requests, InsertUser(r)
  PROVE  AccountsInv'
<1>0. /\ r \in Actors /\ r \in Ids /\ r \notin Procs /\ job \in [Actors -> AccountJob]
      /\ job[r] \in AccountJob /\ job[r].pc = "registering" /\ AccountsTypeOK /\ RequestOK(r)
  BY ActorSets DEF AccountsInv, AccountsTypeOK, InsertUser
<1>1. CASE Fail(r)
  BY <1>0, <1>1, FailSafe
<1> DEFINE n == job[r].name
           w == job[r].with
           u == User(n, "user")
           j == Ended(job[r], "ok")
<1>2. CASE /\ ~NameTaken(n) /\ row' = [row EXCEPT ![r] = u]
           /\ code' = IF w = None THEN code ELSE [code EXCEPT ![w] = [state |-> "used", by |-> r]]
           /\ End(r) /\ UNCHANGED providers
  <2>1. /\ j \in AccountJob /\ j.pc = "ok" /\ j.kind = job[r].kind
    BY <1>0, EndIs
  <2>2. job' = [job EXCEPT ![r] = j]
    BY <1>0, <1>2 DEF End
  <2>3. /\ u \in [state : {"absent", "live", "deleted"}, name : Names \cup {None},
                  role : Roles, active : BOOLEAN]
        /\ u.state = "live" /\ u.name = n /\ u.role = "user"
    BY <1>0 DEF User, Roles, AccountJob
  <2>4. w \in Codes \cup {None} /\ None \notin Codes
    BY <1>0, AccountsAssumption DEF AccountJob
  <2> HIDE DEF n, w, u, j
  <2>5. /\ row' \in [Ids -> [state : {"absent", "live", "deleted"}, name : Names \cup {None},
                            role : Roles, active : BOOLEAN]]
        /\ row'[r] = u /\ \A i \in Ids \ {r} : row'[i] = row[i]
    BY <1>0, <1>2, <2>3 DEF AccountsTypeOK
  <2>6. /\ code' \in [Codes -> [state : {"absent", "dated", "open", "used"}, by : Ids \cup {None}]]
        /\ \A c \in Codes \ {w} : code'[c] = code[c]
        /\ w \in Codes => code'[w] = [state |-> "used", by |-> r]
    BY <1>0, <1>2, <2>4 DEF AccountsTypeOK
  <2>7. job'[r] = j /\ \A q \in Requests \ {r} : job'[q] = job[q]
    BY <1>0, <2>2
  <2>8. j.kind = "register" /\ ~Live(r)
    BY <1>0, <2>1 DEF RequestOK
  <2>9. RequestOK(r)'
    BY <2>1, <2>7, <2>8, RequestIs
  <2>10. NamesUnique'
    BY <1>2, <2>3, <2>5 DEF AccountsInv, NamesUnique, NameTaken, Live
  <2>11. /\ HaveCodes => HaveCodes'
         /\ Admins # {} \/ Tampered => Admins' # {} \/ Tampered'
         /\ Provided => Provided'
         /\ \A i \in Ids \ {r} : Live(i)' => Live(i)
    <3>1. HaveCodes => HaveCodes'
      BY <2>6 DEF HaveCodes
    <3>2. (Tampered => Tampered') /\ (Provided => Provided')
      BY <1>0, <1>2, <2>7 DEF Tampered, Shelved, Provided
    <3>3. Admins # {} => Admins' # {}
      BY <2>5, <2>8 DEF Admins, Live
    <3>4. QED
      BY <2>5, <3>1, <3>2, <3>3 DEF Live
  <2>12. providers' \subseteq Actors
    BY <1>0, <1>2 DEF AccountsTypeOK
  <2>13. QED
    BY <1>0, <2>1, <2>2, <2>5, <2>6, <2>9, <2>10, <2>11, <2>12, ActorMoves
<1>3. QED
  BY <1>1, <1>2 DEF InsertUser

(* The provider forms end in one step, which puts a provider there or is     *)
(* remembered as one that took a provider away.                              *)
LEMMA ModelsSafe ==
  ASSUME AccountsInv, NEW r \in Requests, ProvideModel(r) \/ ShelveModel(r)
  PROVE  AccountsInv'
<1>0. /\ r \in Actors /\ r \notin Procs /\ job \in [Actors -> AccountJob] /\ job[r] \in AccountJob
      /\ job[r].pc = "idle" /\ AccountsTypeOK /\ UNCHANGED <<row, code>>
  BY ActorSets DEF AccountsInv, AccountsTypeOK, ProvideModel, ShelveModel
<1>1. PICK kind \in {"provide", "shelve"} :
        /\ job' = [job EXCEPT ![r] = [job[r] EXCEPT !.kind = kind, !.pc = "ok"]]
        /\ providers' \subseteq Actors
        /\ kind = "provide" => r \in providers'
  BY <1>0 DEF ProvideModel, ShelveModel, AccountsTypeOK
<1> DEFINE j == [job[r] EXCEPT !.kind = kind, !.pc = "ok"]
<1>2. j \in AccountJob /\ j.pc = "ok" /\ j.kind = kind
  BY <1>0 DEF AccountJob, Kinds
<1>3. job' = [job EXCEPT ![r] = j]
  BY <1>1
<1> HIDE DEF j
<1>4. job'[r] = j /\ \A q \in Requests \ {r} : job'[q] = job[q]
  BY <1>0, <1>3
<1>5. RequestOK(r)'
  BY <1>2, <1>4, RequestIs
<1>6. NamesUnique' /\ \A i \in Ids : Live(i)' => Live(i)
  BY <1>0 DEF AccountsInv, NamesUnique, Live
<1>7. Provided'
  BY <1>1, <1>2, <1>4 DEF Provided, Shelved
<1>8. /\ HaveCodes => HaveCodes'
      /\ Admins # {} \/ Tampered => Admins' # {} \/ Tampered'
  BY <1>0, <1>4 DEF HaveCodes, Admins, Live, Tampered
<1>9. /\ row' \in [Ids -> [state : {"absent", "live", "deleted"}, name : Names \cup {None},
                           role : Roles, active : BOOLEAN]]
      /\ code' \in [Codes -> [state : {"absent", "dated", "open", "used"}, by : Ids \cup {None}]]
  BY <1>0 DEF AccountsTypeOK
<1>10. QED
  BY <1>0, <1>1, <1>2, <1>3, <1>5, <1>6, <1>7, <1>8, <1>9, ActorMoves

(* The tables' half of the invariant is inductive.                         *)
LEMMA AccountsSafe ==
  AccountsInv /\ [AccountsNext]_accountVars => AccountsInv'
<1> SUFFICES ASSUME AccountsInv, [AccountsNext]_accountVars PROVE AccountsInv'
  OBVIOUS
<1>1. CASE UNCHANGED accountVars
  BY <1>1 DEF accountVars, AccountsInv, AccountsTypeOK, NamesUnique, Live, RequestOK,
              BootOK, RestartOK, HaveCodes, Tampered, Shelved, Provided, Admins
<1>2. ASSUME NEW p \in Procs, Boot(p) PROVE AccountsInv'
  <2>1. CASE BootFails(p)
    BY <2>1, FailSafe, ActorSets DEF BootFails
  <2>2. QED
    BY <1>2, <2>1, BootAdminSafe, InsertAdminSafe, BootCodesSafe, InsertCodesSafe,
       BootProvidersSafe, InsertProviderSafe DEF Boot
<1>3. ASSUME NEW r \in Requests, Request(r) PROVE AccountsInv'
  BY <1>3, StartsSafe, InsertUserSafe, SaveProfileSafe, InsertCodeSafe, SaveUpdateSafe,
     RemoveUserSafe, ModelsSafe DEF Request
<1>4. QED
  BY <1>1, <1>2, <1>3 DEF AccountsNext

\* Both installations a run starts from.
LEMMA AccountsStart ==
  ASSUME Init PROVE AccountsInv
<1>1. PICK s \in Starts :
        /\ IF s.used THEN InUse(s) ELSE Empty
        /\ job = [a \in Actors |-> IF a \in s.actors THEN IdleJob
                                   ELSE [IdleJob EXCEPT !.pc = IF s.used THEN "ok" ELSE "failed"]]
  BY DEF Init
<1>2. /\ \A pc \in {"idle", "ok", "failed"} :
           /\ [IdleJob EXCEPT !.pc = pc] \in AccountJob /\ [IdleJob EXCEPT !.pc = pc].pc = pc
           /\ [IdleJob EXCEPT !.pc = pc].kind = "none" /\ [IdleJob EXCEPT !.pc = pc].after = {}
           /\ [IdleJob EXCEPT !.pc = pc].view = {}
      /\ IdleJob \in AccountJob /\ IdleJob.pc = "idle" /\ IdleJob.kind = "none"
      /\ IdleJob.after = {} /\ IdleJob.view = {}
  BY DEF IdleJob, AccountJob
<1>3. /\ job \in [Actors -> AccountJob]
      /\ \A a \in Actors : /\ job[a].kind = "none" /\ job[a].after = {} /\ job[a].view = {}
                           /\ job[a].pc \in {"idle", "ok", "failed"}
                           /\ job[a].pc = "idle" => job[a] = IdleJob
                           /\ ~s.used => job[a].pc # "ok"
  <2>1. PICK pc \in {"ok", "failed"} :
          /\ pc = IF s.used THEN "ok" ELSE "failed"
          /\ job = [a \in Actors |-> IF a \in s.actors THEN IdleJob ELSE [IdleJob EXCEPT !.pc = pc]]
    BY <1>1
  <2>2. QED
    BY <1>2, <2>1
<1>4. CASE ~s.used
  <2>1. Empty
    BY <1>1, <1>4
  <2>2. AccountsTypeOK
    BY <1>3, <2>1 DEF AccountsTypeOK, Empty, NoRow, Roles
  <2>3. (\A i \in Ids : ~Live(i)) /\ NamesUnique
    BY <2>1 DEF Empty, NoRow, Live, NamesUnique
  <2>4. \A r \in Requests : RequestOK(r)
    BY <1>3, <2>3, ActorSets DEF RequestOK
  <2>5. \A p \in Procs : BootOK(p) /\ RestartOK(p)
    BY <1>3, <1>4, ActorSets DEF BootOK, RestartOK, PastAdmin, PastCodes
  <2>6. QED
    BY <1>3, <2>2, <2>3, <2>4, <2>5 DEF AccountsInv
<1>5. CASE s.used
  <2>1. PICK p \in Procs, n \in Names :
          /\ n # AdminName
          /\ row = [i \in Ids |-> CASE i = p -> User(AdminName, "admin")
                                    [] i = Owner /\ s.browser -> User(n, "user")
                                    [] OTHER -> NoRow]
          /\ code = [c \in Codes |-> [state |-> IF c = "default" THEN "dated" ELSE "absent",
                                       by |-> None]]
          /\ providers = {p}
    <3>1. (\E q \in Procs \ s.actors : TRUE) /\ (\E m \in Names : m # AdminName)
      BY <1>5, AuthSessionAssumption, ActorSets
    <3> DEFINE p == CHOOSE q \in Procs \ s.actors : TRUE
               n == CHOOSE m \in Names : m # AdminName
    <3>2. p \in Procs /\ n \in Names /\ n # AdminName
      BY <3>1
    <3>3. /\ row = [i \in Ids |-> CASE i = p -> User(AdminName, "admin")
                                     [] i = Owner /\ s.browser -> User(n, "user")
                                     [] OTHER -> NoRow]
          /\ code = [c \in Codes |-> [state |-> IF c = "default" THEN "dated" ELSE "absent",
                                       by |-> None]]
          /\ providers = {p}
      BY <1>1, <1>5 DEF InUse
    <3> HIDE DEF p, n
    <3>4. QED
      BY <3>2, <3>3
  <2>2. p \in Ids /\ p # Owner
    BY ActorSets, AccountsAssumption
  <2>3. ASSUME NEW i \in Ids
        PROVE  \/ row[i] = User(AdminName, "admin") /\ i = p
               \/ row[i] = User(n, "user") /\ i = Owner
               \/ row[i] = NoRow /\ i # p
    <3>1. CASE i = p
      BY <2>1, <3>1
    <3>2. CASE i # p /\ i = Owner /\ s.browser
      BY <2>1, <3>2
    <3>3. CASE i # p /\ ~(i = Owner /\ s.browser)
      BY <2>1, <3>3
    <3>4. QED
      BY <3>1, <3>2, <3>3
  <2>4. AccountsTypeOK
    <3>1. {User(AdminName, "admin"), User(n, "user"), NoRow} \subseteq
            [state : {"absent", "live", "deleted"}, name : Names \cup {None},
             role : Roles, active : BOOLEAN]
      BY ActorSets DEF User, NoRow, Roles
    <3>2. row \in [Ids -> [state : {"absent", "live", "deleted"}, name : Names \cup {None},
                           role : Roles, active : BOOLEAN]]
      BY <2>1, <2>3, <3>1
    <3>3. code \in [Codes -> [state : {"absent", "dated", "open", "used"}, by : Ids \cup {None}]]
      BY <2>1
    <3>4. QED
      BY <1>3, <2>1, <3>2, <3>3, ActorSets DEF AccountsTypeOK
  <2>5. NamesUnique
    BY <2>1, <2>3 DEF NamesUnique, Live, User, NoRow
  <2>6. \A r \in Requests : RequestOK(r)
    <3>1. \A r \in Requests : r # p /\ r # Owner /\ r \in Ids
      BY ActorSets, AccountsAssumption
    <3>2. \A r \in Requests : ~Live(r)
      BY <2>3, <3>1 DEF Live, NoRow
    <3>3. QED
      BY <1>3, <3>2, ActorSets DEF RequestOK
  <2>7. HaveCodes /\ p \in Admins /\ providers # {}
    <3>1. code["default"].state = "dated" /\ "default" \in Codes
      BY <2>1 DEF Codes
    <3>2. row[p].state = "live" /\ row[p].role = "admin"
      BY <2>1, <2>2 DEF User
    <3>3. QED
      BY <2>1, <2>2, <3>1, <3>2 DEF HaveCodes, Admins, Live
  <2>8. \A q \in Procs : BootOK(q) /\ RestartOK(q)
    BY <1>3, <2>7, ActorSets DEF BootOK, RestartOK, Provided
  <2>9. QED
    BY <1>3, <2>4, <2>5, <2>6, <2>8 DEF AccountsInv
<1>6. QED
  BY <1>4, <1>5

-----------------------------------------------------------------------------
(* The theorems.                                                            *)

(* What users, codes, tokens and tabs keep, whoever does what in which order *)
(* and whichever process starts or dies meanwhile.                           *)
THEOREM AuthSessionSafe == Spec => [](AccountsInv /\ TabsInv)
<1>1. Init => AccountsInv /\ TabsInv
  BY AccountsStart, TabsSafe DEF Init
<1>2. AccountsInv /\ TabsInv /\ [Next]_sessionVars => (AccountsInv /\ TabsInv)'
  <2> SUFFICES ASSUME AccountsInv, TabsInv, [Next]_sessionVars PROVE AccountsInv' /\ TabsInv'
    OBVIOUS
  <2>1. [AccountsNext]_accountVars /\ [TabsNext]_tabVars
    BY DEF Next, sessionVars
  <2>2. QED
    BY <2>1, AccountsSafe, TabsSafe
<1>3. QED
  BY <1>1, <1>2, PTL DEF Spec

(* Every row, code, job, token and call stays of its type; no token outlives *)
(* the lifetime it was given and no blacklist entry outlives the longest.    *)
THEOREM AuthSessionTypeCorrect == Spec => []TypeOK
<1>1. AccountsInv /\ TabsInv => TypeOK
  BY DEF AccountsInv, TabsInv, TypeOK
<1>2. QED
  BY <1>1, AuthSessionSafe, PTL

(* However many bootstraps, registrations, profile forms and updates find a  *)
(* name free at once, no two users get it.                                   *)
THEOREM NamesStayUnique == Spec => []NamesUnique
<1>1. AccountsInv => NamesUnique
  BY DEF AccountsInv
<1>2. QED
  BY <1>1, AuthSessionSafe, PTL

(* The bootstrap of a process that starts after another went through it      *)
(* creates nothing, unless requests took an administrator or an active       *)
(* provider away.                                                            *)
THEOREM BootstrapIsIdempotent == Spec => []RestartCreatesNothing
<1>1. ASSUME AccountsInv PROVE RestartCreatesNothing
  <2>1. \A p \in Procs : RestartOK(p)
    BY <1>1 DEF AccountsInv
  <2>2. QED
    BY <2>1 DEF RestartOK, RestartCreatesNothing, Tampered, Shelved
<1>2. QED
  BY <1>1, AuthSessionSafe, PTL

(* An access token the logout was told of is served by no endpoint that asks *)
(* the blacklist, and an exchanged refresh token is not exchanged again, by  *)
(* a request sent after that, whatever the lifetimes of tokens and entries.  *)
THEOREM RevokedTokensStayRevoked == Spec => []RevokedStaysRevoked
<1>1. TabsInv => RevokedStaysRevoked
  BY DEF TabsInv, CallOK, Good, RevokedStaysRevoked
<1>2. QED
  BY <1>1, AuthSessionSafe, PTL

(* A tab that queues its calls has one that will release them, found no      *)
(* refresh token, or is never answered.                                      *)
THEOREM RefreshingHasOwner == Spec => []RefreshHasOwner
<1>1. TabsInv => RefreshHasOwner
  BY DEF TabsInv
<1>2. QED
  BY <1>1, AuthSessionSafe, PTL
=============================================================================
