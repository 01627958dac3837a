--------------------------- MODULE MCAuthSession ---------------------------
(* A small instance of AuthSession and Accounts for TLC.                   *)
EXTENDS AuthSession, TLC

CONSTANTS bob, p1, p2, r1, r2, r3, r4, t1, t2, c1, c2, c3

MCKindsOf == (r1 :> {"invite", "profile", "provide"}) @@ (r2 :> {"register", "invite", "shelve"})
             @@ (r3 :> {"register", "update", "delete"}) @@ (r4 :> {"update"})
\* r3: demote and rename, promote and disable at once; r4: disable.
MCBodiesOf ==
  LET Change(n, role, active) == [name |-> n, role |-> role, active |-> active]
      disable == Change(None, "keep", "off") IN
  (r1 :> {}) @@ (r2 :> {}) @@ (r4 :> {disable})
  @@ (r3 :> {Change(bob, "user", "keep"), Change(None, "admin", "off")})
\* Two processes and two requests on an empty installation, three requests and a restart in one
\* that is in use, a request in one with a browser.
MCStarts ==
  {[used |-> FALSE, browser |-> FALSE, actors |-> {p1, p2, r2, r3}],
   [used |-> TRUE, browser |-> FALSE, actors |-> {p2, r1, r2, r3}],
   [used |-> TRUE, browser |-> TRUE, actors |-> {r4}]}
\* The browser alone, which nobody disturbs.
MCBrowser == {[used |-> TRUE, browser |-> TRUE, actors |-> {}]}
MCCallKinds == (c1 :> {"api"}) @@ (c2 :> {"preview"}) @@ (c3 :> {"api", "logout"})
MCTabOf == (c1 :> t1) @@ (c2 :> t1) @@ (c3 :> t2)
=============================================================================
