------------------------------ MODULE Accounts ------------------------------
(***************************************************************************)
(* Users, invitation codes and the default model provider: the bootstrap   *)
(* every API process runs when it starts (bootstrap_service.py, main.py),  *)
(* registration (user_service.create_user), the profile form, the          *)
(* administrator's operations (api/v1/admin.py) and the provider forms any *)
(* user may send (api/v1/models.py), over the tables users, invite_codes   *)
(* and model_provider_configs.                                             *)
(*                                                                         *)
(* Every operation is a transaction that reads and decides, awaits, and    *)
(* writes.  What it reads is what its read view shows (REPEATABLE READ:    *)
(* the tables as they were at its first SELECT since the last commit); its *)
(* writes meet the current rows, the unique keys and the foreign keys.     *)
(* Everybody creates one user at most, so a user's id is its creator.  A   *)
(* request refused for what it read does nothing and is left out.          *)
(*                                                                         *)
(* An operator introduced by "Mutant:" is no part of the model: it is what *)
(* the action after it would be with a plausible bug.                      *)
(***************************************************************************)
EXTENDS Naturals, FiniteSets

CONSTANTS
  Procs,      \* API processes
  Requests,   \* API requests
  Owner,      \* a user that was there before
  Names,      \* user names; a name stands for the e-mail address as well
  AdminName,  \* ADMIN_USERNAME
  KindsOf,    \* KindsOf[r]: the operations request r may be
  BodiesOf,   \* BodiesOf[r]: what request r may ask for as an administrator's update
  HasKey,     \* whether LLM_API_KEY is set
  None

Kinds == {"register", "invite", "update", "delete", "profile", "provide", "shelve"}
Ids == Procs \cup Requests \cup {Owner}
Actors == Procs \cup Requests
Codes == {"default", "issued"}  \* PRE_INVITE_..., and one an administrator makes
Roles == {"user", "admin"}
Body == [name : Names \cup {None}, role : Roles \cup {"keep"}, active : {"on", "off", "keep"}]

ASSUME AccountsAssumption ==
  /\ AdminName \in Names
  /\ KindsOf \in [Requests -> SUBSET Kinds]
  /\ HasKey \in BOOLEAN /\ BodiesOf \in [Requests -> SUBSET Body]
  /\ None \notin Ids \cup Names \cup Codes
  /\ Procs \cap Requests = {} /\ Owner \notin Actors

VARIABLES
  row,       \* row[i]: the user created by i
  code,      \* code[c]: state of an invitation code and the user it names
  providers, \* the active providers, named by who inserted or activated them
  job        \* job[a]: where process or request a is

accountVars == <<row, code, providers, job>>

NoRow == [state |-> "absent", name |-> None, role |-> "user", active |-> FALSE]
User(name, role) == [state |-> "live", name |-> name, role |-> role, active |-> TRUE]

\* What an actor holds: the values it was called with (name, with, target,
\* role, active), what it read (view), what it did (made), and, for
\* the properties only, who had ended when it began.
IdleJob == [pc |-> "idle", kind |-> "none", name |-> None, with |-> None, target |-> None,
            role |-> "keep", active |-> "keep", view |-> {}, made |-> {}, after |-> {}]

Live(i) == row[i].state = "live"
Admins == {i \in Ids : Live(i) /\ row[i].role = "admin"}
NameTaken(n) == \E i \in Ids : Live(i) /\ row[i].name = n
\* Who has been through the bootstrap.
Booted == {p \in Procs : job[p].pc = "ok"}

\* The tables the bootstrap finds something in, as a new read view shows them.
View == {t \in {"codes", "providers"} :
           \/ t = "codes" /\ \E c \in Codes : code[c].state # "absent"
           \/ t = "providers" /\ providers # {}}

Go(a, pc) == job' = [job EXCEPT ![a].pc = pc]
\* The end: what is remembered for the properties stays.
Ended(j, pc) == [IdleJob EXCEPT !.pc = pc, !.kind = j.kind, !.made = j.made, !.after = j.after]
End(a) == job' = [job EXCEPT ![a] = Ended(@, "ok")]
Fail(a) == job' = [job EXCEPT ![a] = [IdleJob EXCEPT !.pc = "failed", !.made = job[a].made,
                                                     !.after = job[a].after]]
           /\ UNCHANGED <<row, code, providers>>

Empty ==
  /\ row = [i \in Ids |-> NoRow]
  /\ code = [c \in Codes |-> [state |-> "absent", by |-> None]]
  /\ providers = {}

-----------------------------------------------------------------------------
(* Bootstrap: three steps, each a check and an insert that commits.  One     *)
(* that creates nothing does not commit, and the next one goes on reading    *)
(* from the same view.                                                       *)

\* Several administrators make scalar_one_or_none raise.
BootAdmin(p) ==
  /\ job[p].pc = "idle"
  /\ job' = [job EXCEPT ![p] = [@ EXCEPT
       !.kind = "boot", !.view = View, !.after = Booted,
       !.pc = IF Admins = {} THEN "insertAdmin"
              ELSE IF Cardinality(Admins) = 1 THEN "codes" ELSE "failed"]]
  /\ UNCHANGED <<row, code, providers>>

\* Mutant: nothing keeps two rows from having one name.
InsertAdminAnyName(p) ==
  /\ job[p].pc = "insertAdmin"
  /\ row' = [row EXCEPT ![p] = User(AdminName, "admin")]
  /\ job' = [job EXCEPT ![p].pc = "viewCodes", ![p].made = @ \cup {"admin"}]
  /\ UNCHANGED <<code, providers>>

InsertAdmin(p) ==
  /\ job[p].pc = "insertAdmin"
  /\ \/ /\ ~NameTaken(AdminName)
        /\ row' = [row EXCEPT ![p] = User(AdminName, "admin")]
        /\ job' = [job EXCEPT ![p].pc = "viewCodes", ![p].made = @ \cup {"admin"}]
        /\ UNCHANGED <<code, providers>>
     \/ NameTaken(AdminName) /\ Fail(p)

\* What p sees of a table: its view, or a new one after its commit.
Sees(p, fresh) == IF job[p].pc = fresh THEN View ELSE job[p].view

BootCodes(p) ==
  /\ job[p].pc \in {"codes", "viewCodes"}
  /\ LET seen == Sees(p, "viewCodes") IN
       job' = [job EXCEPT ![p].view = seen,
                          ![p].pc = IF "codes" \in seen THEN "providers" ELSE "insertCodes"]
  /\ UNCHANGED <<row, code, providers>>

\* The codes are unique too.  Their expiry date makes create_user fail later.
InsertCodes(p) ==
  /\ job[p].pc = "insertCodes"
  /\ \/ /\ code["default"].state = "absent"
        /\ code' = [code EXCEPT !["default"].state = "dated"]
        /\ job' = [job EXCEPT ![p].pc = "viewProviders", ![p].made = @ \cup {"codes"}]
        /\ UNCHANGED <<row, providers>>
     \/ code["default"].state # "absent" /\ Fail(p)

\* Mutant: whether there is a provider already is not asked.
BootProvidersBlind(p) ==
  /\ job[p].pc \in {"providers", "viewProviders"}
  /\ IF HasKey THEN Go(p, "insertProvider") ELSE End(p)
  /\ UNCHANGED <<row, code, providers>>

BootProviders(p) ==
  /\ job[p].pc \in {"providers", "viewProviders"}
  /\ LET seen == Sees(p, "viewProviders") IN
       IF HasKey /\ "providers" \notin seen THEN Go(p, "insertProvider") ELSE End(p)
  /\ UNCHANGED <<row, code, providers>>

\* Nothing is unique here: every process that saw none inserts one.
InsertProvider(p) ==
  /\ job[p].pc = "insertProvider"
  /\ providers' = providers \cup {p}
  /\ job' = [job EXCEPT ![p] = [Ended(job[p], "ok") EXCEPT !.made = @ \cup {"provider"}]]
  /\ UNCHANGED <<row, code>>

(* wait_for gives the bootstrap 15 seconds, the process may die, MySQL may   *)
(* be down: the process then serves, or starts again, without the rest.      *)
BootFails(p) ==
  /\ job[p].pc \notin {"idle", "ok", "failed"}
  /\ Fail(p)

-----------------------------------------------------------------------------
(* Registration.                                                             *)

\* create_user until its flush.  A code with an expiry date ends it in an
\* exception (a naive date is compared with an aware one).
Register(r) ==
  /\ job[r].pc = "idle" /\ "register" \in KindsOf[r]
  /\ \E n \in Names, c \in Codes \cup {None} :
       /\ ~NameTaken(n) /\ (c # None => code[c].state = "open")
       /\ job' = [job EXCEPT ![r] = [@ EXCEPT
            !.kind = "register", !.name = n, !.with = c, !.pc = "registering"]]
  /\ UNCHANGED <<row, code, providers>>

(* The user is inserted and the code, read before, is marked as used, in one *)
(* commit; a name taken meanwhile violates the unique key.  A code that      *)
(* another registration has used since is used again.                        *)
InsertUser(r) ==
  LET j == job[r] IN
  /\ j.pc = "registering"
  /\ \/ /\ ~NameTaken(j.name)
        /\ row' = [row EXCEPT ![r] = User(j.name, "user")]
        /\ code' = IF j.with = None THEN code
                   ELSE [code EXCEPT ![j.with] = [state |-> "used", by |-> r]]
        /\ End(r)
        /\ UNCHANGED providers
     \/ NameTaken(j.name) /\ Fail(r)

(* update_user: a user changes its own name, is_active or both.              *)
Profile(r) ==
  /\ job[r].pc = "idle" /\ "profile" \in KindsOf[r]
  /\ \E i \in Ids, n \in Names, active \in {"keep", "off"} :
       /\ Live(i) /\ row[i].active
       /\ n = row[i].name \/ ~NameTaken(n)
       /\ job' = [job EXCEPT ![r] = [@ EXCEPT
            !.kind = "profile", !.pc = "saving", !.name = n, !.target = i, !.active = active]]
  /\ UNCHANGED <<row, code, providers>>

SaveProfile(r) ==
  LET j == job[r] free == \A i \in Ids \ {j.target} : Live(i) => row[i].name # j.name IN
  /\ j.pc = "saving"
  /\ \/ /\ Live(j.target) /\ free
        /\ row' = [row EXCEPT ![j.target].name = j.name,
                              ![j.target].active = IF j.active = "off" THEN FALSE ELSE @]
        /\ End(r)
        /\ UNCHANGED <<code, providers>>
     \/ ~(Live(j.target) /\ free) /\ Fail(r)

-----------------------------------------------------------------------------
(* The administrator's operations.                                           *)

\* get_current_active_admin, in the transaction of the operation.
ByAdmin == \E i \in Admins : row[i].active

Invite(r) ==
  /\ job[r].pc = "idle" /\ "invite" \in KindsOf[r] /\ ByAdmin
  /\ code["issued"].state = "absent"
  /\ job' = [job EXCEPT ![r] = [@ EXCEPT !.kind = "invite", !.pc = "inviting"]]
  /\ UNCHANGED <<row, code, providers>>

InsertCode(r) ==
  /\ job[r].pc = "inviting"
  /\ \/ /\ code["issued"].state = "absent"
        /\ code' = [code EXCEPT !["issued"].state = "open"]
        /\ End(r)
        /\ UNCHANGED <<row, providers>>
     \/ code["issued"].state # "absent" /\ Fail(r)

Update(r) ==
  /\ job[r].pc = "idle" /\ "update" \in KindsOf[r] /\ ByAdmin
  /\ \E i \in Ids, b \in BodiesOf[r] :
       /\ Live(i)
       \* A role just assigned is upper case and equals no member of the enum.
       /\ ~(b.role = "keep" /\ row[i].role = "admin" /\ b.active = "off")
       /\ job' = [job EXCEPT ![r] = [@ EXCEPT
            !.kind = "update", !.pc = "updating", !.target = i,
            !.name = b.name, !.role = b.role, !.active = b.active]]
  /\ UNCHANGED <<row, code, providers>>

\* Mutant: "keep" is written like any other value.
SaveUpdateKeeps(r) ==
  LET j == job[r] IN
  /\ j.pc = "updating" /\ Live(j.target)
  /\ row' = [row EXCEPT ![j.target].role = j.role, ![j.target].active = j.active # "off"]
  /\ End(r)
  /\ UNCHANGED <<code, providers>>

\* Only the columns the request names are written.
SaveUpdate(r) ==
  LET j == job[r] free == \A i \in Ids \ {j.target} : Live(i) => row[i].name # j.name IN
  /\ j.pc = "updating"
  /\ \/ /\ Live(j.target) /\ free
        /\ row' = [row EXCEPT
             ![j.target].name = IF j.name = None THEN @ ELSE j.name,
             ![j.target].role = IF j.role = "keep" THEN @ ELSE j.role,
             ![j.target].active = IF j.active = "keep" THEN @ ELSE j.active = "on"]
        /\ End(r)
        /\ UNCHANGED <<code, providers>>
     \/ ~(Live(j.target) /\ free) /\ Fail(r)

Delete(r) ==
  /\ job[r].pc = "idle" /\ "delete" \in KindsOf[r] /\ ByAdmin
  /\ \E i \in Ids :
       /\ Live(i)
       /\ job' = [job EXCEPT ![r] = [@ EXCEPT
            !.kind = "delete", !.pc = "deleting", !.target = i]]
  /\ UNCHANGED <<row, code, providers>>

\* used_by refers to the user, and nothing resets it.  (The user's documents
\* and sessions are deleted before, see DocumentPipeline and Conversation.)
RemoveUser(r) ==
  LET i == job[r].target named == \E c \in Codes : code[c].by = i IN
  /\ job[r].pc = "deleting"
  /\ \/ /\ ~named
        /\ row' = [row EXCEPT ![i].state = "deleted"]
        /\ End(r)
        /\ UNCHANGED <<code, providers>>
     \/ named /\ Fail(r)

-----------------------------------------------------------------------------
(* The provider forms, which ask for a signed-in user only.  Nothing else    *)
(* looks at a provider, so each is the commit it ends with.                  *)

SignedIn == \E i \in Ids : Live(i) /\ row[i].active

\* create_model, or update_model with is_active: one more active provider.
ProvideModel(r) ==
  /\ job[r].pc = "idle" /\ "provide" \in KindsOf[r] /\ SignedIn
  /\ providers' = providers \cup {r}
  /\ job' = [job EXCEPT ![r] = [@ EXCEPT !.kind = "provide", !.pc = "ok"]]
  /\ UNCHANGED <<row, code>>

\* delete_model, or update_model without: one less.
ShelveModel(r) ==
  /\ job[r].pc = "idle" /\ "shelve" \in KindsOf[r] /\ SignedIn
  /\ \E a \in providers : providers' = providers \ {a}
  /\ job' = [job EXCEPT ![r] = [@ EXCEPT !.kind = "shelve", !.pc = "ok"]]
  /\ UNCHANGED <<row, code>>

Boot(p) == \/ BootAdmin(p) \/ InsertAdmin(p) \/ BootCodes(p) \/ InsertCodes(p)
           \/ BootProviders(p) \/ InsertProvider(p) \/ BootFails(p)

Request(r) == \/ Register(r) \/ InsertUser(r) \/ Profile(r) \/ SaveProfile(r)
              \/ Invite(r) \/ InsertCode(r) \/ Update(r) \/ SaveUpdate(r)
              \/ Delete(r) \/ RemoveUser(r) \/ ProvideModel(r) \/ ShelveModel(r)

AccountsNext == (\E p \in Procs : Boot(p)) \/ (\E r \in Requests : Request(r))

-----------------------------------------------------------------------------
(* Properties.                                                               *)

AccountJob ==
  [pc : {"idle", "insertAdmin", "codes", "viewCodes", "insertCodes", "providers", "viewProviders",
         "insertProvider", "registering", "saving", "inviting", "updating", "deleting",
         "ok", "failed"},
   kind : Kinds \cup {"none", "boot"}, name : Names \cup {None}, with : Codes \cup {None},
   target : Ids \cup {None}, role : Roles \cup {"keep"}, active : {"on", "off", "keep"},
   view : SUBSET {"codes", "providers"}, made : SUBSET {"admin", "codes", "provider"},
   after : SUBSET Actors]

AccountsTypeOK ==
  /\ row \in [Ids -> [state : {"absent", "live", "deleted"}, name : Names \cup {None},
                      role : Roles, active : BOOLEAN]]
  /\ code \in [Codes -> [state : {"absent", "dated", "open", "used"}, by : Ids \cup {None}]]
  /\ providers \subseteq Actors
  /\ job \in [Actors -> AccountJob]

(* No two users have one name or e-mail address, though every operation that *)
(* gives one looks first and writes after an await.                          *)
NamesUnique ==
  \A i, k \in Ids : Live(i) /\ Live(k) /\ row[i].name = row[k].name => i = k

(* "All functions are idempotent": the bootstrap of a process that starts    *)
(* when another has been through it creates nothing that is there; it makes  *)
(* an administrator or a provider only where requests have demoted or        *)
(* deleted an administrator, deleted or switched off a provider.             *)
RestartCreatesNothing ==
  \A p, q \in Procs :
    q \in job[p].after =>
      /\ "codes" \notin job[p].made
      /\ "admin" \in job[p].made =>
           \E r \in Requests : job[r].kind \in {"update", "delete"} /\ job[r].pc = "ok"
      /\ "provider" \in job[p].made =>
           \E r \in Requests : job[r].kind = "shelve" /\ job[r].pc = "ok"
=============================================================================
