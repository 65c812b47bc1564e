------------------------------ MODULE Templates ------------------------------
(***************************************************************************)
(* Tenants: the templates and notifications of several users in shared     *)
(* tables.  A template belongs to a user or to "global", the owner of the  *)
(* ones the migrations insert; a notification is resolved against them when*)
(* it is created and again at every attempt to send it, by a worker that   *)
(* knows its user only from the copy it carries.                           *)
(*                                                                         *)
(* The pipeline is reduced to what touches an owner or a template: its     *)
(* channels, processes and failures are those of NotificationSystem.       *)
(***************************************************************************)
EXTENDS Naturals, FiniteSets, Bags

CONSTANTS
  User,           \* user ids the Auth0 middleware sets, none of them empty
  Global,         \* the owner 'global', not a user
  Name,           \* template names as a client may type them, trimmed
  Upper,          \* strings.ToUpper on Name
  Seeds,          \* names the migrations insert
  Id,             \* notification ids
  MaxRetryCount,  \* retries of Process
  MaxSaves        \* bound: how often templates are saved

ASSUME TenantAssumption ==
  /\ Global \notin User
  /\ Upper \in [Name -> Name]
  /\ \A x \in Name : Upper[Upper[x]] = Upper[x]
  /\ Seeds \subseteq {x \in Name : Upper[x] = x}
  /\ MaxRetryCount \in Nat
  /\ MaxSaves \in Nat

VARIABLES
  templates,  \* table templates: the body under each owner and name
  saves,      \* bound: saves so far, the version of the last body
  checked,    \* Create handlers between the template check and the INSERT
  rows,       \* table notifications
  dlq,        \* table dlq_notifications: the owner of each archived id
  copies,     \* bag of the copies of rows in channels and workers
  sent        \* history: what the providers were given

tenantVars == <<templates, saves, checked, rows, dlq, copies, sent>>

-----------------------------------------------------------------------------
(* State                                                                   *)

Owner == User \cup {Global}

\* A body is told apart by who wrote it and when.
Body == [author : Owner, version : 0 .. MaxSaves]
NoBody == [author |-> Global, version |-> MaxSaves + 1]

Status == {"PENDING", "PROCESSING", "SENT", "DLQ"}
Row == [status : Status, user : Owner, name : Name, retry : 0 .. MaxRetryCount + 1]
Stored == DOMAIN rows
Copy == [id : Id, user : Owner, name : Name, retry : 0 .. MaxRetryCount]

TenantInit ==
  /\ templates = [o \in Owner |-> [x \in Name |->
                    IF o = Global /\ x \in Seeds THEN [author |-> Global, version |-> 0]
                                                 ELSE NoBody]]
  /\ saves = 0
  /\ checked = {}
  /\ rows = <<>>
  /\ dlq = <<>>
  /\ copies = EmptyBag
  /\ sent = {}

-----------------------------------------------------------------------------
(* TemplateRepository                                                      *)

Has(o, x) == templates[o][x] # NoBody

\* Mutant of Get: the rows of all users are searched.
GetAnyOwner(x, u) ==
  IF \E o \in User : Has(o, x)
  THEN templates[CHOOSE o \in User : Has(o, x)][x]
  ELSE templates[Global][x]

\* WHERE name = $1 AND (user_id = $2 OR user_id = 'global'), the user's own
\* row first; NoBody is "template not found".
Get(x, u) == IF Has(u, x) THEN templates[u][x] ELSE templates[Global][x]

\* Mutant of GetAll: DISTINCT ON keeps the global row.
GetAllGlobalFirst(u) ==
  [x \in {y \in Name : Has(u, y) \/ Has(Global, y)} |->
     IF Has(Global, x) THEN templates[Global][x] ELSE templates[u][x]]

\* SELECT DISTINCT ON (name): of the rows the user may see the first per
\* name in the order (user_id = 'global') ASC.
GetAll(u) ==
  LET visible == {o \in Owner : o \in {u, Global}}
      first(x) == CHOOSE o \in visible :
                    Has(o, x) /\ \A p \in visible : Has(p, x) => (o = Global => p = Global)
  IN  [x \in {y \in Name : \E o \in visible : Has(o, y)} |-> templates[first(x)][x]]

\* Mutant of Put: the row is stored under the default owner.
PutGlobal(u, x, body) == templates' = [templates EXCEPT ![Global][x] = body]

\* Mutant of Put: the primary key is the name, and a conflict takes the row.
PutByName(u, x, body) ==
  templates' = [o \in Owner |-> [templates[o] EXCEPT ![x] = IF o = u THEN body ELSE NoBody]]

\* INSERT ... ON CONFLICT (user_id, name) DO UPDATE SET body
Put(u, x, body) == templates' = [templates EXCEPT ![u][x] = body]

-----------------------------------------------------------------------------
(* Handlers and pipeline                                                   *)

\* Mutant of Save: the name is stored as it was typed.
SaveAsTyped(u, x) ==
  /\ saves < MaxSaves
  /\ saves' = saves + 1
  /\ Put(u, x, [author |-> u, version |-> saves + 1])
  /\ UNCHANGED <<checked, rows, dlq, copies, sent>>

\* TemplateHandler.Save puts the name in upper case.
Save(u, x) ==
  /\ saves < MaxSaves
  /\ saves' = saves + 1
  /\ Put(u, Upper[x], [author |-> u, version |-> saves + 1])
  /\ UNCHANGED <<checked, rows, dlq, copies, sent>>

\* CreateNotification resolves the template under the name as it was typed; a
\* name that does not resolve is answered 400 ...
CreateCheck(u, x) ==
  /\ Cardinality(checked) + Cardinality(Stored) < Cardinality(Id)
  /\ Get(x, u) # NoBody
  /\ checked' = checked \cup {[user |-> u, name |-> x]}
  /\ UNCHANGED <<templates, saves, rows, dlq, copies, sent>>

InFlight == BagToSet(copies)
AddCopy(c) == copies' = copies (+) SetToBag({c})
DropCopy(c) == copies' = copies (-) SetToBag({c})

AddRow(i, row) ==
  rows' = [j \in Stored \cup {i} |-> IF j = i THEN row ELSE rows[j]]

\* ... and saves the row and enqueues a copy.
CreateSave(c) ==
  /\ \E i \in Id \ Stored :
       /\ AddRow(i, [status |-> "PENDING", user |-> c.user, name |-> c.name, retry |-> 0])
       /\ AddCopy([id |-> i, user |-> c.user, name |-> c.name, retry |-> 0])
  /\ checked' = checked \ {c}
  /\ UNCHANGED <<templates, saves, dlq, sent>>

\* Mutant of Loaded: the query does not return user_id.
LoadedWithoutUser(i) ==
  [id |-> i, user |-> Global, name |-> rows[i].name, retry |-> rows[i].retry]

\* The copy that GetReadyJobs and Get make of a row.
Loaded(i) ==
  [id |-> i, user |-> rows[i].user, name |-> rows[i].name, retry |-> rows[i].retry]

\* GetReadyJobs claims a PENDING row.
Claim(i) ==
  /\ rows[i].status = "PENDING"
  /\ AddCopy(Loaded(i))
  /\ rows' = [rows EXCEPT ![i].status = "PROCESSING"]
  /\ UNCHANGED <<templates, saves, checked, dlq, sent>>

\* Update writes what the copy holds, but never user_id.
Update(c, status, retry) ==
  rows' = [rows EXCEPT ![c.id].status = status, ![c.id].name = c.name, ![c.id].retry = retry]

\* Process with a sender that resolves the template, and a provider that
\* accepts.
SendOk(c) ==
  /\ Get(c.name, c.user) # NoBody
  /\ sent' = sent \cup {[id |-> c.id, body |-> Get(c.name, c.user)]}
  /\ Update(c, "SENT", c.retry)
  /\ DropCopy(c)
  /\ UNCHANGED <<templates, saves, checked, dlq>>

\* DLQRepository.Save: the owner is the copy's; an id that is there already
\* violates the primary key.
AddDead(c) ==
  dlq' = [j \in DOMAIN dlq \cup {c.id} |-> IF j \in DOMAIN dlq THEN dlq[j] ELSE c.user]

\* The template does not resolve, or the provider refuses: retry or archive.
SendFails(c) ==
  /\ IF c.retry + 1 > MaxRetryCount
     THEN Update(c, "DLQ", c.retry + 1) /\ AddDead(c)
     ELSE Update(c, "PENDING", c.retry + 1) /\ UNCHANGED dlq
  /\ DropCopy(c)
  /\ UNCHANGED <<templates, saves, checked, sent>>

\* NotificationRepository.Get and DLQRepository.Get for the user u.
RowFound(i, u) == i \in Stored /\ rows[i].user \in {u, Global}
DeadFound(i, u) == i \in DOMAIN dlq /\ dlq[i] \in {u, Global}

-----------------------------------------------------------------------------
(* Specification                                                           *)

TenantNext ==
  \/ \E u \in User, x \in Name : Save(u, x) \/ CreateCheck(u, x)
  \/ \E c \in checked : CreateSave(c)
  \/ \E i \in Stored : Claim(i)
  \/ \E c \in InFlight : SendOk(c) \/ SendFails(c)

TenantSpec == TenantInit /\ [][TenantNext]_tenantVars

-----------------------------------------------------------------------------
(* Properties                                                              *)

\* Every variable has its type; templates are stored in upper case only, and
\* so are, since they resolved, the names that notifications refer to.
TenantType ==
  /\ templates \in [Owner -> [Name -> Body \cup {NoBody}]]
  /\ \A o \in Owner, x \in Name : Has(o, x) => Upper[x] = x
  /\ saves \in 0 .. MaxSaves
  /\ checked \subseteq [user : User, name : Name]
  /\ Stored \subseteq Id
  /\ \A i \in Stored : rows[i] \in Row /\ Upper[rows[i].name] = rows[i].name
  /\ InFlight \subseteq Copy
  /\ DOMAIN dlq \subseteq Stored
  /\ \A i \in DOMAIN dlq : dlq[i] \in Owner

\* CreateNotification checks the template once, the senders look it up again
\* minutes or retries later, for the user they find in their copy: it still
\* resolves, so no accepted notification fails for want of its template.
AcceptedResolves ==
  /\ \A c \in InFlight : Get(c.name, c.user) # NoBody
  /\ \A i \in Stored : Get(rows[i].name, rows[i].user) # NoBody

\* The provider is given a body written by the notification's own user or a
\* global one, whatever the other users save under the same name and however
\* often the row was claimed and retried.
NoForeignBody ==
  \A m \in sent : m.body.author \in {rows[m.id].user, Global}

\* GetByID looks into dlq_notifications only when the user is not entitled to
\* the row itself, and then finds nothing there either: an archived
\* notification belongs to the owner of its row.
ArchiveKeepsOwner ==
  \A i \in Id, u \in User : DeadFound(i, u) => RowFound(i, u)

\* GET /templates shows a user exactly what the senders would resolve.
ListedIsResolved ==
  \A u \in User, x \in Name :
    Get(x, u) = IF x \in DOMAIN GetAll(u) THEN GetAll(u)[x] ELSE NoBody

\* A step that changes what a name means to one user leaves it as it is for
\* every other user.
SaveIsLocal ==
  [][\A u, v \in User, x, y \in Name :
       u # v /\ Get(x, u)' # Get(x, u) => Get(y, v)' = Get(y, v)]_tenantVars
=============================================================================
