--------------------------- MODULE TemplatesProofs ---------------------------
(***************************************************************************)
(* Tenants in shared tables, for any number of users, names, saves,        *)
(* notifications and retries: an accepted notification always resolves, a  *)
(* provider is never given the body of another user, and an archived       *)
(* notification keeps its owner.                                           *)
(***************************************************************************)
EXTENDS Templates, TLAPS

-----------------------------------------------------------------------------
(* The inductive invariant                                                 *)

\* Every body is its owner's: the global rows are those of the migrations.
OwnBodies ==
  \A o \in Owner, x \in Name : Has(o, x) => templates[o][x].author = o

\* A Create handler between check and INSERT holds a name that resolves.
CheckedResolves ==
  \A c \in checked : Get(c.name, c.user) # NoBody

\* A PENDING row has a retry left.
PendingHasRetry ==
  \A i \in Stored : rows[i].status = "PENDING" => rows[i].retry <= MaxRetryCount

\* A copy is a copy of a stored row and carries the owner of that row.
CopiesOwned ==
  \A c \in InFlight : c.id \in Stored /\ c.user = rows[c.id].user

\* What is archived belongs to the owner of the row.
ArchiveOwned ==
  \A i \in DOMAIN dlq : dlq[i] = rows[i].user

\* What was sent was sent for a stored row.
SentStored ==
  \A m \in sent : m.id \in Stored

TenantInv ==
  /\ TenantType
  /\ rows \in [Stored -> Row]
  /\ OwnBodies
  /\ CheckedResolves
  /\ AcceptedResolves
  /\ PendingHasRetry
  /\ CopiesOwned
  /\ ArchiveOwned
  /\ SentStored
  /\ NoForeignBody

-----------------------------------------------------------------------------
(* What the operations do to the tables                                    *)

\* A body that was written is not "not found": its version is at most MaxSaves.
LEMMA BodyIsFound ==
  ASSUME NEW b \in Body
  PROVE  b # NoBody
BY TenantAssumption DEF Body, NoBody

\* Save keeps the table of templates well formed, with every body its owner's
\* and under an upper-case name, and removes nothing.
LEMMA SaveEffect ==
  ASSUME TenantInv, NEW u \in User, NEW x \in Name, Save(u, x)
  PROVE  /\ templates' \in [Owner -> [Name -> Body \cup {NoBody}]]
         /\ \A o \in Owner, y \in Name : Has(o, y)' => Upper[y] = y
         /\ OwnBodies'
         /\ \A o \in Owner, y \in Name : Has(o, y) => Has(o, y)'
         /\ saves' \in 0 .. MaxSaves
<1> DEFINE body == [author |-> u, version |-> saves + 1]
           name == Upper[x]
<1>1. /\ saves \in 0 .. MaxSaves
      /\ saves < MaxSaves
      /\ saves' = saves + 1
      /\ templates' = [templates EXCEPT ![u][name] = body]
      /\ templates \in [Owner -> [Name -> Body \cup {NoBody}]]
      /\ \A o \in Owner, y \in Name : Has(o, y) => Upper[y] = y
  BY DEF TenantInv, TenantType, Save, Put
<1>2. name \in Name /\ Upper[name] = name
  BY TenantAssumption
<1>3. saves + 1 \in 0 .. MaxSaves
  BY <1>1, TenantAssumption
<1>4. u \in Owner
  BY DEF Owner
<1>5. body \in Body
  BY <1>3, <1>4 DEF Body
<1>6. body # NoBody
  BY <1>5, BodyIsFound
<1>7. body.author = u
  OBVIOUS
<1> HIDE DEF body, name
<1>8. \A o \in Owner, y \in Name :
        templates'[o][y] = IF o = u /\ y = name THEN body ELSE templates[o][y]
  BY <1>1, <1>2, <1>4
<1>9. templates' \in [Owner -> [Name -> Body \cup {NoBody}]]
  BY <1>1, <1>2, <1>4, <1>5
<1>10. \A o \in Owner, y \in Name : Has(o, y)' => Upper[y] = y
  BY <1>1, <1>2, <1>8 DEF Has
<1>11. OwnBodies'
  BY <1>7, <1>8 DEF OwnBodies, TenantInv, Has
<1>12. \A o \in Owner, y \in Name : Has(o, y) => Has(o, y)'
  BY <1>6, <1>8 DEF Has
<1>13. saves' \in 0 .. MaxSaves
  BY <1>1, <1>3
<1> QED BY <1>9, <1>10, <1>11, <1>12, <1>13

\* What resolved for a user still resolves when nothing was removed.
LEMMA ResolvesStable ==
  ASSUME NEW u \in Owner, NEW x \in Name,
         \A o \in Owner, y \in Name : Has(o, y) => Has(o, y)',
         Get(x, u) # NoBody
  PROVE  Get(x, u)' # NoBody
BY DEF Get, Has, Owner

\* A name that resolves is in upper case.
LEMMA ResolvedIsUpper ==
  ASSUME TenantType, NEW u \in Owner, NEW x \in Name, Get(x, u) # NoBody
  PROVE  Upper[x] = x
BY DEF TenantType, Get, Has, Owner

\* What resolves was written by the user or is global.
LEMMA ResolvedIsOwn ==
  ASSUME OwnBodies, NEW u \in Owner, NEW x \in Name, Get(x, u) # NoBody
  PROVE  Get(x, u).author \in {u, Global}
BY DEF OwnBodies, Get, Has, Owner

\* AddCopy and DropCopy add at most, and only, the copy named.
LEMMA CopyEffect ==
  ASSUME NEW c
  PROVE  /\ AddCopy(c) => InFlight' \subseteq InFlight \cup {c}
         /\ DropCopy(c) => InFlight' \subseteq InFlight
<1>1. AddCopy(c) => InFlight' \subseteq InFlight \cup {c}
  BY DEF AddCopy, InFlight, BagToSet, (+), SetToBag
<1>2. DropCopy(c) => InFlight' \subseteq InFlight
  BY DEF DropCopy, InFlight, BagToSet, (-), SetToBag
<1> QED BY <1>1, <1>2

\* The three columns Update writes, one after the other.
LEMMA WriteStatus ==
  ASSUME NEW r \in Row, NEW s \in Status
  PROVE  LET w == [r EXCEPT !.status = s]
         IN  w \in Row /\ w.status = s /\ w.user = r.user
BY DEF Row

\* The second one is the name,
LEMMA WriteName ==
  ASSUME NEW r \in Row, NEW x \in Name
  PROVE  LET w == [r EXCEPT !.name = x]
         IN  w \in Row /\ w.status = r.status /\ w.user = r.user /\ w.name = x
BY DEF Row

\* and the third the number of retries.
LEMMA WriteRetry ==
  ASSUME NEW r \in Row, NEW n \in 0 .. MaxRetryCount + 1
  PROVE  LET w == [r EXCEPT !.retry = n]
         IN  w \in Row /\ w.status = r.status /\ w.user = r.user /\ w.name = r.name /\ w.retry = n
BY DEF Row

\* Update writes one row and leaves its owner.
LEMMA UpdateEffect ==
  ASSUME rows \in [Stored -> Row], NEW c \in Copy, c.id \in Stored,
         NEW s \in Status, NEW n \in 0 .. MaxRetryCount + 1,
         Update(c, s, n)
  PROVE  /\ Stored' = Stored
         /\ rows' \in [Stored' -> Row]
         /\ \A j \in Stored : rows'[j].user = rows[j].user
         /\ \A j \in Stored : j # c.id => rows'[j] = rows[j]
         /\ rows'[c.id].name = c.name
         /\ rows'[c.id].status = s
         /\ rows'[c.id].retry = n
<1> DEFINE r == rows[c.id]
           r1 == [r EXCEPT !.status = s]
           r2 == [r1 EXCEPT !.name = c.name]
           r3 == [r2 EXCEPT !.retry = n]
           A == [rows EXCEPT ![c.id] = r1]
           B == [A EXCEPT ![c.id] = [A[c.id] EXCEPT !.name = c.name]]
           C == [B EXCEPT ![c.id] = [B[c.id] EXCEPT !.retry = n]]
<1>1. rows' = C
  BY DEF Update
<1>2. r \in Row /\ c.name \in Name
  BY DEF Copy
<1>3. r1 \in Row /\ r1.status = s /\ r1.user = r.user
  <2> HIDE DEF r
  <2> QED BY <1>2, WriteStatus
<1>4. r2 \in Row /\ r2.status = s /\ r2.user = r.user /\ r2.name = c.name
  <2> HIDE DEF r1
  <2> QED BY <1>2, <1>3, WriteName
<1>5. r3 \in Row /\ r3.status = s /\ r3.user = r.user /\ r3.name = c.name /\ r3.retry = n
  <2> HIDE DEF r2
  <2> QED BY <1>2, <1>4, WriteRetry
<1>6. C = [rows EXCEPT ![c.id] = r3]
  <2> HIDE DEF r1
  <2>1. A[c.id] = r1
    OBVIOUS
  <2>2. B = [A EXCEPT ![c.id] = r2]
    BY <2>1
  <2> HIDE DEF r2
  <2>3. B[c.id] = r2
    BY <2>2
  <2>4. C = [B EXCEPT ![c.id] = r3]
    BY <2>3
  <2> HIDE DEF r3
  <2> QED BY <2>2, <2>4
<1>7. rows' = [rows EXCEPT ![c.id] = r3]
  BY <1>1, <1>6
<1> HIDE DEF r3
<1>8. Stored' = Stored
  BY <1>7 DEF Stored
<1>9. \A j \in Stored : rows'[j] = IF j = c.id THEN r3 ELSE rows[j]
  BY <1>7
<1>10. rows' \in [Stored' -> Row]
  BY <1>5, <1>7, <1>8
<1> QED BY <1>5, <1>8, <1>9, <1>10

-----------------------------------------------------------------------------
(* Every action keeps the invariant                                        *)

\* The tables, the copies and what was sent are as they were: so is what the
\* invariant says of them, whatever was saved.
LEMMA SaveKeepsInv ==
  ASSUME TenantInv, NEW u \in User, NEW x \in Name, Save(u, x)
  PROVE  TenantInv'
<1>1. UNCHANGED <<checked, rows, dlq, copies, sent>>
  BY DEF Save
<1>2. /\ templates' \in [Owner -> [Name -> Body \cup {NoBody}]]
      /\ \A o \in Owner, y \in Name : Has(o, y)' => Upper[y] = y
      /\ OwnBodies'
      /\ \A o \in Owner, y \in Name : Has(o, y) => Has(o, y)'
      /\ saves' \in 0 .. MaxSaves
  BY SaveEffect
<1>3. UNCHANGED <<Stored, InFlight>>
  BY <1>1 DEF Stored, InFlight
<1>4. TenantType' /\ rows' \in [Stored' -> Row]
  BY <1>1, <1>2, <1>3 DEF TenantInv, TenantType
<1>5. CheckedResolves'
  <2> SUFFICES ASSUME NEW c \in checked PROVE Get(c.name, c.user)' # NoBody
    BY <1>1 DEF CheckedResolves
  <2>1. c.user \in Owner /\ c.name \in Name /\ Get(c.name, c.user) # NoBody
    BY DEF TenantInv, TenantType, CheckedResolves, Owner
  <2> QED BY <2>1, <1>2, ResolvesStable
<1>6. AcceptedResolves'
  <2>1. ASSUME NEW c \in InFlight PROVE Get(c.name, c.user)' # NoBody
    <3>1. c.user \in Owner /\ c.name \in Name /\ Get(c.name, c.user) # NoBody
      BY DEF TenantInv, TenantType, AcceptedResolves, Copy
    <3> QED BY <3>1, <1>2, ResolvesStable
  <2>2. ASSUME NEW i \in Stored PROVE Get(rows[i].name, rows[i].user)' # NoBody
    <3>1. PICK n, o : n = rows[i].name /\ o = rows[i].user
      OBVIOUS
    <3>2. o \in Owner /\ n \in Name /\ Get(n, o) # NoBody
      BY <3>1 DEF TenantInv, TenantType, AcceptedResolves, Row
    <3>3. Get(n, o)' # NoBody
      BY <3>2, <1>2, ResolvesStable
    <3> QED BY <3>1, <3>3, <1>1
  <2> QED BY <1>3, <2>1, <2>2 DEF AcceptedResolves
<1>7. PendingHasRetry' /\ CopiesOwned' /\ ArchiveOwned' /\ SentStored' /\ NoForeignBody'
  BY <1>1, <1>3 DEF TenantInv, PendingHasRetry, CopiesOwned, ArchiveOwned, SentStored, NoForeignBody
<1> QED BY <1>2, <1>4, <1>5, <1>6, <1>7 DEF TenantInv

\* Nothing but Save writes a template: every name means what it meant.
LEMMA SameTemplates ==
  ASSUME UNCHANGED templates
  PROVE  /\ \A o, x : Has(o, x)' = Has(o, x)
         /\ \A x, u : Get(x, u)' = Get(x, u)
         /\ OwnBodies => OwnBodies'
BY DEF Has, Get, OwnBodies

\* The name that the Create handler holds has just resolved.
LEMMA CreateCheckKeepsInv ==
  ASSUME TenantInv, NEW u \in User, NEW x \in Name, CreateCheck(u, x)
  PROVE  TenantInv'
<1>1. /\ UNCHANGED <<templates, saves, rows, dlq, copies, sent>>
      /\ Get(x, u) # NoBody
      /\ checked' = checked \cup {[user |-> u, name |-> x]}
  BY DEF CreateCheck
<1>2. /\ \A o, y : Has(o, y)' = Has(o, y)
      /\ \A y, v : Get(y, v)' = Get(y, v)
      /\ OwnBodies'
  BY <1>1, SameTemplates DEF TenantInv
<1>3. UNCHANGED <<Stored, InFlight>>
  BY <1>1 DEF Stored, InFlight
<1>4. TenantType' /\ rows' \in [Stored' -> Row]
  BY <1>1, <1>2, <1>3 DEF TenantInv, TenantType
<1>5. CheckedResolves'
  BY <1>1, <1>2 DEF TenantInv, CheckedResolves
<1>6. AcceptedResolves'
  BY <1>1, <1>2, <1>3 DEF TenantInv, AcceptedResolves
<1>7. PendingHasRetry' /\ CopiesOwned' /\ ArchiveOwned' /\ SentStored' /\ NoForeignBody'
  BY <1>1, <1>3 DEF TenantInv, PendingHasRetry, CopiesOwned, ArchiveOwned, SentStored, NoForeignBody
<1> QED BY <1>2, <1>4, <1>5, <1>6, <1>7 DEF TenantInv

\* The row and the copy that CreateSave makes are the checked user's, under
\* the name that resolved.
LEMMA CreateSaveKeepsInv ==
  ASSUME TenantInv, NEW c \in checked, CreateSave(c)
  PROVE  TenantInv'
<1>1. /\ UNCHANGED <<templates, saves, dlq, sent>>
      /\ checked' = checked \ {c}
  BY DEF CreateSave
<1>2. c.user \in Owner /\ c.name \in Name /\ Get(c.name, c.user) # NoBody
  BY DEF TenantInv, TenantType, CheckedResolves, Owner
<1>3. Upper[c.name] = c.name
  BY <1>2, ResolvedIsUpper DEF TenantInv
<1>4. /\ \A o, y : Has(o, y)' = Has(o, y)
      /\ \A y, v : Get(y, v)' = Get(y, v)
      /\ OwnBodies'
  BY <1>1, SameTemplates DEF TenantInv
<1> DEFINE row == [status |-> "PENDING", user |-> c.user, name |-> c.name, retry |-> 0]
           copy(i) == [id |-> i, user |-> c.user, name |-> c.name, retry |-> 0]
<1>5. PICK i \in Id \ Stored : AddRow(i, row) /\ AddCopy(copy(i))
  BY DEF CreateSave
<1>6. row \in Row /\ copy(i) \in Copy
  BY <1>2, TenantAssumption DEF Row, Copy, Status
<1>7. row.user = c.user /\ row.name = c.name /\ row.retry = 0
  OBVIOUS
<1>8. copy(i).id = i /\ copy(i).user = c.user /\ copy(i).name = c.name
  OBVIOUS
<1> HIDE DEF row, copy
<1>9. Stored' = Stored \cup {i} /\ rows'[i] = row /\ \A j \in Stored : rows'[j] = rows[j]
  BY <1>5 DEF AddRow, Stored
<1>10. InFlight' \subseteq InFlight \cup {copy(i)}
  BY <1>5, CopyEffect
<1>11. rows' \in [Stored' -> Row]
  <2>1. rows' = [j \in Stored \cup {i} |-> IF j = i THEN row ELSE rows[j]]
    BY <1>5 DEF AddRow
  <2> QED BY <2>1, <1>6, <1>9 DEF TenantInv
<1>12. TenantType'
  <2>1. checked' \subseteq [user : User, name : Name]
    BY <1>1 DEF TenantInv, TenantType
  <2>2. /\ Stored' \subseteq Id
        /\ \A j \in Stored' : rows'[j] \in Row /\ Upper[rows'[j].name] = rows'[j].name
    BY <1>3, <1>5, <1>6, <1>7, <1>9 DEF TenantInv, TenantType
  <2>3. InFlight' \subseteq Copy
    BY <1>6, <1>10 DEF TenantInv, TenantType
  <2>4. DOMAIN dlq' \subseteq Stored' /\ \A j \in DOMAIN dlq' : dlq'[j] \in Owner
    BY <1>1, <1>9 DEF TenantInv, TenantType
  <2> QED BY <2>1, <2>2, <2>3, <2>4, <1>1, <1>4 DEF TenantInv, TenantType
<1>13. CheckedResolves'
  BY <1>1, <1>4 DEF TenantInv, CheckedResolves
<1>14. AcceptedResolves'
  BY <1>2, <1>4, <1>7, <1>8, <1>9, <1>10 DEF TenantInv, AcceptedResolves
<1>15. PendingHasRetry'
  BY <1>7, <1>9, TenantAssumption DEF TenantInv, PendingHasRetry
<1>16. CopiesOwned'
  BY <1>5, <1>7, <1>8, <1>9, <1>10 DEF TenantInv, CopiesOwned
<1>17. ArchiveOwned' /\ SentStored' /\ NoForeignBody'
  BY <1>1, <1>9 DEF TenantInv, TenantType, ArchiveOwned, SentStored, NoForeignBody
<1> QED BY <1>4, <1>11, <1>12, <1>13, <1>14, <1>15, <1>16, <1>17 DEF TenantInv

\* A claimed row gives a copy with its own owner, name and retries.
LEMMA ClaimKeepsInv ==
  ASSUME TenantInv, NEW i \in Stored, Claim(i)
  PROVE  TenantInv'
<1>1. /\ UNCHANGED <<templates, saves, checked, dlq, sent>>
      /\ rows[i].status = "PENDING"
      /\ AddCopy(Loaded(i))
      /\ rows' = [rows EXCEPT ![i].status = "PROCESSING"]
  BY DEF Claim
<1>2. /\ \A o, y : Has(o, y)' = Has(o, y)
      /\ \A y, v : Get(y, v)' = Get(y, v)
      /\ OwnBodies'
  BY <1>1, SameTemplates DEF TenantInv
<1>3. PICK r \in Row : r = rows[i]
  BY DEF TenantInv
<1>4. r.user \in Owner /\ r.name \in Name /\ r.retry \in 0 .. MaxRetryCount /\ i \in Id
  BY <1>1, <1>3, TenantAssumption DEF TenantInv, TenantType, PendingHasRetry, Row
<1>5. Upper[r.name] = r.name /\ Get(r.name, r.user) # NoBody
  BY <1>3 DEF TenantInv, TenantType, AcceptedResolves
<1> DEFINE w == [r EXCEPT !.status = "PROCESSING"]
<1>6. w \in Row /\ w.status = "PROCESSING" /\ w.user = r.user /\ w.name = r.name
  BY DEF Row, Status
<1>7. rows' = [rows EXCEPT ![i] = w]
  BY <1>1, <1>3
<1>8. Loaded(i).id = i /\ Loaded(i).user = r.user /\ Loaded(i).name = r.name
  BY <1>3 DEF Loaded
<1>9. Loaded(i) \in Copy
  BY <1>3, <1>4 DEF Loaded, Copy
<1> HIDE DEF w
<1>10. /\ Stored' = Stored
       /\ rows'[i] = w
       /\ \A j \in Stored : j # i => rows'[j] = rows[j]
       /\ \A j \in Stored : rows'[j].user = rows[j].user
       /\ \A j \in Stored : rows'[j].name = rows[j].name
       /\ rows' \in [Stored' -> Row]
  <2>1. rows \in [Stored -> Row]
    BY DEF TenantInv
  <2>2. Stored' = Stored
    BY <1>7 DEF Stored
  <2>3. \A j \in Stored : rows'[j] = IF j = i THEN w ELSE rows[j]
    BY <2>1, <1>7
  <2>4. rows' \in [Stored' -> Row]
    BY <2>1, <2>2, <1>6, <1>7
  <2> QED BY <2>2, <2>3, <2>4, <1>3, <1>6
<1>11. InFlight' \subseteq InFlight \cup {Loaded(i)}
  BY <1>1, CopyEffect
<1>12. TenantType'
  <2>1. InFlight' \subseteq Copy
    BY <1>9, <1>11 DEF TenantInv, TenantType
  <2>2. \A j \in Stored' : rows'[j] \in Row /\ Upper[rows'[j].name] = rows'[j].name
    BY <1>10 DEF TenantInv, TenantType
  <2>3. DOMAIN dlq' \subseteq Stored' /\ \A j \in DOMAIN dlq' : dlq'[j] \in Owner
    BY <1>1, <1>10 DEF TenantInv, TenantType
  <2> QED BY <2>1, <2>2, <2>3, <1>1, <1>2, <1>10 DEF TenantInv, TenantType
<1>13. CheckedResolves'
  BY <1>1, <1>2 DEF TenantInv, CheckedResolves
<1>14. AcceptedResolves'
  BY <1>2, <1>5, <1>8, <1>10, <1>11 DEF TenantInv, AcceptedResolves
<1>15. PendingHasRetry'
  BY <1>6, <1>10 DEF TenantInv, PendingHasRetry
<1>16. CopiesOwned'
  BY <1>3, <1>8, <1>10, <1>11 DEF TenantInv, CopiesOwned
<1>17. ArchiveOwned' /\ SentStored' /\ NoForeignBody'
  BY <1>1, <1>10 DEF TenantInv, TenantType, ArchiveOwned, SentStored, NoForeignBody
<1> QED BY <1>2, <1>10, <1>12, <1>13, <1>14, <1>15, <1>16, <1>17 DEF TenantInv

\* What an attempt writes back keeps the owner of the row, whether it succeeds
\* or fails.
LEMMA UpdateKeeps ==
  ASSUME TenantInv, NEW c \in InFlight,
         NEW s \in Status, NEW n \in 0 .. MaxRetryCount + 1,
         s = "PENDING" => n <= MaxRetryCount,
         Update(c, s, n), DropCopy(c), UNCHANGED <<templates, saves, checked>>
  PROVE  /\ Stored' = Stored
         /\ rows' \in [Stored' -> Row]
         /\ \A j \in Stored : rows'[j].user = rows[j].user
         /\ \A j \in Stored' : rows'[j] \in Row /\ Upper[rows'[j].name] = rows'[j].name
         /\ InFlight' \subseteq Copy
         /\ OwnBodies' /\ CheckedResolves' /\ AcceptedResolves'
         /\ PendingHasRetry' /\ CopiesOwned'
<1>1. c \in Copy /\ c.id \in Stored /\ c.user = rows[c.id].user
  BY DEF TenantInv, TenantType, CopiesOwned
<1>2. c.name \in Name /\ c.user \in Owner /\ Get(c.name, c.user) # NoBody
  BY <1>1 DEF TenantInv, AcceptedResolves, Copy
<1>3. Upper[c.name] = c.name
  BY <1>2, ResolvedIsUpper DEF TenantInv
<1>4. /\ Stored' = Stored
      /\ rows' \in [Stored' -> Row]
      /\ \A j \in Stored : rows'[j].user = rows[j].user
      /\ \A j \in Stored : j # c.id => rows'[j] = rows[j]
      /\ rows'[c.id].name = c.name
      /\ rows'[c.id].status = s
      /\ rows'[c.id].retry = n
  BY <1>1, UpdateEffect DEF TenantInv
<1>5. /\ \A o, y : Has(o, y)' = Has(o, y)
      /\ \A y, v : Get(y, v)' = Get(y, v)
      /\ OwnBodies'
  BY SameTemplates DEF TenantInv
<1>6. InFlight' \subseteq InFlight
  BY CopyEffect
<1>7. \A j \in Stored' : rows'[j] \in Row /\ Upper[rows'[j].name] = rows'[j].name
  BY <1>3, <1>4 DEF TenantInv, TenantType
<1>8. CheckedResolves'
  BY <1>5 DEF TenantInv, CheckedResolves
<1>9. AcceptedResolves'
  <2>1. \A d \in InFlight' : Get(d.name, d.user)' # NoBody
    BY <1>5, <1>6 DEF TenantInv, AcceptedResolves
  <2>2. ASSUME NEW j \in Stored PROVE Get(rows[j].name, rows[j].user)' # NoBody
    <3>1. CASE j = c.id
      BY <3>1, <1>1, <1>2, <1>4, <1>5
    <3>2. CASE j # c.id
      BY <3>2, <1>4, <1>5 DEF TenantInv, AcceptedResolves
    <3> QED BY <3>1, <3>2
  <2> QED BY <2>1, <2>2, <1>4 DEF AcceptedResolves
<1>10. PendingHasRetry'
  BY <1>4 DEF TenantInv, PendingHasRetry
<1>11. CopiesOwned'
  BY <1>4, <1>6 DEF TenantInv, CopiesOwned
<1>12. InFlight' \subseteq Copy
  BY <1>6 DEF TenantInv, TenantType
<1> QED BY <1>4, <1>5, <1>7, <1>8, <1>9, <1>10, <1>11, <1>12

\* A sender gives the provider the body that resolves for the copy's user, who
\* is the owner of the row.
LEMMA SendOkKeepsInv ==
  ASSUME TenantInv, NEW c \in InFlight, SendOk(c)
  PROVE  TenantInv'
<1>1. /\ UNCHANGED <<templates, saves, checked, dlq>>
      /\ Get(c.name, c.user) # NoBody
      /\ sent' = sent \cup {[id |-> c.id, body |-> Get(c.name, c.user)]}
      /\ Update(c, "SENT", c.retry)
      /\ DropCopy(c)
  BY DEF SendOk
<1>2. c \in Copy /\ c.id \in Stored /\ c.user = rows[c.id].user
  BY DEF TenantInv, TenantType, CopiesOwned
<1>3. c.name \in Name /\ c.user \in Owner /\ c.retry \in 0 .. MaxRetryCount + 1
  BY <1>2, TenantAssumption DEF Copy
<1>4. /\ Stored' = Stored
      /\ rows' \in [Stored' -> Row]
      /\ \A j \in Stored : rows'[j].user = rows[j].user
      /\ \A j \in Stored' : rows'[j] \in Row /\ Upper[rows'[j].name] = rows'[j].name
      /\ InFlight' \subseteq Copy
      /\ OwnBodies' /\ CheckedResolves' /\ AcceptedResolves'
      /\ PendingHasRetry' /\ CopiesOwned'
  <2>1. "SENT" \in Status /\ "SENT" # "PENDING"
    BY DEF Status
  <2> QED BY <2>1, <1>1, <1>3, UpdateKeeps
<1>5. \A o, y : Has(o, y)' = Has(o, y)
  BY <1>1, SameTemplates
<1>6. TenantType'
  <2>1. DOMAIN dlq' \subseteq Stored' /\ \A j \in DOMAIN dlq' : dlq'[j] \in Owner
    BY <1>1, <1>4 DEF TenantInv, TenantType
  <2>2. Stored' \subseteq Id /\ checked' \subseteq [user : User, name : Name]
    BY <1>1, <1>4 DEF TenantInv, TenantType
  <2> QED BY <2>1, <2>2, <1>1, <1>4, <1>5 DEF TenantInv, TenantType
<1>7. ArchiveOwned'
  BY <1>1, <1>4 DEF TenantInv, TenantType, ArchiveOwned
<1>8. SentStored'
  BY <1>1, <1>2, <1>4 DEF TenantInv, SentStored
<1>9. NoForeignBody'
  <2>1. Get(c.name, c.user).author \in {rows[c.id].user, Global}
    BY <1>1, <1>2, <1>3, ResolvedIsOwn DEF TenantInv
  <2> QED BY <2>1, <1>1, <1>2, <1>4 DEF TenantInv, SentStored, NoForeignBody
<1> QED BY <1>4, <1>6, <1>7, <1>8, <1>9 DEF TenantInv

\* A failed attempt writes the row back, and what it archives is the row
\* owner's.
LEMMA SendFailsKeepsInv ==
  ASSUME TenantInv, NEW c \in InFlight, SendFails(c)
  PROVE  TenantInv'
<1>1. UNCHANGED <<templates, saves, checked, sent>> /\ DropCopy(c)
  BY DEF SendFails
<1>2. c \in Copy /\ c.id \in Stored /\ c.user = rows[c.id].user
  BY DEF TenantInv, TenantType, CopiesOwned
<1>3. c.user \in Owner /\ c.retry \in 0 .. MaxRetryCount /\ c.retry + 1 \in 0 .. MaxRetryCount + 1
  BY <1>2, TenantAssumption DEF Copy
<1>4. /\ Stored' = Stored
      /\ rows' \in [Stored' -> Row]
      /\ \A j \in Stored : rows'[j].user = rows[j].user
      /\ \A j \in Stored' : rows'[j] \in Row /\ Upper[rows'[j].name] = rows'[j].name
      /\ InFlight' \subseteq Copy
      /\ OwnBodies' /\ CheckedResolves' /\ AcceptedResolves'
      /\ PendingHasRetry' /\ CopiesOwned'
  <2>1. "DLQ" \in Status /\ "PENDING" \in Status /\ "DLQ" # "PENDING"
    BY DEF Status
  <2>2. CASE c.retry + 1 > MaxRetryCount
    <3>1. Update(c, "DLQ", c.retry + 1)
      BY <2>2 DEF SendFails
    <3> QED BY <3>1, <2>1, <1>1, <1>3, UpdateKeeps
  <2>3. CASE ~(c.retry + 1 > MaxRetryCount)
    <3>1. Update(c, "PENDING", c.retry + 1)
      BY <2>3 DEF SendFails
    <3>2. c.retry + 1 <= MaxRetryCount
      BY <2>3, <1>3, TenantAssumption
    <3> QED BY <3>1, <3>2, <2>1, <1>1, <1>3, UpdateKeeps
  <2> QED BY <2>2, <2>3
<1>5. \A o, y : Has(o, y)' = Has(o, y)
  BY <1>1, SameTemplates
<1>6. /\ DOMAIN dlq' \subseteq DOMAIN dlq \cup {c.id}
      /\ \A j \in DOMAIN dlq' : dlq'[j] = IF j \in DOMAIN dlq THEN dlq[j] ELSE c.user
  BY DEF SendFails, AddDead
<1>7. ArchiveOwned'
  BY <1>2, <1>4, <1>6 DEF TenantInv, TenantType, ArchiveOwned
<1>8. TenantType'
  <2>1. DOMAIN dlq' \subseteq Stored' /\ \A j \in DOMAIN dlq' : dlq'[j] \in Owner
    BY <1>2, <1>3, <1>4, <1>6 DEF TenantInv, TenantType
  <2>2. Stored' \subseteq Id /\ checked' \subseteq [user : User, name : Name]
    BY <1>1, <1>4 DEF TenantInv, TenantType
  <2> QED BY <2>1, <2>2, <1>1, <1>4, <1>5 DEF TenantInv, TenantType
<1>9. SentStored' /\ NoForeignBody'
  BY <1>1, <1>4 DEF TenantInv, SentStored, NoForeignBody
<1> QED BY <1>4, <1>7, <1>8, <1>9 DEF TenantInv

\* Every step of the system keeps the invariant.
LEMMA TenantInvStep ==
  ASSUME TenantInv, [TenantNext]_tenantVars
  PROVE  TenantInv'
<1>1. CASE UNCHANGED tenantVars
  <2>1. UNCHANGED <<templates, saves, checked, rows, dlq, copies, sent, Stored, InFlight>>
    BY <1>1 DEF tenantVars, Stored, InFlight
  <2>2. /\ \A o, y : Has(o, y)' = Has(o, y)
        /\ \A y, v : Get(y, v)' = Get(y, v)
        /\ OwnBodies'
    BY <2>1, SameTemplates DEF TenantInv
  <2>3. TenantType' /\ rows' \in [Stored' -> Row]
    BY <2>1, <2>2 DEF TenantInv, TenantType
  <2>4. CheckedResolves' /\ AcceptedResolves'
    BY <2>1, <2>2 DEF TenantInv, CheckedResolves, AcceptedResolves
  <2>5. PendingHasRetry' /\ CopiesOwned' /\ ArchiveOwned' /\ SentStored' /\ NoForeignBody'
    BY <2>1 DEF TenantInv, PendingHasRetry, CopiesOwned, ArchiveOwned, SentStored, NoForeignBody
  <2> QED BY <2>2, <2>3, <2>4, <2>5 DEF TenantInv
<1>2. ASSUME NEW u \in User, NEW x \in Name, Save(u, x) \/ CreateCheck(u, x)
      PROVE  TenantInv'
  BY <1>2, SaveKeepsInv, CreateCheckKeepsInv
<1>3. ASSUME NEW c \in checked, CreateSave(c) PROVE TenantInv'
  BY <1>3, CreateSaveKeepsInv
<1>4. ASSUME NEW i \in Stored, Claim(i) PROVE TenantInv'
  BY <1>4, ClaimKeepsInv
<1>5. ASSUME NEW c \in InFlight, SendOk(c) \/ SendFails(c) PROVE TenantInv'
  BY <1>5, SendOkKeepsInv, SendFailsKeepsInv
<1> QED BY <1>1, <1>2, <1>3, <1>4, <1>5 DEF TenantNext

\* Initially there is nothing but the templates of the migrations.
LEMMA TenantInvInit ==
  ASSUME TenantInit
  PROVE  TenantInv
<1>1. /\ saves = 0 /\ checked = {} /\ rows = <<>> /\ dlq = <<>>
      /\ copies = EmptyBag /\ sent = {}
  BY DEF TenantInit
<1>2. Stored = {} /\ DOMAIN dlq = {}
  BY <1>1 DEF Stored
<1>3. InFlight = {}
  BY <1>1 DEF InFlight, BagToSet, EmptyBag, SetToBag
<1>4. rows \in [Stored -> Row]
  BY <1>1, <1>2
<1> DEFINE seed == [author |-> Global, version |-> 0]
<1>5. seed \in Body /\ seed.author = Global
  BY TenantAssumption DEF Body, Owner
<1>6. /\ templates = [o \in Owner |-> [x \in Name |->
                       IF o = Global /\ x \in Seeds THEN seed ELSE NoBody]]
  BY DEF TenantInit
<1> HIDE DEF seed
<1>7. templates \in [Owner -> [Name -> Body \cup {NoBody}]]
  BY <1>5, <1>6
<1>8. \A o \in Owner, x \in Name : Has(o, x) => o = Global /\ x \in Seeds /\ templates[o][x] = seed
  BY <1>6 DEF Has
<1>9. \A o \in Owner, x \in Name : Has(o, x) => Upper[x] = x
  BY <1>8, TenantAssumption
<1>10. OwnBodies
  BY <1>5, <1>8 DEF OwnBodies
<1>11. TenantType
  BY <1>1, <1>2, <1>3, <1>7, <1>9, TenantAssumption DEF TenantType
<1>12. CheckedResolves /\ AcceptedResolves /\ PendingHasRetry /\ CopiesOwned
  BY <1>1, <1>2, <1>3 DEF CheckedResolves, AcceptedResolves, PendingHasRetry, CopiesOwned
<1>13. ArchiveOwned /\ SentStored /\ NoForeignBody
  BY <1>1, <1>2 DEF ArchiveOwned, SentStored, NoForeignBody
<1> QED BY <1>4, <1>10, <1>11, <1>12, <1>13 DEF TenantInv

\* The inductive invariant holds in every reachable state.
LEMMA TenantsInvariant == TenantSpec => []TenantInv
<1>1. TenantInit => TenantInv
  BY TenantInvInit
<1>2. TenantInv /\ [TenantNext]_tenantVars => TenantInv'
  BY TenantInvStep
<1> QED BY <1>1, <1>2, PTL DEF TenantSpec

-----------------------------------------------------------------------------
(* Results                                                                 *)

\* Every reachable state is typed, with templates and the names notifications
\* refer to in upper case, although CreateNotification resolves the name as it
\* was typed.
THEOREM TenantsTyped == TenantSpec => []TenantType
<1>1. TenantInv => TenantType
  BY DEF TenantInv
<1> QED BY <1>1, TenantsInvariant, PTL

\* An accepted notification resolves at every attempt, whatever is saved
\* between the check of CreateNotification and the attempts.
THEOREM AcceptedAlwaysResolves == TenantSpec => []AcceptedResolves
<1>1. TenantInv => AcceptedResolves
  BY DEF TenantInv
<1> QED BY <1>1, TenantsInvariant, PTL

\* No provider is ever given a body written by a user other than the owner of
\* the notification's row.
THEOREM BodiesNeverForeign == TenantSpec => []NoForeignBody
<1>1. TenantInv => NoForeignBody
  BY DEF TenantInv
<1> QED BY <1>1, TenantsInvariant, PTL

\* Whoever finds an archived notification in dlq_notifications also finds its
\* row: the archive never widens who may see a notification.
THEOREM ArchiveNeverWidens == TenantSpec => []ArchiveKeepsOwner
<1>1. TenantInv => ArchiveKeepsOwner
  BY DEF TenantInv, TenantType, ArchiveOwned, ArchiveKeepsOwner, DeadFound, RowFound
<1> QED BY <1>1, TenantsInvariant, PTL

\* The DISTINCT ON query of GetAll lists for a user exactly the bodies that the
\* ORDER BY ... LIMIT 1 query of Get resolves.
LEMMA ListIsGet ==
  ASSUME NEW u \in User, NEW x \in Name
  PROVE  Get(x, u) = IF x \in DOMAIN GetAll(u) THEN GetAll(u)[x] ELSE NoBody
<1> DEFINE visible == {o \in Owner : o \in {u, Global}}
           P(o) == Has(o, x) /\ \A p \in visible : Has(p, x) => (o = Global => p = Global)
           first == CHOOSE o \in visible : P(o)
<1>1. visible = {u, Global} /\ u # Global
  BY TenantAssumption DEF Owner
<1>2. x \in DOMAIN GetAll(u) <=> Has(u, x) \/ Has(Global, x)
  BY <1>1 DEF GetAll
<1>3. x \in DOMAIN GetAll(u) => GetAll(u)[x] = templates[first][x]
  BY <1>1 DEF GetAll
<1>4. CASE Has(u, x)
  <2>1. P(u)
    BY <1>1, <1>4
  <2>2. ~P(Global)
    BY <1>1, <1>4
  <2> HIDE DEF P
  <2>3. first = u
    BY <1>1, <2>1, <2>2
  <2> QED BY <1>2, <1>3, <1>4, <2>3 DEF Get
<1>5. CASE ~Has(u, x) /\ Has(Global, x)
  <2>1. P(Global)
    BY <1>1, <1>5
  <2>2. ~P(u)
    BY <1>5
  <2> HIDE DEF P
  <2>3. first = Global
    BY <1>1, <2>1, <2>2
  <2> QED BY <1>2, <1>3, <1>5, <2>3 DEF Get
<1>6. CASE ~Has(u, x) /\ ~Has(Global, x)
  BY <1>2, <1>6 DEF Get, Has
<1> QED BY <1>4, <1>5, <1>6

\* GET /templates always shows a user what the senders would resolve.
THEOREM ListingIsResolution == TenantSpec => []ListedIsResolved
<1>1. ListedIsResolved
  BY ListIsGet DEF ListedIsResolved
<1> QED BY <1>1, PTL

\* A save changes what names mean to at most one user.
THEOREM SavesAreLocal == TenantSpec => SaveIsLocal
<1> DEFINE Local == \A u, v \in User, x, y \in Name :
                      u # v /\ Get(x, u)' # Get(x, u) => Get(y, v)' = Get(y, v)
<1>1. ASSUME TenantInv, [TenantNext]_tenantVars PROVE Local
  <2>1. CASE UNCHANGED templates
    BY <2>1, SameTemplates
  <2>2. CASE \E w \in User, z \in Name : Save(w, z)
    <3>1. PICK w \in User, z \in Name : Save(w, z)
      BY <2>2
    <3>2. \A o \in Owner : o # w => templates'[o] = templates[o]
      BY <3>1, <1>1 DEF Save, Put, TenantInv, TenantType
    <3>3. Global # w /\ Global \in Owner /\ User \subseteq Owner
      BY TenantAssumption DEF Owner
    <3>4. ASSUME NEW v \in User, NEW y \in Name, v # w PROVE Get(y, v)' = Get(y, v)
      BY <3>2, <3>3, <3>4 DEF Get, Has
    <3> QED BY <3>4
  <2>3. UNCHANGED templates \/ \E w \in User, z \in Name : Save(w, z)
    BY <1>1 DEF TenantNext, tenantVars, CreateCheck, CreateSave, Claim, SendOk, SendFails
  <2> QED BY <2>1, <2>2, <2>3
<1>2. TenantInv /\ [TenantNext]_tenantVars => [Local]_tenantVars
  BY <1>1
<1> QED BY <1>2, TenantsInvariant, PTL DEF TenantSpec, SaveIsLocal

=============================================================================
