---------------------------- MODULE AccessProofs ----------------------------
(***************************************************************************)
(* Who may enter, and what they may do there: the people of an             *)
(* organization with their memberships, invitations and permissions        *)
(* (Staff), and the sessions of everybody who signs in (Sessions).  The    *)
(* two keep nothing in common; each has its own specification.  However    *)
(* the requests on an organization's people follow each other or overlap,  *)
(* a principal remains, a permission that was revoked is not served from   *)
(* the cache and the counter of seats is right; and a session ends with    *)
(* what was to end it.                                                     *)
(***************************************************************************)
EXTENDS Staff, Sessions, FiniteSetTheorems, TLAPS

-----------------------------------------------------------------------------
(* Staff: types.                                                           *)

\* Who is in a row or an invitation, once it is used.
Named == /\ \A m \in Rows : row[m].status # "unused" => row[m].user \in People
         /\ \A i \in Links : link[i].status # "unused" => link[i].email \in People

\* What a request read is there: rows and invitations are never unused again.
AimedAt(q) ==
    /\ q.op \in {"invite", "create"} => q.on \in People
    /\ q.op \in {"accept", "revoke", "delete"} =>
          q.on \in Links /\ link[q.on].status # "unused"
    /\ q.op \in {"suspend", "reactivate", "remove", "demote"} =>
          q.on \in Rows /\ q.read \in Membership /\ q.read.status # "unused"
    /\ q.op = "transfer" =>
          /\ q.on \in Rows /\ row[q.on].status # "unused"
          /\ q.into # NoOne => /\ q.into \in Rows /\ q.read \in Membership
                               /\ q.read.status \in {"active", "suspended"}
          /\ q.out # NoOne => q.out \in Rows /\ row[q.out].status # "unused"

Types == TypeOK /\ Named /\ \A r \in Requests : AimedAt(request[r])

Stale == [seat: BOOLEAN, owner: BOOLEAN, count: BOOLEAN, role: BOOLEAN]

\* What a step may do to rows and invitations.
Lasting == /\ row' \in [Rows -> Membership] /\ link' \in [Links -> Invitation]
           /\ \A m \in Rows : row[m].status # "unused" => row'[m].status # "unused"
           /\ \A i \in Links : link[i].status # "unused" => link'[i].status # "unused"
           /\ Named'

LEMMA ConstantTypes ==
  /\ Seats \in Nat /\ MaxRows \in Nat /\ MaxLinks \in Nat /\ MaxRequests \in Nat
  /\ Founder \in People /\ IsFiniteSet(People) /\ NoOne \notin People /\ NoOne \notin Nat
  /\ Rows \subseteq Nat /\ Links \subseteq Nat
  BY StaffConstants DEF StaffConstants, Rows, Links

LEMMA IdleType == Idle \in Request /\ Idle.op = "none" /\ AimedAt(Idle)
  BY DEF Idle, Request, Operations, AimedAt

LEMMA AimsLast ==
  ASSUME Types, Lasting, NEW q, AimedAt(q)
  PROVE  AimedAt(q)'
  BY DEF AimedAt, Lasting

\* A step that ends a request, or none.
LEMMA EndsTyped ==
  ASSUME Types, Lasting, NEW r, request' = [request EXCEPT ![r] = Idle] \/ request' = request,
         users' \subseteq People, owner' \in People, staff_count' \in Nat,
         perms' \subseteq Codes, version' \in Nat,
         \A v \in DOMAIN cache' : v \in Nat /\ cache'[v] \subseteq Codes,
         begun' = begun, stale' \in Stale
  PROVE  Types'
  <1>1. request' \in [Requests -> Request]
    BY IdleType DEF Types, TypeOK
  <1>2. TypeOK'
    BY <1>1 DEF Types, TypeOK, Lasting, Stale
  <1>3. ASSUME NEW q \in Requests PROVE AimedAt(request[q])'
    <2>1. PICK old : old = request[q] /\ AimedAt(old)
      BY DEF Types
    <2>2. AimedAt(old)' /\ AimedAt(Idle)'
      BY <2>1, AimsLast, IdleType DEF AimedAt, Idle
    <2>3. request'[q] = old \/ request'[q] = Idle
      BY <2>1 DEF Types, TypeOK
    <2> QED BY <2>2, <2>3 DEF AimedAt
  <1> QED BY <1>2, <1>3 DEF Types, Lasting

LEMMA RowsUntouched ==
  ASSUME Types, UNCHANGED <<row, link>>
  PROVE  Lasting
  BY DEF Types, TypeOK, Named, Lasting

LEMMA LinksTouched ==
  ASSUME Types, row' = row, link' \in [Links -> Invitation],
         \A i \in Links : link[i].status # "unused" => link'[i].status # "unused",
         \A i \in Links : link'[i].status # "unused" => link'[i].email \in People
  PROVE  Lasting
  BY DEF Types, TypeOK, Named, Lasting

LEMMA RowsTouched ==
  ASSUME Types, row' \in [Rows -> Membership],
         \A i \in Links : link[i].status # "unused" => link'[i].status # "unused",
         link' \in [Links -> Invitation],
         \A i \in Links : link'[i].email = link[i].email,
         \A i \in Links : link[i].status = "unused" => link'[i].status = "unused",
         \A m \in Rows : row[m].status # "unused" => row'[m].status # "unused",
         \A m \in Rows : row'[m].status # "unused" => row'[m].user \in People
  PROVE  Lasting
  BY DEF Types, TypeOK, Named, Lasting

\* A flush writes one row, of one that is there, and never its user.
FlushOf(m, read, new) == [c \in {"user", "level", "principal", "status"} |->
                             IF new[c] = read[c] THEN row[m][c] ELSE new[c]]

LEMMA FlushedValue ==
  ASSUME Types, NEW m \in Rows, Live(m), NEW read \in Membership, NEW new \in Membership,
         new.user = read.user, new.status # "unused"
  PROVE  /\ Flush(m, read, new) = [row EXCEPT ![m] = FlushOf(m, read, new)]
         /\ FlushOf(m, read, new) \in Membership
         /\ FlushOf(m, read, new).user = row[m].user
         /\ FlushOf(m, read, new).status # "unused"
  <1>1. row[m] \in Membership /\ DOMAIN row[m] = {"user", "level", "principal", "status"}
    BY DEF Types, TypeOK, Membership
  <1>2. FlushOf(m, read, new) \in Membership /\ FlushOf(m, read, new).user = row[m].user
    BY <1>1 DEF Membership, FlushOf
  <1>3. FlushOf(m, read, new).status # "unused"
    BY <1>1 DEF FlushOf, Live
  <1>4. Flush(m, read, new) = [row EXCEPT ![m] = FlushOf(m, read, new)]
    BY <1>1 DEF Flush, FlushOf
  <1> QED BY <1>2, <1>3, <1>4

LEMMA FlushedRow ==
  ASSUME Types, NEW m \in Rows, NEW read \in Membership, NEW new \in Membership,
         new.user = read.user, new.status # "unused"
  PROVE  /\ Flush(m, read, new) \in [Rows -> Membership]
         /\ \A n \in Rows :
               /\ Flush(m, read, new)[n].user = row[n].user
               /\ row[n].status # "unused" <=> Flush(m, read, new)[n].status # "unused"
               /\ n # m => Flush(m, read, new)[n] = row[n]
  <1>0. PICK next : next = Flush(m, read, new)
    OBVIOUS
  <1>1. row \in [Rows -> Membership]
    BY DEF Types, TypeOK
  <1>2. CASE ~Live(m)
    <2>1. next = row
      BY <1>0, <1>2 DEF Flush
    <2> QED BY <1>0, <1>1, <2>1
  <1>3. CASE Live(m)
    <2>1. PICK value \in Membership : /\ next = [row EXCEPT ![m] = value]
                                      /\ value.user = row[m].user
                                      /\ value.status # "unused" /\ row[m].status # "unused"
      BY <1>0, <1>3, FlushedValue DEF Live
    <2> QED BY <1>0, <1>1, <2>1
  <1> QED BY <1>2, <1>3

LEMMA AddedRow ==
  ASSUME Types, Room, NEW p \in People, NEW level \in {"organization", "campus"}
  PROVE  \E new \in Rows :
            /\ row[new].status = "unused"
            /\ Added(p, level) = [row EXCEPT ![new] =
                  [user |-> p, level |-> level, principal |-> level = "organization",
                   status |-> "active"]]
            /\ Added(p, level) \in [Rows -> Membership]
  <1>1. PICK new \in Rows : /\ new = CHOOSE m \in Rows : row[m].status = "unused"
                            /\ row[new].status = "unused"
    BY DEF Room
  <1>2. [user |-> p, level |-> level, principal |-> level = "organization",
         status |-> "active"] \in Membership
    BY DEF Membership
  <1> QED BY <1>1, <1>2 DEF Added, Types, TypeOK

LEMMA OverdueFinite == IsFiniteSet(Overdue) /\ Cardinality(Overdue) \in Nat
  <1>1. IsFiniteSet(Links) /\ Overdue \subseteq Links
    BY ConstantTypes, FS_Interval DEF Links, Overdue
  <1> QED BY <1>1, FS_Subset, FS_CardinalityType

LEMMA ReleasedType == ASSUME Types, NEW n \in Nat PROVE Released(n) \in Nat
  BY DEF Released, Types, TypeOK

LEMMA SweptType ==
  ASSUME Types
  PROVE  /\ Swept \in [Links -> Invitation]
         /\ \A i \in Links : /\ Swept[i].email = link[i].email
                             /\ Swept[i].status # "unused" <=> link[i].status # "unused"
  BY DEF Swept, Types, TypeOK, Invitation

-----------------------------------------------------------------------------
(* Types, request by request.                                              *)

LEMMA InitTypes == ASSUME Init PROVE Types
  <1>1. PICK hired \in SUBSET (People \ {Founder}) :
           /\ Cardinality(hired) < MaxRows
           /\ \E at \in [hired -> 2..(Cardinality(hired) + 1)] :
                 row = [m \in Rows |->
                       IF m = 1 THEN [user |-> Founder, level |-> "organization",
                                      principal |-> TRUE, status |-> "active"]
                       ELSE IF m \in {at[p] : p \in hired}
                       THEN [user |-> CHOOSE p \in hired : at[p] = m, level |-> "campus",
                             principal |-> FALSE, status |-> "active"]
                       ELSE Unused]
           /\ users = hired \cup {Founder}
           /\ staff_count = Cardinality(hired)
    BY DEF Init
  <1>2. Cardinality(hired) \in Nat
    BY ConstantTypes, FS_Subset, FS_CardinalityType
  <1>3. PICK at \in [hired -> 2..(Cardinality(hired) + 1)] : row = [m \in Rows |->
                       IF m = 1 THEN [user |-> Founder, level |-> "organization",
                                      principal |-> TRUE, status |-> "active"]
                       ELSE IF m \in {at[p] : p \in hired}
                       THEN [user |-> CHOOSE p \in hired : at[p] = m, level |-> "campus",
                             principal |-> FALSE, status |-> "active"]
                       ELSE Unused]
    BY <1>1
  <1>4. ASSUME NEW m \in Rows
        PROVE  row[m] \in Membership /\ (row[m].status # "unused" => row[m].user \in People)
    <2>1. CASE m = 1
      BY <2>1, <1>3, ConstantTypes DEF Membership
    <2>2. CASE m # 1 /\ m \in {at[p] : p \in hired}
      <3>1. PICK p \in hired : p = CHOOSE x \in hired : at[x] = m
        BY <2>2
      <3>2. row[m] = [user |-> p, level |-> "campus", principal |-> FALSE, status |-> "active"]
        BY <2>2, <3>1, <1>3
      <3> QED BY <3>2 DEF Membership
    <2>3. CASE m # 1 /\ m \notin {at[p] : p \in hired}
      BY <2>3, <1>3 DEF Membership, Unused
    <2> QED BY <2>1, <2>2, <2>3
  <1>5. row \in [Rows -> Membership]
    <2>1. row = [m \in Rows |-> row[m]]
      BY <1>3
    <2> QED BY <1>4, <2>1
  <1>6. Unsent \in Invitation /\ Unsent.status = "unused"
    BY DEF Unsent, Invitation
  <1>7. /\ link = [i \in Links |-> Unsent] /\ owner = Founder /\ perms = Codes /\ version = 1
        /\ cache = [v \in {} |-> {}] /\ request = [r \in Requests |-> Idle] /\ begun = 0
        /\ stale = [seat |-> FALSE, owner |-> FALSE, count |-> FALSE, role |-> FALSE]
    BY DEF Init
  <1>8. TypeOK
    <2>1. link \in [Links -> Invitation] /\ request \in [Requests -> Request]
      BY <1>6, <1>7, IdleType
    <2>2. stale \in [seat: BOOLEAN, owner: BOOLEAN, count: BOOLEAN, role: BOOLEAN]
      BY <1>7
    <2>3. \A v \in DOMAIN cache : v \in Nat /\ cache[v] \subseteq Codes
      BY <1>7
    <2>4. users \subseteq People /\ owner \in People /\ staff_count \in Nat
      BY <1>1, <1>2, <1>7, ConstantTypes
    <2>5. perms \subseteq Codes /\ version \in Nat /\ begun \in 0..MaxRequests
      BY <1>7, ConstantTypes
    <2> QED BY <1>5, <2>1, <2>2, <2>3, <2>4, <2>5 DEF TypeOK
  <1>9. Named
    BY <1>4, <1>6, <1>7 DEF Named
  <1> QED BY <1>7, <1>8, <1>9, IdleType DEF Types

LEMMA BeginsTyped ==
  ASSUME Types, NEW r \in Requests, NEW new \in Request, Begins(r, new), AimedAt(new)
  PROVE  Types'
  <1>1. /\ request' = [request EXCEPT ![r] = new]
        /\ UNCHANGED <<row, link, users, owner, staff_count, perms, version, cache, stale>>
        /\ begun' = begun + 1 /\ begun < MaxRequests
    BY DEF Begins
  <1>2. begun' \in 0..MaxRequests
    BY <1>1, ConstantTypes DEF Types, TypeOK
  <1>3. TypeOK'
    BY <1>1, <1>2 DEF Types, TypeOK
  <1>4. Named'
    BY <1>1 DEF Types, Named
  <1>5. ASSUME NEW q \in Requests PROVE AimedAt(request[q])'
    <2>1. request'[q] = new \/ request'[q] = request[q]
      BY <1>1 DEF Types, TypeOK
    <2>2. AimedAt(request[q])
      BY DEF Types
    <2> QED BY <1>1, <2>1, <2>2 DEF AimedAt
  <1> QED BY <1>3, <1>4, <1>5 DEF Types

LEMMA AboutType ==
  ASSUME NEW op \in Operations, NEW x \in People \cup Nat \cup {NoOne}
  PROVE  /\ About(op, x) \in Request
         /\ About(op, x).op = op /\ About(op, x).on = x
         /\ About(op, x).out = NoOne /\ About(op, x).into = NoOne
  BY DEF About, Idle, Request

LEMMA BeginsWithPersonTyped ==
  ASSUME Types, NEW r \in Requests, NEW p \in People, BeginsWithPerson(r, p)
  PROVE  Types'
  <1>1. ASSUME NEW op \in {"invite", "create"}
        PROVE  About(op, p) \in Request /\ AimedAt(About(op, p))
    <2>1. op \in Operations
      BY DEF Operations
    <2> QED BY <2>1, AboutType DEF AimedAt
  <1> QED BY <1>1, BeginsTyped DEF BeginsWithPerson

LEMMA BeginsWithLinkTyped ==
  ASSUME Types, NEW r \in Requests, NEW i \in Links, BeginsWithLink(r, i)
  PROVE  Types'
  <1>1. link[i].status # "unused"
    BY DEF BeginsWithLink, MayAccept, MayRevoke, MayDelete, Pending
  <1>2. ASSUME NEW op \in {"accept", "revoke", "delete"}
        PROVE  About(op, i) \in Request /\ AimedAt(About(op, i))
    <2>1. op \in Operations /\ i \in Nat
      BY ConstantTypes DEF Operations
    <2> QED BY <1>1, <2>1, AboutType DEF AimedAt
  <1>3. ASSUME Begins(r, [About("delete", i) EXCEPT !.held = i \in Pending])
        PROVE  Types'
    <2>1. PICK base \in Request : base = About("delete", i) /\ AimedAt(base)
      BY <1>2
    <2>2. PICK held \in BOOLEAN : held = (i \in Pending)
      <3>1. (i \in Pending) \in BOOLEAN
        OBVIOUS
      <3> QED BY <3>1
    <2>3. PICK new : new = [base EXCEPT !.held = held]
      OBVIOUS
    <2>4. /\ new.op = base.op /\ new.on = base.on /\ new.read = base.read
          /\ new.out = base.out /\ new.into = base.into /\ new \in Request
      BY <2>1, <2>3 DEF Request
    <2>5. AimedAt(new)
      BY <2>1, <2>4 DEF AimedAt
    <2>6. Begins(r, new)
      BY <1>3, <2>1, <2>2, <2>3
    <2> QED BY <2>4, <2>5, <2>6, BeginsTyped
  <1> QED BY <1>2, <1>3, BeginsTyped DEF BeginsWithLink

LEMMA BeginsWithMemberTyped ==
  ASSUME Types, NEW r \in Requests, NEW m \in Rows, BeginsWithMember(r, m)
  PROVE  Types'
  <1>0. row[m] \in Membership /\ m \in Nat
    BY ConstantTypes DEF Types, TypeOK
  <1>1. ASSUME NEW op \in {"remove", "demote", "suspend", "reactivate"},
               Begins(r, OfMember(op, m)), row[m].status # "unused"
        PROVE  Types'
    <2>1. op \in Operations
      BY DEF Operations
    <2>2. OfMember(op, m) \in Request
      BY <1>0, <2>1, AboutType DEF OfMember, Request
    <2>3. AimedAt(OfMember(op, m))
      BY <1>0, <1>1, <2>1, AboutType DEF OfMember, AimedAt, Request
    <2> QED BY <1>1, <2>2, <2>3, BeginsTyped
  <1>2. ASSUME NEW into, into = OneOf(Of(row[m].user, "organization")), MayTransfer(m),
               Begins(r, [About("transfer", m) EXCEPT
                             !.read = IF into = NoOne THEN NoOne ELSE row[into],
                             !.out = OneOf(Of(owner, "organization")),
                             !.into = into])
        PROVE  Types'
    <2>1. \A p : OneOf(Of(p, "organization")) \in {x \in Rows : Live(x)} \cup {NoOne}
      BY DEF OneOf, Of
    <2>2. PICK out : out = OneOf(Of(owner, "organization"))
      OBVIOUS
    <2>3. PICK read : read = IF into = NoOne THEN NoOne ELSE row[into]
      OBVIOUS
    <2>4. /\ out # NoOne => out \in Rows /\ row[out].status # "unused"
          /\ into # NoOne => /\ into \in Rows /\ read \in Membership
                             /\ read.status \in {"active", "suspended"}
          /\ read \in Membership \cup {NoOne}
      BY <1>2, <2>1, <2>2, <2>3 DEF Live, Types, TypeOK
    <2>5. PICK base \in Request : /\ base = About("transfer", m)
                                  /\ base.op = "transfer" /\ base.on = m
      BY <1>0, AboutType DEF Operations
    <2>6. PICK new : new = [base EXCEPT !.read = read, !.out = out, !.into = into]
      OBVIOUS
    <2>7. /\ new.op = "transfer" /\ new.on = m /\ new.out = out /\ new.into = into
          /\ new.read = read
      BY <2>5, <2>6 DEF Request
    <2>8. new \in Request
      BY <2>4, <2>5, <2>6 DEF Request
    <2>9. AimedAt(new)
      BY <1>2, <2>4, <2>7 DEF AimedAt, MayTransfer
    <2>10. Begins(r, new)
      BY <1>2, <2>2, <2>3, <2>5, <2>6
    <2> QED BY <2>8, <2>9, <2>10, BeginsTyped
  <1>3. MayTake(m) => row[m].status # "unused"
    BY DEF MayTake, Live
  <1> QED BY <1>1, <1>2, <1>3 DEF BeginsWithMember

LEMMA BeginsWithRoleTyped ==
  ASSUME Types, NEW r \in Requests, BeginsWithRole(r)
  PROVE  Types'
  <1>1. ASSUME NEW codes \in SUBSET Codes,
               Begins(r, [Idle EXCEPT !.op = "edit", !.pv = version, !.codes = codes])
        PROVE  Types'
    <2> DEFINE new == [Idle EXCEPT !.op = "edit", !.pv = version, !.codes = codes]
    <2>1. new \in Request /\ new.op = "edit"
      BY DEF Idle, Request, Operations, Types, TypeOK
    <2>2. AimedAt(new)
      BY <2>1 DEF AimedAt
    <2> QED BY <1>1, <2>1, <2>2, BeginsTyped
  <1>2. ASSUME Begins(r, [Idle EXCEPT !.op = "resolve", !.pv = version])
        PROVE  Types'
    <2> DEFINE new == [Idle EXCEPT !.op = "resolve", !.pv = version]
    <2>1. new \in Request /\ new.op = "resolve"
      BY DEF Idle, Request, Operations, Types, TypeOK
    <2>2. AimedAt(new)
      BY <2>1 DEF AimedAt
    <2> QED BY <1>2, <2>1, <2>2, BeginsTyped
  <1> QED BY <1>1, <1>2 DEF BeginsWithRole

\* What a request that commits writes besides rows and invitations, mostly.
LEMMA InvitesTyped == ASSUME Types, NEW r \in Requests, Invites(r) PROVE Types'
  <1>1. request[r].on \in People
    BY DEF Types, AimedAt, Invites
  <1>2. PICK first \in Links : link' = [Swept EXCEPT ![first] =
                                           [email |-> request[r].on, status |-> "pending"]]
    BY DEF Invites
  <1>3. [email |-> request[r].on, status |-> "pending"] \in Invitation
    BY <1>1 DEF Invitation
  <1>4. /\ link' \in [Links -> Invitation]
        /\ \A i \in Links : link'[i] = IF i = first
                                       THEN [email |-> request[r].on, status |-> "pending"]
                                       ELSE Swept[i]
    BY <1>2, <1>3, SweptType
  <1>5. \A i \in Links :
           /\ link[i].status # "unused" => link'[i].status # "unused"
           /\ link'[i].status # "unused" => link'[i].email \in People
    BY <1>1, <1>4, SweptType DEF Types, Named
  <1>6. Lasting
    BY <1>4, <1>5, LinksTouched DEF Invites
  <1>7. staff_count' \in Nat
    BY OverdueFinite, ReleasedType DEF Invites
  <1> QED BY <1>6, <1>7, EndsTyped DEF Invites, Finished, Types, TypeOK, Stale

LEMMA AddedTyped ==
  ASSUME Types, Room, NEW p \in People, NEW level \in {"organization", "campus"},
         row' = Added(p, level),
         \/ link' = link
         \/ \E i \in Links : link[i].status # "unused"
                             /\ link' = [link EXCEPT ![i].status = "accepted"]
  PROVE  Lasting
  <1>1. PICK new \in Rows :
            /\ row[new].status = "unused"
            /\ Added(p, level) = [row EXCEPT ![new] =
                  [user |-> p, level |-> level, principal |-> level = "organization",
                   status |-> "active"]]
            /\ Added(p, level) \in [Rows -> Membership]
    BY AddedRow
  <1>2. /\ row'[new].status = "active" /\ row'[new].user = p
        /\ \A m \in Rows \ {new} : row'[m] = row[m]
    BY <1>1 DEF Types, TypeOK
  <1>3. /\ link' \in [Links -> Invitation]
        /\ \A i \in Links : link'[i].email = link[i].email
        /\ \A i \in Links : link[i].status # "unused" <=> link'[i].status # "unused"
    BY DEF Types, TypeOK, Invitation
  <1> QED BY <1>1, <1>2, <1>3, RowsTouched DEF Types, Named

LEMMA AcceptsTyped == ASSUME Types, NEW r \in Requests, Accepts(r) PROVE Types'
  <1>1. PICK i \in Links : i = request[r].on /\ link[i].status # "unused"
    BY DEF Types, AimedAt, Accepts
  <1>2. link[i].email \in People
    BY <1>1 DEF Types, Named
  <1>3. Lasting
    BY <1>1, <1>2, AddedTyped DEF Accepts
  <1>4. stale' \in Stale
    BY DEF Accepts, Types, TypeOK, Stale
  <1> QED BY <1>1, <1>2, <1>3, <1>4, EndsTyped DEF Accepts, Finished, Types, TypeOK

LEMMA RestatusTyped ==
  ASSUME Types, row' = row, NEW i \in Links, link[i].status # "unused",
         NEW to \in {"pending", "overdue", "accepted", "revoked", "expired", "gone"},
         link' = [link EXCEPT ![i].status = to]
  PROVE  Lasting
  <1>1. /\ link' \in [Links -> Invitation]
        /\ \A j \in Links : link'[j].email = link[j].email
        /\ \A j \in Links : link[j].status # "unused" <=> link'[j].status # "unused"
    BY DEF Types, TypeOK, Invitation
  <1> QED BY <1>1, LinksTouched DEF Types, Named

LEMMA RevokesTyped == ASSUME Types, NEW r \in Requests, Revokes(r) PROVE Types'
  <1>1. PICK i \in Links : i = request[r].on /\ link[i].status # "unused"
    BY DEF Types, AimedAt, Revokes
  <1>2. Lasting
    BY <1>1, RestatusTyped DEF Revokes
  <1>3. stale' \in Stale
    BY DEF Revokes, Types, TypeOK, Stale
  <1>4. staff_count' \in Nat
    BY ReleasedType DEF Revokes
  <1> QED BY <1>2, <1>3, <1>4, EndsTyped DEF Revokes, Finished, Types, TypeOK

LEMMA DeletesTyped == ASSUME Types, NEW r \in Requests, Deletes(r) PROVE Types'
  <1>1. PICK i \in Links : i = request[r].on /\ link[i].status # "unused"
    BY DEF Types, AimedAt, Deletes
  <1>2. Lasting
    BY <1>1, RestatusTyped DEF Deletes
  <1>3. stale' \in Stale
    BY DEF Deletes, Types, TypeOK, Stale
  <1>4. staff_count' \in Nat
    BY ReleasedType DEF Deletes, SeatOfDeleted, Types, TypeOK
  <1> QED BY <1>2, <1>3, <1>4, EndsTyped DEF Deletes, Finished, Types, TypeOK

LEMMA CreatesTyped == ASSUME Types, NEW r \in Requests, Creates(r) PROVE Types'
  <1>1. request[r].on \in People
    BY DEF Types, AimedAt, Creates
  <1>2. Lasting
    BY <1>1, AddedTyped DEF Creates
  <1>3. staff_count' \in Nat
    BY DEF Creates, Types, TypeOK
  <1> QED BY <1>1, <1>2, <1>3, EndsTyped DEF Creates, Finished, Types, TypeOK, Stale

\* A flush of one row.
LEMMA FlushTyped ==
  ASSUME Types, NEW m \in Rows, NEW read \in Membership, NEW new \in Membership,
         new.user = read.user, new.status # "unused",
         row' = Flush(m, read, new), link' = link
  PROVE  Lasting
  <1>1. PICK next : next = Flush(m, read, new)
    OBVIOUS
  <1>2. /\ next \in [Rows -> Membership]
        /\ \A n \in Rows : next[n].user = row[n].user
        /\ \A n \in Rows : row[n].status # "unused" <=> next[n].status # "unused"
    BY <1>1, FlushedRow
  <1> QED BY <1>1, <1>2, RowsTouched DEF Types, TypeOK, Named

LEMMA TakenType ==
  ASSUME NEW op \in {"remove", "demote", "suspend"}, NEW read \in Membership,
         read.status # "unused"
  PROVE  /\ Taken(op, read) \in Membership /\ Taken(op, read).user = read.user
         /\ Taken(op, read).status # "unused"
  BY DEF Taken, Membership

LEMMA TakesTyped == ASSUME Types, NEW r \in Requests, Takes(r) PROVE Types'
  <1>1. PICK m \in Rows : /\ m = request[r].on
                          /\ request[r].read \in Membership /\ request[r].read.status # "unused"
                          /\ request[r].op \in {"remove", "demote", "suspend"}
    BY DEF Types, AimedAt, Takes
  <1>2. Lasting
    BY <1>1, TakenType, FlushTyped DEF Takes
  <1>3. stale' \in Stale
    <2>1. PICK seat \in BOOLEAN, count \in BOOLEAN :
             stale' = [stale EXCEPT !.seat = seat, !.count = count]
      BY DEF Takes, Types, TypeOK
    <2> QED BY <2>1 DEF Types, TypeOK, Stale
  <1>4. staff_count' \in Nat
    BY ReleasedType DEF Takes, Types, TypeOK
  <1> QED BY <1>2, <1>3, <1>4, EndsTyped DEF Takes, Finished, Types, TypeOK

LEMMA ReactivatesTyped == ASSUME Types, NEW r \in Requests, Reactivates(r) PROVE Types'
  <1>1. PICK m \in Rows : /\ m = request[r].on /\ request[r].read \in Membership
    BY DEF Types, AimedAt, Reactivates
  <1>2. [request[r].read EXCEPT !.status = "active"] \in Membership
        /\ [request[r].read EXCEPT !.status = "active"].user = request[r].read.user
        /\ [request[r].read EXCEPT !.status = "active"].status = "active"
    BY <1>1 DEF Membership
  <1>3. Lasting
    BY <1>1, <1>2, FlushTyped DEF Reactivates
  <1> QED BY <1>3, EndsTyped DEF Reactivates, Finished, Types, TypeOK, Stale

LEMMA EditsTyped == ASSUME Types, NEW r \in Requests, Edits(r) PROVE Types'
  <1>1. request[r] \in Request
    BY DEF Types, TypeOK
  <1>2. perms' \subseteq Codes /\ version' \in Nat
    BY <1>1 DEF Edits, NextVersion, Request, Types, TypeOK
  <1>3. \A v \in DOMAIN cache' : v \in Nat /\ cache'[v] \subseteq Codes
    BY DEF Edits, Types, TypeOK
  <1>4. stale' \in Stale
    BY DEF Edits, Types, TypeOK, Stale
  <1>5. Lasting
    BY RowsUntouched DEF Edits
  <1> QED BY <1>2, <1>3, <1>4, <1>5, EndsTyped DEF Edits, Finished, Types, TypeOK

LEMMA LoadsTyped == ASSUME Types, NEW r \in Requests, Loads(r) PROVE Types'
  <1>1. CASE request[r].pv \in DOMAIN cache
    BY <1>1, RowsUntouched, EndsTyped DEF Loads, Finished, Types, TypeOK, Stale
  <1>2. CASE request[r].pv \notin DOMAIN cache
    <2>1. PICK new : /\ new = [request[r] EXCEPT !.op = "store", !.codes = perms]
                     /\ request' = [request EXCEPT ![r] = new]
      BY <1>2 DEF Loads, Types, TypeOK
    <2>2. new \in Request /\ new.op = "store"
      BY <2>1 DEF Types, TypeOK, Request, Operations
    <2>3. TypeOK'
      BY <2>1, <2>2 DEF Loads, Types, TypeOK
    <2>4. Named'
      BY DEF Loads, Types, Named
    <2>5. ASSUME NEW q \in Requests PROVE AimedAt(request[q])'
      <3>1. request'[q] = new \/ request'[q] = request[q]
        BY <2>1 DEF Types, TypeOK
      <3>2. AimedAt(request[q])
        BY DEF Types
      <3> QED BY <2>2, <3>1, <3>2 DEF AimedAt, Loads
    <2> QED BY <2>3, <2>4, <2>5 DEF Types
  <1> QED BY <1>1, <1>2

LEMMA StoresTyped == ASSUME Types, NEW r \in Requests, Stores(r) PROVE Types'
  <1>1. request[r].pv \in Nat /\ request[r].codes \subseteq Codes
    BY DEF Types, TypeOK, Request
  <1>2. \A v \in DOMAIN cache' : v \in Nat /\ cache'[v] \subseteq Codes
    BY <1>1 DEF Stores, Types, TypeOK
  <1> QED BY <1>2, RowsUntouched, EndsTyped DEF Stores, Finished, Types, TypeOK, Stale

LEMMA LeftAloneTyped ==
  ASSUME Types, Lasting, request' = request \/ (\E r \in Requests : Finished(r)),
         staff_count' \in Nat,
         \A v \in DOMAIN cache' : v \in Nat /\ cache'[v] \subseteq Codes,
         UNCHANGED <<users, owner, perms, version, begun, stale>>
  PROVE  Types'
  BY EndsTyped DEF Finished, Types, TypeOK, Stale

LEMMA OthersTyped ==
  ASSUME Types,
         \/ \E r \in Requests : Fails(r)
         \/ \E i \in Links : Lapses(i)
         \/ Sweeps
         \/ \E v \in DOMAIN cache : Evicts(v)
         \/ UNCHANGED vars
  PROVE  Types'
  <1>1. ASSUME NEW r \in Requests, Fails(r) PROVE Types'
    BY <1>1, RowsUntouched, LeftAloneTyped DEF Fails, Types, TypeOK
  <1>2. ASSUME NEW i \in Links, Lapses(i) PROVE Types'
    <2>1. Lasting
      BY <1>2, RestatusTyped DEF Lapses
    <2> QED BY <1>2, <2>1, LeftAloneTyped DEF Lapses, Types, TypeOK
  <1>3. ASSUME Sweeps PROVE Types'
    <2>1. Lasting
      BY <1>3, SweptType, LinksTouched DEF Sweeps, Types, Named
    <2>2. staff_count' \in Nat
      BY <1>3, OverdueFinite, ReleasedType DEF Sweeps
    <2> QED BY <1>3, <2>1, <2>2, LeftAloneTyped DEF Sweeps, Types, TypeOK
  <1>4. ASSUME NEW v \in DOMAIN cache, Evicts(v) PROVE Types'
    BY <1>4, RowsUntouched, LeftAloneTyped DEF Evicts, Types, TypeOK
  <1>5. CASE UNCHANGED vars
    BY <1>5, RowsUntouched, LeftAloneTyped DEF vars, Types, TypeOK
  <1> QED BY <1>1, <1>2, <1>3, <1>4, <1>5

\* A transfer promotes one row and may remove another.
LEMMA TransferredRows ==
  ASSUME Types, NEW r \in Requests, Transfers(r)
  PROVE  \E promoted \in [Rows -> Membership] :
            /\ \/ /\ request[r].into = NoOne
                  /\ promoted = Added(row[request[r].on].user, "organization")
               \/ /\ request[r].into \in Rows
                  /\ promoted = Flush(request[r].into, request[r].read,
                                      [request[r].read EXCEPT !.principal = TRUE,
                                                              !.status = "active"])
            /\ \A m \in Rows : /\ row[m].status # "unused" => promoted[m].status # "unused"
                               /\ promoted[m].status # "unused" => promoted[m].user \in People
            /\ row' = IF request[r].out \in {NoOne, request[r].into} THEN promoted
                      ELSE [promoted EXCEPT ![request[r].out].status = "removed"]
  <1> DEFINE q == request[r]
  <1>1. /\ q.on \in Rows /\ row[q.on].status # "unused"
        /\ q.into # NoOne => /\ q.into \in Rows /\ q.read \in Membership
                             /\ q.read.status \in {"active", "suspended"}
        /\ row[q.on].user \in People
    BY DEF Types, AimedAt, Transfers, Named
  <1>2. CASE q.into = NoOne
    <2>1. Room
      BY <1>2 DEF Transfers
    <2>2. PICK new \in Rows :
             /\ row[new].status = "unused"
             /\ Added(row[q.on].user, "organization") = [row EXCEPT ![new] =
                   [user |-> row[q.on].user, level |-> "organization",
                    principal |-> "organization" = "organization", status |-> "active"]]
             /\ Added(row[q.on].user, "organization") \in [Rows -> Membership]
      BY <1>1, <2>1, AddedRow
    <2>3. PICK promoted \in [Rows -> Membership] :
             promoted = Added(row[q.on].user, "organization")
      BY <2>2
    <2>4. /\ promoted[new].status = "active" /\ promoted[new].user = row[q.on].user
          /\ \A m \in Rows \ {new} : promoted[m] = row[m]
      BY <2>2, <2>3 DEF Types, TypeOK
    <2>5. \A m \in Rows : /\ row[m].status # "unused" => promoted[m].status # "unused"
                          /\ promoted[m].status # "unused" => promoted[m].user \in People
      BY <1>1, <2>4 DEF Types, Named
    <2>6. row' = IF q.out \in {NoOne, q.into} THEN promoted
                 ELSE [promoted EXCEPT ![q.out].status = "removed"]
      BY <1>2, <2>3 DEF Transfers
    <2> QED BY <1>2, <2>3, <2>5, <2>6
  <1>3. CASE q.into # NoOne
    <2>0. PICK read \in Membership, into \in Rows : read = q.read /\ into = q.into
      BY <1>1, <1>3
    <2>1. PICK new \in Membership :
             /\ new = [read EXCEPT !.principal = TRUE, !.status = "active"]
             /\ new.user = read.user /\ new.status # "unused"
      <3>1. /\ [read EXCEPT !.principal = TRUE, !.status = "active"] \in Membership
            /\ [read EXCEPT !.principal = TRUE, !.status = "active"].user = read.user
            /\ [read EXCEPT !.principal = TRUE, !.status = "active"].status = "active"
        BY DEF Membership
      <3> QED BY <3>1
    <2>2. PICK promoted : promoted = Flush(into, read, new)
      OBVIOUS
    <2>3. /\ promoted \in [Rows -> Membership]
          /\ \A n \in Rows : promoted[n].user = row[n].user
          /\ \A n \in Rows : row[n].status # "unused" <=> promoted[n].status # "unused"
      <3>1. /\ Flush(into, read, new) \in [Rows -> Membership]
            /\ \A n \in Rows :
                  /\ Flush(into, read, new)[n].user = row[n].user
                  /\ row[n].status # "unused"
                     <=> Flush(into, read, new)[n].status # "unused"
        <4>1. new.user = read.user /\ new.status # "unused"
          BY <2>1
        <4>2. new \in Membership /\ read \in Membership /\ into \in Rows
          BY <2>0, <2>1
        <4> QED BY <4>1, <4>2, FlushedRow
      <3> QED BY <2>2, <3>1
    <2>4. row' = IF q.out \in {NoOne, q.into} THEN promoted
                 ELSE [promoted EXCEPT ![q.out].status = "removed"]
      BY <1>3, <2>0, <2>1, <2>2 DEF Transfers
    <2>5. \A m \in Rows : promoted[m].status # "unused" => promoted[m].user \in People
      BY <2>3 DEF Types, Named
    <2> QED BY <1>1, <1>3, <2>0, <2>1, <2>2, <2>3, <2>4, <2>5
  <1> QED BY <1>2, <1>3

LEMMA TransfersTyped == ASSUME Types, NEW r \in Requests, Transfers(r) PROVE Types'
  <1>1. PICK promoted \in [Rows -> Membership] :
            /\ \A m \in Rows : /\ row[m].status # "unused" => promoted[m].status # "unused"
                               /\ promoted[m].status # "unused" => promoted[m].user \in People
            /\ row' = IF request[r].out \in {NoOne, request[r].into} THEN promoted
                      ELSE [promoted EXCEPT ![request[r].out].status = "removed"]
    BY TransferredRows
  <1>2. request[r].out # NoOne => request[r].out \in Rows /\ row[request[r].out].status # "unused"
    BY DEF Types, AimedAt, Transfers
  <1>3. row' \in [Rows -> Membership]
        /\ \A m \in Rows : /\ row[m].status # "unused" => row'[m].status # "unused"
                           /\ row'[m].status # "unused" => row'[m].user \in People
    <2>1. CASE request[r].out \in {NoOne, request[r].into}
      BY <1>1, <2>1
    <2>2. CASE request[r].out \notin {NoOne, request[r].into}
      <3>1. PICK out \in Rows : out = request[r].out /\ row[out].status # "unused"
        BY <1>2, <2>2
      <3>2. row' = [promoted EXCEPT ![out].status = "removed"]
        BY <1>1, <2>2, <3>1
      <3>3. [promoted[out] EXCEPT !.status = "removed"] \in Membership
            /\ [promoted[out] EXCEPT !.status = "removed"].user = promoted[out].user
            /\ [promoted[out] EXCEPT !.status = "removed"].status = "removed"
        BY DEF Membership
      <3> QED BY <1>1, <3>1, <3>2, <3>3
    <2> QED BY <2>1, <2>2
  <1>4. Lasting
    BY <1>3, RowsTouched DEF Transfers, Types, TypeOK
  <1>5. owner' \in People
    BY DEF Transfers, Types, AimedAt, Named
  <1>6. stale' \in Stale
    <2>1. PICK o \in BOOLEAN, c \in BOOLEAN :
             stale' = [stale EXCEPT !.owner = o, !.count = c]
      BY DEF Transfers, Types, TypeOK
    <2> QED BY <2>1 DEF Types, TypeOK, Stale
  <1> QED BY <1>4, <1>5, <1>6, EndsTyped DEF Transfers, Finished, Types, TypeOK

LEMMA TypesStep == ASSUME Types, [Next]_vars PROVE Types'
  BY BeginsWithPersonTyped, BeginsWithLinkTyped, BeginsWithMemberTyped, BeginsWithRoleTyped,
     InvitesTyped, AcceptsTyped, RevokesTyped, DeletesTyped, CreatesTyped, TakesTyped,
     ReactivatesTyped, TransfersTyped, EditsTyped, LoadsTyped, StoresTyped, OthersTyped
  DEF Next

\* Every state is of its type, whatever the number of people, requests, rows and codes.
THEOREM TypeCorrect == Spec => []TypeOK
  <1>1. Types => TypeOK
    BY DEF Types
  <1> QED BY <1>1, InitTypes, TypesStep, PTL DEF Spec

-----------------------------------------------------------------------------
(* A cached set is the role's.                                             *)

\* Nobody knows a version that is still to come, and what is on its way into the cache
\* under the current version was loaded since that version was written.
Versioned(q) == /\ q.op \in {"edit", "resolve", "store"} => q.pv <= version
                /\ q.op = "store" /\ q.pv = version => q.codes = perms
RoleInv == stale.role \/ /\ \A v \in DOMAIN cache : v <= version
                         /\ RevokedAtOnce
                         /\ \A r \in Requests : Versioned(request[r])

LEMMA RoleInvInit == ASSUME Init PROVE RoleInv
  <1>1. cache = [v \in {} |-> {}] /\ \A r \in Requests : request[r] = Idle
    BY DEF Init
  <1> QED BY <1>1 DEF RoleInv, RevokedAtOnce, Versioned, Idle

\* A request that begins anything but an edit or a resolution, or ends.
LEMMA RoleKept ==
  ASSUME Types, RoleInv, UNCHANGED <<perms, version, cache>>, stale.role => stale'.role,
         NEW r, NEW new, request' = [request EXCEPT ![r] = new] \/ request' = request,
         new.op \notin {"edit", "resolve", "store"}
  PROVE  RoleInv'
  <1>1. CASE stale.role
    BY <1>1 DEF RoleInv
  <1>2. CASE ~stale.role
    <2>1. ASSUME NEW q \in Requests PROVE Versioned(request[q])'
      <3>1. request'[q] = new \/ request'[q] = request[q]
        BY DEF Types, TypeOK
      <3>2. Versioned(request[q])
        BY <1>2 DEF RoleInv
      <3> QED BY <3>1, <3>2 DEF Versioned
    <2> QED BY <1>2, <2>1 DEF RoleInv, RevokedAtOnce
  <1> QED BY <1>1, <1>2

LEMMA RoleEnds ==
  ASSUME Types, RoleInv, NEW r, Finished(r), UNCHANGED <<perms, version, cache>>,
         stale.role => stale'.role
  PROVE  RoleInv'
  <1>1. Idle.op = "none"
    BY DEF Idle
  <1> QED BY <1>1, RoleKept DEF Finished

LEMMA RoleBegins ==
  ASSUME Types, RoleInv, NEW r \in Requests,
         \/ \E p \in People : BeginsWithPerson(r, p)
         \/ \E i \in Links : BeginsWithLink(r, i)
         \/ \E m \in Rows : BeginsWithMember(r, m)
         \/ BeginsWithRole(r)
  PROVE  RoleInv'
  <1>1. ASSUME NEW new, Begins(r, new), new.op \notin {"edit", "resolve", "store"}
        PROVE  RoleInv'
    BY <1>1, RoleKept DEF Begins
  <1>2. ASSUME NEW op \in Operations \ {"edit", "resolve", "store"},
               NEW x \in People \cup Nat \cup {NoOne}
        PROVE  /\ About(op, x).op = op
               /\ \A held : [About(op, x) EXCEPT !.held = held].op = op
               /\ \A read : [About(op, x) EXCEPT !.read = read].op = op
               /\ \A read, out, into :
                     [About(op, x) EXCEPT !.read = read, !.out = out, !.into = into].op = op
    BY <1>2 DEF About, Idle
  <1>3. Rows \subseteq Nat /\ Links \subseteq Nat
    BY ConstantTypes
  <1>4. ASSUME NEW p \in People, BeginsWithPerson(r, p) PROVE RoleInv'
    BY <1>1, <1>2, <1>4 DEF BeginsWithPerson, Operations
  <1>5. ASSUME NEW i \in Links, BeginsWithLink(r, i) PROVE RoleInv'
    <2>1. i \in People \cup Nat \cup {NoOne}
      BY <1>3
    <2>2. ASSUME NEW op \in {"accept", "revoke"}, Begins(r, About(op, i)) PROVE RoleInv'
      <3>1. About(op, i).op = op
        BY <1>2, <2>1 DEF Operations
      <3> QED BY <1>1, <2>2, <3>1
    <2>3. ASSUME NEW held, Begins(r, [About("delete", i) EXCEPT !.held = held])
          PROVE  RoleInv'
      <3>1. [About("delete", i) EXCEPT !.held = held].op = "delete"
        BY <1>2, <2>1 DEF Operations
      <3> QED BY <1>1, <2>3, <3>1
    <2> QED BY <1>5, <2>2, <2>3 DEF BeginsWithLink
  <1>6. ASSUME NEW m \in Rows, BeginsWithMember(r, m) PROVE RoleInv'
    <2>1. m \in People \cup Nat \cup {NoOne}
      BY <1>3
    <2>2. ASSUME NEW op \in {"remove", "demote", "suspend", "reactivate"},
                 Begins(r, OfMember(op, m))
          PROVE  RoleInv'
      <3>1. OfMember(op, m).op = op
        BY <1>2, <2>1 DEF Operations, OfMember
      <3> QED BY <1>1, <2>2, <3>1
    <2>3. ASSUME NEW read, NEW out, NEW into,
                 Begins(r, [About("transfer", m) EXCEPT !.read = read, !.out = out,
                                                        !.into = into])
          PROVE  RoleInv'
      <3>1. [About("transfer", m) EXCEPT !.read = read, !.out = out, !.into = into].op
              = "transfer"
        BY <1>2, <2>1 DEF Operations
      <3> QED BY <1>1, <2>3, <3>1
    <2> QED BY <1>6, <2>2, <2>3 DEF BeginsWithMember
  <1>7. ASSUME BeginsWithRole(r) PROVE RoleInv'
    <2>1. PICK new : /\ new.pv = version /\ new.op \in {"edit", "resolve"}
                     /\ Begins(r, new)
      BY <1>7 DEF BeginsWithRole, Idle
    <2>2. ASSUME NEW q \in Requests, ~stale.role PROVE Versioned(request[q])'
      <3>1. request'[q] = new \/ request'[q] = request[q]
        BY <2>1 DEF Begins, Types, TypeOK
      <3>2. Versioned(request[q])
        BY <2>2 DEF RoleInv
      <3>3. version' = version /\ perms' = perms /\ version \in Nat
        BY <2>1 DEF Begins, Types, TypeOK
      <3> QED BY <2>1, <3>1, <3>2, <3>3 DEF Versioned
    <2>3. UNCHANGED <<perms, version, cache, stale>>
      BY <2>1 DEF Begins
    <2> QED BY <2>2, <2>3 DEF RoleInv, RevokedAtOnce
  <1> QED BY <1>4, <1>5, <1>6, <1>7

LEMMA RoleEdits == ASSUME Types, RoleInv, NEW r \in Requests, Edits(r) PROVE RoleInv'
  <1> DEFINE pv == request[r].pv
  <1>1. /\ pv \in Nat /\ version \in Nat
        /\ request'= [request EXCEPT ![r] = Idle]
        /\ version' = pv + 1
        /\ cache' = [v \in DOMAIN cache \ {pv} |-> cache[v]]
    BY DEF Edits, NextVersion, Finished, Types, TypeOK, Request
  <1>2. stale'.role <=> stale.role \/ version # pv
    BY DEF Edits, Types, TypeOK
  <1>3. CASE stale'.role
    BY <1>3 DEF RoleInv
  <1>4. CASE ~stale'.role
    <2>1. version = pv /\ ~stale.role
      BY <1>2, <1>4
    <2>2. \A v \in DOMAIN cache' : v < version'
      BY <1>1, <2>1 DEF RoleInv, Types, TypeOK
    <2>3. ASSUME NEW q \in Requests PROVE Versioned(request[q])'
      <3>1. request'[q] = Idle \/ request'[q] = request[q]
        BY <1>1 DEF Types, TypeOK
      <3>2. Versioned(request[q]) /\ Idle.op = "none" /\ request[q].pv \in Nat
        BY <2>1 DEF RoleInv, Idle, Types, TypeOK, Request
      <3>3. version' = version + 1
        BY <1>1, <2>1
      <3> QED BY <1>1, <3>1, <3>2, <3>3 DEF Versioned
    <2>4. RevokedAtOnce' /\ \A v \in DOMAIN cache' : v <= version'
      BY <1>1, <2>2 DEF RevokedAtOnce, Types, TypeOK
    <2> QED BY <2>3, <2>4 DEF RoleInv
  <1> QED BY <1>3, <1>4

LEMMA RoleLoads == ASSUME Types, RoleInv, NEW r \in Requests, Loads(r) PROVE RoleInv'
  <1>1. UNCHANGED <<perms, version, cache, stale>>
    BY DEF Loads
  <1>2. CASE request[r].pv \in DOMAIN cache
    BY <1>1, <1>2, RoleEnds DEF Loads
  <1>3. CASE request[r].pv \notin DOMAIN cache
    <2>1. PICK new : /\ new = [request[r] EXCEPT !.op = "store", !.codes = perms]
                     /\ request' = [request EXCEPT ![r] = new]
      BY <1>3 DEF Loads, Types, TypeOK
    <2>2. new.op = "store" /\ new.codes = perms /\ new.pv = request[r].pv
      BY <2>1 DEF Types, TypeOK, Request
    <2>3. ASSUME NEW q \in Requests, ~stale.role PROVE Versioned(request[q])'
      <3>1. IF q = r THEN request'[q] = new ELSE request'[q] = request[q]
        BY <2>1 DEF Types, TypeOK
      <3>2. Versioned(request[q]) /\ request[r].op = "resolve"
        BY <2>3 DEF RoleInv, Loads
      <3> QED BY <1>1, <2>2, <3>1, <3>2 DEF Versioned
    <2> QED BY <1>1, <2>3 DEF RoleInv, RevokedAtOnce
  <1> QED BY <1>2, <1>3

LEMMA RoleStores == ASSUME Types, RoleInv, NEW r \in Requests, Stores(r) PROVE RoleInv'
  <1>1. /\ UNCHANGED <<perms, version, stale>>
        /\ request' = [request EXCEPT ![r] = Idle]
        /\ cache' = [v \in DOMAIN cache \cup {request[r].pv} |->
                        IF v = request[r].pv THEN request[r].codes ELSE cache[v]]
        /\ request[r].op = "store"
    BY DEF Stores, Finished
  <1>2. CASE stale.role
    BY <1>1, <1>2 DEF RoleInv
  <1>3. CASE ~stale.role
    <2>1. Versioned(request[r])
      BY <1>3 DEF RoleInv
    <2>2. \A v \in DOMAIN cache' : v <= version'
      BY <1>1, <1>3, <2>1 DEF RoleInv, Versioned
    <2>3. RevokedAtOnce'
      BY <1>1, <1>3, <2>1 DEF RoleInv, RevokedAtOnce, Versioned
    <2>4. ASSUME NEW q \in Requests PROVE Versioned(request[q])'
      <3>1. request'[q] = Idle \/ request'[q] = request[q]
        BY <1>1 DEF Types, TypeOK
      <3>2. Versioned(request[q]) /\ Idle.op = "none"
        BY <1>3 DEF RoleInv, Idle
      <3> QED BY <1>1, <3>1, <3>2 DEF Versioned
    <2> QED BY <2>2, <2>3, <2>4 DEF RoleInv
  <1> QED BY <1>2, <1>3

LEMMA RoleEvicts == ASSUME Types, RoleInv, NEW v \in DOMAIN cache, Evicts(v) PROVE RoleInv'
  BY DEF Evicts, RoleInv, RevokedAtOnce, Versioned

LEMMA RoleStep == ASSUME Types, RoleInv, [Next]_vars PROVE RoleInv'
  <1>1. ASSUME NEW r \in Requests,
               \/ Invites(r) \/ Accepts(r) \/ Revokes(r) \/ Deletes(r) \/ Creates(r)
               \/ Takes(r) \/ Reactivates(r) \/ Transfers(r) \/ Fails(r)
        PROVE  RoleInv'
    <2>1. Finished(r) /\ UNCHANGED <<perms, version, cache>>
      BY <1>1 DEF Invites, Accepts, Revokes, Deletes, Creates, Takes, Reactivates, Transfers,
                  Fails
    <2>2. stale'.role = stale.role
      BY <1>1 DEF Invites, Accepts, Revokes, Deletes, Creates, Takes, Reactivates, Transfers,
                  Fails, Types, TypeOK
    <2> QED BY <2>1, <2>2, RoleEnds
  <1>2. ASSUME UNCHANGED <<request, perms, version, cache, stale>> PROVE RoleInv'
    BY <1>2 DEF RoleInv, RevokedAtOnce, Versioned
  <1>3. ASSUME NEW i \in Links, Lapses(i) PROVE RoleInv'
    BY <1>2, <1>3 DEF Lapses
  <1>4. ASSUME Sweeps \/ UNCHANGED vars PROVE RoleInv'
    BY <1>2, <1>4 DEF Sweeps, vars
  <1> QED BY <1>1, <1>3, <1>4, RoleBegins, RoleEdits, RoleLoads, RoleStores, RoleEvicts DEF Next

\* A permission that was taken from a role is gone with the next request, however loads,
\* stores and evictions of the cache interleave with edits (core/cache.py,
\* get_role_permissions).
THEOREM RevocationsHold == Spec => []RevokedAtOnce
  <1>1. Init => Types /\ RoleInv
    BY InitTypes, RoleInvInit
  <1>2. Types /\ RoleInv /\ [Next]_vars => (Types /\ RoleInv)'
    BY TypesStep, RoleStep
  <1>3. RoleInv => RevokedAtOnce
    BY DEF RoleInv, RevokedAtOnce
  <1> QED BY <1>1, <1>2, <1>3, PTL DEF Spec

-----------------------------------------------------------------------------
(* A principal remains.                                                    *)

Heads(m) == m \in Rows /\ row[m].principal /\ row[m].status = "active"

LEMMA HeadsArePrincipals == NeverOrphaned <=> stale.count \/ \E m : Heads(m)
  BY DEF NeverOrphaned, ActivePrincipals, Heads

LEMMA HeadsArePrincipalsNext == NeverOrphaned' <=> stale'.count \/ \E m : Heads(m)'
  BY DEF NeverOrphaned, ActivePrincipals, Heads

LEMMA OneOfMany ==
  ASSUME Cardinality(ActivePrincipals) > 1, NEW m
  PROVE  \E n : Heads(n) /\ n # m
  <1>1. IsFiniteSet(Rows)
    BY ConstantTypes, FS_Interval DEF Rows
  <1>2. CASE ActivePrincipals \subseteq {m}
    <2>1. IsFiniteSet({m}) /\ Cardinality({m}) = 1
      BY FS_Singleton
    <2>2. Cardinality(ActivePrincipals) <= 1
      BY <1>2, <2>1, FS_Subset
    <2>3. IsFiniteSet(ActivePrincipals)
      BY <1>1, FS_Subset DEF ActivePrincipals
    <2>4. Cardinality(ActivePrincipals) \in Nat
      BY <2>3, FS_CardinalityType
    <2> QED BY <2>2, <2>4
  <1>3. CASE ~(ActivePrincipals \subseteq {m})
    BY <1>3 DEF ActivePrincipals, Heads
  <1> QED BY <1>2, <1>3

\* A step that leaves the principals as they are, or adds rows.
LEMMA HeadsStay ==
  ASSUME NeverOrphaned, stale.count => stale'.count, \A m : Heads(m) => Heads(m)'
  PROVE  NeverOrphaned'
  BY HeadsArePrincipals, HeadsArePrincipalsNext

LEMMA AddedKeepsHeads ==
  ASSUME Types, Room, NEW p \in People, NEW level \in {"organization", "campus"},
         row' = Added(p, level), NEW m, Heads(m)
  PROVE  Heads(m)'
  <1>1. PICK new \in Rows :
            /\ row[new].status = "unused"
            /\ Added(p, level) = [row EXCEPT ![new] =
                  [user |-> p, level |-> level, principal |-> level = "organization",
                   status |-> "active"]]
    BY AddedRow
  <1>2. row'[m] = row[m]
    BY <1>1 DEF Heads, Types, TypeOK
  <1> QED BY <1>2 DEF Heads

LEMMA TakesLeavesOne ==
  ASSUME Types, NeverOrphaned, NEW r \in Requests, Takes(r)
  PROVE  NeverOrphaned'
  <1>1. PICK m \in Rows, read \in Membership :
           /\ m = request[r].on /\ read = request[r].read
           /\ read.status # "unused"
           /\ request[r].op \in {"remove", "demote", "suspend"}
    BY DEF Types, AimedAt, Takes
  <1>2. PICK new \in Membership :
           /\ new = Taken(request[r].op, read) /\ new.user = read.user
           /\ new.status # "unused"
    BY <1>1, TakenType
  <1>3. /\ row' = Flush(m, read, new)
        /\ stale'.count <=> stale.count \/ ~NotLastOwner(m)
    BY <1>1, <1>2 DEF Takes, Types, TypeOK
  <1>4. \A n \in Rows : n # m => row'[n] = row[n]
    BY <1>1, <1>2, <1>3, FlushedRow
  <1>5. CASE stale'.count
    BY <1>5 DEF NeverOrphaned
  <1>6. CASE ~stale'.count
    <2>1. NotLastOwner(m) /\ ~stale.count
      BY <1>3, <1>6
    <2>2. PICK n : Heads(n) /\ n # m
      <3>1. CASE row[m].principal
        BY <2>1, <3>1, OneOfMany DEF NotLastOwner
      <3>2. CASE ~row[m].principal
        BY <2>1, <3>2, HeadsArePrincipals DEF Heads
      <3> QED BY <3>1, <3>2
    <2>3. Heads(n)'
      BY <1>4, <2>2 DEF Heads
    <2> QED BY <2>3, HeadsArePrincipalsNext
  <1> QED BY <1>5, <1>6

LEMMA ReactivatesLeavesOne ==
  ASSUME Types, NeverOrphaned, NEW r \in Requests, Reactivates(r)
  PROVE  NeverOrphaned'
  <1>1. PICK m \in Rows, read \in Membership : m = request[r].on /\ read = request[r].read
    BY DEF Types, AimedAt, Reactivates
  <1>2. PICK new \in Membership :
           /\ new = [read EXCEPT !.status = "active"] /\ new.user = read.user
           /\ new.status = "active" /\ new.principal = read.principal
    <2>1. /\ [read EXCEPT !.status = "active"] \in Membership
          /\ [read EXCEPT !.status = "active"].user = read.user
          /\ [read EXCEPT !.status = "active"].status = "active"
          /\ [read EXCEPT !.status = "active"].principal = read.principal
      BY DEF Membership
    <2> QED BY <2>1
  <1>3. row' = Flush(m, read, new) /\ stale' = stale
    BY <1>1, <1>2 DEF Reactivates
  <1>a. new \in Membership /\ read \in Membership /\ m \in Rows /\ new.user = read.user
        /\ new.status # "unused"
    BY <1>2
  <1>b. row' = Flush(m, read, new)
    BY <1>3
  <1>4. \A n \in Rows : n # m => row'[n] = row[n]
    BY <1>a, <1>b, FlushedRow
  <1>5. ASSUME Heads(m) PROVE Heads(m)'
    <2>1. Live(m) /\ row \in [Rows -> Membership]
      BY <1>5 DEF Heads, Live, Types, TypeOK
    <2>2. row' = [row EXCEPT ![m] = FlushOf(m, read, new)]
      BY <1>a, <1>b, <2>1, FlushedValue
    <2>3. row'[m] = FlushOf(m, read, new)
      BY <2>1, <2>2
    <2>4. FlushOf(m, read, new).status = "active" /\ FlushOf(m, read, new).principal
      BY <1>2, <1>5 DEF FlushOf, Heads
    <2> QED BY <2>3, <2>4 DEF Heads
  <1>6. \A n : Heads(n) => Heads(n)'
    BY <1>4, <1>5 DEF Heads
  <1> QED BY <1>3, <1>6, HeadsStay

LEMMA TransfersLeavesOne ==
  ASSUME Types, NEW r \in Requests, Transfers(r)
  PROVE  NeverOrphaned'
  <1> DEFINE out == request[r].out
  <1>1. PICK promoted \in [Rows -> Membership] :
            /\ \/ /\ request[r].into = NoOne
                  /\ promoted = Added(row[request[r].on].user, "organization")
               \/ /\ request[r].into \in Rows
                  /\ promoted = Flush(request[r].into, request[r].read,
                                      [request[r].read EXCEPT !.principal = TRUE,
                                                              !.status = "active"])
            /\ row' = IF out \in {NoOne, request[r].into} THEN promoted
                      ELSE [promoted EXCEPT ![out].status = "removed"]
    BY TransferredRows
  <1>2. /\ request[r].on \in Rows /\ row[request[r].on].user \in People
        /\ request[r].into # NoOne =>
              /\ request[r].read \in Membership
              /\ request[r].read.status \in {"active", "suspended"}
        /\ out # NoOne => out \in Rows /\ row[out].status # "unused"
    BY DEF Types, AimedAt, Transfers, Named
  <1>3. NoOne \notin Rows
    BY ConstantTypes
  <1>4. stale'.count <=> stale.count \/ (/\ request[r].into # NoOne
                                         /\ row[request[r].into] # request[r].read)
    BY DEF Transfers, Types, TypeOK
  <1>5. ASSUME NEW m \in Rows, m # out \/ out \in {NoOne, request[r].into},
               promoted[m].principal, promoted[m].status = "active"
        PROVE  NeverOrphaned'
    <2>1. row'[m] = promoted[m]
      BY <1>1, <1>5
    <2>2. Heads(m)'
      BY <1>5, <2>1 DEF Heads
    <2> QED BY <2>2, HeadsArePrincipalsNext
  <1>6. CASE request[r].into = NoOne
    <2>1. Room
      BY <1>6 DEF Transfers
    <2>2. PICK new \in Rows :
             /\ row[new].status = "unused"
             /\ Added(row[request[r].on].user, "organization") = [row EXCEPT ![new] =
                   [user |-> row[request[r].on].user, level |-> "organization",
                    principal |-> "organization" = "organization", status |-> "active"]]
      BY <1>2, <2>1, AddedRow
    <2>3. promoted[new].principal /\ promoted[new].status = "active"
      <3>1. PICK who \in People : who = row[request[r].on].user
        BY <1>2
      <3>2. PICK added \in Membership :
               /\ added = [user |-> who, level |-> "organization",
                           principal |-> "organization" = "organization", status |-> "active"]
               /\ added.principal /\ added.status = "active"
        <4> DEFINE made == [user |-> who, level |-> "organization",
                            principal |-> "organization" = "organization", status |-> "active"]
        <4>1. made \in Membership /\ made.principal /\ made.status = "active"
          BY <3>1 DEF Membership
        <4> QED BY <4>1
      <3>3. promoted = Added(who, "organization")
        BY <1>1, <1>3, <1>6, <3>1
      <3>4. promoted = [row EXCEPT ![new] = added]
        BY <2>2, <3>1, <3>2, <3>3
      <3>5. promoted[new] = added
        BY <3>4 DEF Types, TypeOK
      <3> QED BY <3>2, <3>5
    <2>4. new # out
      BY <1>2, <1>3, <2>2
    <2> QED BY <1>5, <2>3, <2>4
  <1>7. CASE request[r].into # NoOne /\ row[request[r].into] # request[r].read
    BY <1>4, <1>7 DEF NeverOrphaned
  <1>8. CASE request[r].into # NoOne /\ row[request[r].into] = request[r].read
    <2>1. PICK into \in Rows, read \in Membership :
             into = request[r].into /\ read = request[r].read
      BY <1>1, <1>2, <1>8
    <2>2. PICK new \in Membership :
             /\ new = [read EXCEPT !.principal = TRUE, !.status = "active"]
             /\ new.user = read.user /\ new.status = "active" /\ new.principal
      <3>1. /\ [read EXCEPT !.principal = TRUE, !.status = "active"] \in Membership
            /\ [read EXCEPT !.principal = TRUE, !.status = "active"].user = read.user
            /\ [read EXCEPT !.principal = TRUE, !.status = "active"].status = "active"
            /\ [read EXCEPT !.principal = TRUE, !.status = "active"].principal
        BY DEF Membership
      <3> QED BY <3>1
    <2>3. Live(into)
      BY <1>2, <1>8, <2>1 DEF Live
    <2>4. promoted = Flush(into, read, new)
      BY <1>1, <1>8, <2>1, <2>2
    <2>a. new \in Membership /\ read \in Membership /\ into \in Rows /\ new.user = read.user
          /\ new.status # "unused"
      BY <2>2
    <2>5. promoted = [row EXCEPT ![into] = FlushOf(into, read, new)]
      BY <2>a, <2>3, <2>4, FlushedValue
    <2>6. promoted[into] = FlushOf(into, read, new)
      BY <2>5 DEF Types, TypeOK
    <2>7. FlushOf(into, read, new).principal /\ FlushOf(into, read, new).status = "active"
      BY <1>8, <2>1, <2>2 DEF FlushOf
    <2>8. into # out \/ out \in {NoOne, request[r].into}
      BY <2>1
    <2> QED BY <1>5, <2>6, <2>7, <2>8
  <1> QED BY <1>6, <1>7, <1>8

LEMMA OrphanStep == ASSUME Types, NeverOrphaned, [Next]_vars PROVE NeverOrphaned'
  <1>1. ASSUME NEW r \in Requests, Accepts(r) PROVE NeverOrphaned'
    <2>1. PICK i \in Links : i = request[r].on /\ link[i].email \in People
      BY <1>1 DEF Types, AimedAt, Accepts, Named
    <2>2. Room /\ row' = Added(link[i].email, "campus") /\ stale'.count = stale.count
      BY <1>1, <2>1 DEF Accepts, Types, TypeOK
    <2> QED BY <2>1, <2>2, AddedKeepsHeads, HeadsStay
  <1>2. ASSUME NEW r \in Requests, Creates(r) PROVE NeverOrphaned'
    <2>1. request[r].on \in People
      BY <1>2 DEF Types, AimedAt, Creates
    <2>2. Room /\ row' = Added(request[r].on, "campus") /\ stale' = stale
      BY <1>2 DEF Creates
    <2> QED BY <2>1, <2>2, AddedKeepsHeads, HeadsStay
  <1>3. ASSUME row' = row, stale'.count = stale.count PROVE NeverOrphaned'
    BY <1>3, HeadsStay DEF Heads
  <1>4. ASSUME NEW r \in Requests,
               \/ Invites(r) \/ Revokes(r) \/ Deletes(r) \/ Edits(r) \/ Loads(r)
               \/ Stores(r) \/ Fails(r)
        PROVE  NeverOrphaned'
    <2>1. row' = row /\ stale'.count = stale.count
      BY <1>4 DEF Invites, Revokes, Deletes, Edits, Loads, Stores, Fails, Types, TypeOK
    <2> QED BY <2>1, <1>3
  <1>5. ASSUME NEW r \in Requests, NEW new, Begins(r, new) PROVE NeverOrphaned'
    BY <1>3, <1>5 DEF Begins
  <1>6. ASSUME NEW r \in Requests,
               \/ \E p \in People : BeginsWithPerson(r, p)
               \/ \E i \in Links : BeginsWithLink(r, i)
               \/ \E m \in Rows : BeginsWithMember(r, m)
               \/ BeginsWithRole(r)
        PROVE  NeverOrphaned'
    <2>1. \E new : Begins(r, new)
      BY <1>6 DEF BeginsWithPerson, BeginsWithLink, BeginsWithMember, BeginsWithRole
    <2> QED BY <1>5, <2>1
  <1>7. ASSUME \/ \E i \in Links : Lapses(i)
               \/ Sweeps
               \/ \E v \in DOMAIN cache : Evicts(v)
               \/ UNCHANGED vars
        PROVE  NeverOrphaned'
    BY <1>3, <1>7 DEF Lapses, Sweeps, Evicts, vars
  <1> QED BY <1>1, <1>2, <1>4, <1>6, <1>7, TakesLeavesOne, ReactivatesLeavesOne,
             TransfersLeavesOne DEF Next

LEMMA OrphanInit == ASSUME Init PROVE NeverOrphaned
  <1>1. PICK hired \in SUBSET (People \ {Founder}) :
           /\ Cardinality(hired) < MaxRows
           /\ \E at \in [hired -> 2..(Cardinality(hired) + 1)] :
                 row = [m \in Rows |->
                       IF m = 1 THEN [user |-> Founder, level |-> "organization",
                                      principal |-> TRUE, status |-> "active"]
                       ELSE IF m \in {at[p] : p \in hired}
                       THEN [user |-> CHOOSE p \in hired : at[p] = m, level |-> "campus",
                             principal |-> FALSE, status |-> "active"]
                       ELSE Unused]
    BY DEF Init
  <1>2. Cardinality(hired) \in Nat
    BY ConstantTypes, FS_Subset, FS_CardinalityType
  <1>3. 1 \in Rows
    BY <1>1, <1>2, ConstantTypes DEF Rows
  <1>4. row[1] = [user |-> Founder, level |-> "organization", principal |-> TRUE,
                  status |-> "active"]
    BY <1>1, <1>3
  <1>5. Heads(1)
    BY <1>3, <1>4 DEF Heads
  <1> QED BY <1>5, HeadsArePrincipals

\* An active principal remains, whatever is removed, suspended, demoted or handed over, unless
\* a guard was read before another request changed what it counts (rbac/service.py,
\* _assert_not_last_owner).
THEOREM PrincipalRemains == Spec => []NeverOrphaned
  <1>1. Init => Types /\ NeverOrphaned
    BY InitTypes, OrphanInit
  <1>2. Types /\ NeverOrphaned /\ [Next]_vars => (Types /\ NeverOrphaned)'
    BY TypesStep, OrphanStep
  <1> QED BY <1>1, <1>2, PTL DEF Spec

-----------------------------------------------------------------------------
(* The seats.  One person at a time is at the top of the organization, so  *)
(* that whoever is removed leaves a seat of the campus.                    *)

\* The memberships that belong to the organization itself.
AtTheTop == {m \in Rows : Live(m) /\ row[m].level = "organization"}

\* They are those of an active principal, who owns the organization, and there is one at most.
RuledByOne == /\ \A m \in Rows : row[m].principal => row[m].level = "organization"
              /\ \A m \in AtTheTop : /\ row[m].principal /\ row[m].status = "active"
                                     /\ row[m].user = owner
              /\ \A m, n \in AtTheTop : m = n

\* A request to remove, suspend or reactivate is about a membership of the campus, and a
\* transfer found nobody to promote, and at most the membership at the top to take away.
SeatRead(q) ==
    /\ q.op \in {"remove", "suspend", "reactivate"} =>
          row[q.on].level = "campus" /\ row[q.on].status # "unused"
    /\ q.op = "remove" => q.read.status \in {"active", "suspended"}
    /\ q.op # "demote"
    /\ q.op = "transfer" =>
          /\ q.into = NoOne
          /\ q.out # NoOne => row[q.out].level = "organization"

OneAtTheTop == stale.owner \/ (RuledByOne /\ \A r \in Requests : SeatRead(request[r]))

\* The level of a membership is never changed.
LevelsKept == \A m \in Rows : row[m].status # "unused" =>
                 row'[m].status # "unused" /\ row'[m].level = row[m].level

\* A step that writes memberships of the campus only.
OnlyOnCampus == \A m \in Rows :
    \/ row'[m] = row[m]
    \/ /\ row[m].status = "unused" \/ row[m].level = "campus"
       /\ row'[m].level = "campus" /\ ~row'[m].principal

\* What a request has read of levels still holds after such a step.
LEMMA SeatReadStays ==
  ASSUME Types, LevelsKept, NEW q, AimedAt(q), SeatRead(q)
  PROVE  SeatRead(q)'
  BY DEF SeatRead, LevelsKept, AimedAt

\* A step that ends a request, or none, and writes on the campus only.
LEMMA TopStays ==
  ASSUME Types, OneAtTheTop, LevelsKept, OnlyOnCampus, owner' = owner,
         stale.owner => stale'.owner,
         request' = request \/ \E r \in Requests : Finished(r)
  PROVE  OneAtTheTop'
  <1>1. CASE stale.owner
    BY <1>1 DEF OneAtTheTop
  <1>2. CASE RuledByOne /\ \A r \in Requests : SeatRead(request[r])
    <2>1. \A m \in AtTheTop' : m \in AtTheTop /\ row'[m] = row[m]
      BY DEF AtTheTop, OnlyOnCampus, Live
    <2>2. RuledByOne'
      <3>1. \A m \in Rows : row'[m].principal => row'[m].level = "organization"
        BY <1>2 DEF RuledByOne, OnlyOnCampus
      <3> QED BY <1>2, <2>1, <3>1 DEF RuledByOne
    <2>3. ASSUME NEW r \in Requests PROVE SeatRead(request[r])'
      <3>1. PICK old : old = request[r] /\ AimedAt(old) /\ SeatRead(old)
        BY <1>2 DEF Types
      <3>2. SeatRead(old)'
        BY <3>1, SeatReadStays
      <3>3. SeatRead(Idle)'
        BY DEF SeatRead, Idle
      <3>4. request'[r] = old \/ request'[r] = Idle
        BY <3>1 DEF Finished, Types, TypeOK
      <3> QED BY <3>2, <3>3, <3>4 DEF SeatRead
    <2> QED BY <2>2, <2>3 DEF OneAtTheTop
  <1> QED BY <1>1, <1>2 DEF OneAtTheTop

LEMMA RowsSame == ASSUME row' = row PROVE LevelsKept /\ OnlyOnCampus
  BY DEF LevelsKept, OnlyOnCampus

\* Somebody joins the campus.
LEMMA CampusAdded ==
  ASSUME Types, Room, NEW p \in People, row' = Added(p, "campus")
  PROVE  LevelsKept /\ OnlyOnCampus
  <1>1. PICK new \in Rows :
            /\ row[new].status = "unused"
            /\ row' = [row EXCEPT ![new] =
                  [user |-> p, level |-> "campus", principal |-> "campus" = "organization",
                   status |-> "active"]]
    BY AddedRow
  <1>2. \A m \in Rows : m # new => row'[m] = row[m]
    BY <1>1 DEF Types, TypeOK
  <1>3. row'[new].level = "campus" /\ ~row'[new].principal
    <2> DEFINE made == [user |-> p, level |-> "campus", principal |-> "campus" = "organization",
                        status |-> "active"]
    <2>1. made.level = "campus" /\ made.status = "active"
      OBVIOUS
    <2>2. ~made.principal
      <3>1. made.principal = ("campus" = "organization")
        OBVIOUS
      <3> QED BY <3>1
    <2>3. row'[new] = made
      BY <1>1 DEF Types, TypeOK
    <2> HIDE DEF made
    <2> QED BY <2>1, <2>2, <2>3
  <1> QED BY <1>1, <1>2, <1>3 DEF LevelsKept, OnlyOnCampus

\* A flush that changes neither level nor user nor who is a principal.
LEMMA CampusFlushed ==
  ASSUME Types, RuledByOne, NEW m \in Rows, row[m].level = "campus", row[m].status # "unused",
         NEW read \in Membership, NEW new \in Membership,
         new.user = read.user, new.level = read.level, new.principal = read.principal,
         new.status # "unused", row' = Flush(m, read, new)
  PROVE  LevelsKept /\ OnlyOnCampus
  <1>1. \A n \in Rows : n # m => row'[n] = row[n]
    BY FlushedRow
  <1>2. CASE ~Live(m)
    <2>1. row' = row
      BY <1>2 DEF Flush
    <2> QED BY <2>1, RowsSame
  <1>3. CASE Live(m)
    <2>1. row' = [row EXCEPT ![m] = FlushOf(m, read, new)] /\ row \in [Rows -> Membership]
      BY <1>3, FlushedValue DEF Types, TypeOK
    <2>2. row'[m] = FlushOf(m, read, new)
      BY <2>1
    <2>3. row'[m].level = row[m].level /\ row'[m].principal = row[m].principal
      BY <2>2 DEF FlushOf
    <2>4. row'[m].status # "unused"
      BY <2>2, <1>3, FlushedValue
    <2>5. ~row[m].principal
      BY DEF RuledByOne
    <2> QED BY <1>1, <2>3, <2>4, <2>5 DEF LevelsKept, OnlyOnCampus
  <1> QED BY <1>2, <1>3

LEMMA TopTakes ==
  ASSUME Types, OneAtTheTop, NEW r \in Requests, Takes(r)
  PROVE  OneAtTheTop' /\ (~stale.owner => LevelsKept)
  <1>0. stale'.owner = stale.owner
    BY DEF Takes, Types, TypeOK
  <1>1. CASE stale.owner
    BY <1>0, <1>1 DEF OneAtTheTop
  <1>2. CASE ~stale.owner
    <2>1. RuledByOne /\ SeatRead(request[r])
      BY <1>2 DEF OneAtTheTop
    <2>2. PICK m \in Rows, read \in Membership :
             /\ m = request[r].on /\ read = request[r].read /\ read.status # "unused"
      BY DEF Types, AimedAt, Takes
    <2>3. PICK op \in {"remove", "suspend"} : op = request[r].op
      BY <2>1 DEF Takes, SeatRead
    <2>4. row[m].level = "campus" /\ row[m].status # "unused"
      BY <2>1, <2>2, <2>3 DEF SeatRead
    <2>5. PICK new \in Membership :
             /\ new = Taken(op, read) /\ new.user = read.user /\ new.status # "unused"
             /\ new.level = read.level /\ new.principal = read.principal
      <3>1. /\ Taken(op, read) \in Membership /\ Taken(op, read).user = read.user
            /\ Taken(op, read).status # "unused"
        BY <2>2, TakenType
      <3>2. /\ Taken(op, read).level = read.level
            /\ Taken(op, read).principal = read.principal
        BY DEF Taken, Membership
      <3> QED BY <3>1, <3>2
    <2>6. row' = Flush(m, read, new)
      BY <2>2, <2>3, <2>5 DEF Takes
    <2>7. LevelsKept /\ OnlyOnCampus
      BY <2>1, <2>4, <2>5, <2>6, CampusFlushed
    <2>8. owner' = owner /\ Finished(r)
      BY DEF Takes
    <2> QED BY <1>0, <2>7, <2>8, TopStays
  <1> QED BY <1>1, <1>2

LEMMA TopReactivates ==
  ASSUME Types, OneAtTheTop, NEW r \in Requests, Reactivates(r)
  PROVE  OneAtTheTop' /\ (~stale.owner => LevelsKept)
  <1>1. CASE stale.owner
    BY <1>1 DEF OneAtTheTop, Reactivates
  <1>2. CASE ~stale.owner
    <2>1. RuledByOne /\ SeatRead(request[r])
      BY <1>2 DEF OneAtTheTop
    <2>2. PICK m \in Rows, read \in Membership : m = request[r].on /\ read = request[r].read
      BY DEF Types, AimedAt, Reactivates
    <2>4. row[m].level = "campus" /\ row[m].status # "unused"
      BY <2>1, <2>2 DEF SeatRead, Reactivates
    <2>5. PICK new \in Membership :
             /\ new = [read EXCEPT !.status = "active"]
             /\ new.user = read.user /\ new.status # "unused"
             /\ new.level = read.level /\ new.principal = read.principal
      <3>1. /\ [read EXCEPT !.status = "active"] \in Membership
            /\ [read EXCEPT !.status = "active"].user = read.user
            /\ [read EXCEPT !.status = "active"].status # "unused"
            /\ [read EXCEPT !.status = "active"].level = read.level
            /\ [read EXCEPT !.status = "active"].principal = read.principal
        BY DEF Membership
      <3> QED BY <3>1
    <2>6. row' = Flush(m, read, new)
      BY <2>2, <2>5 DEF Reactivates
    <2>7. LevelsKept /\ OnlyOnCampus
      BY <2>1, <2>4, <2>5, <2>6, CampusFlushed
    <2>8. owner' = owner /\ Finished(r) /\ stale' = stale
      BY DEF Reactivates
    <2> QED BY <2>7, <2>8, TopStays
  <1> QED BY <1>1, <1>2

\* A transfer by somebody who read the owner of now: the new membership replaces the one at
\* the top.
LEMMA TransferredTop ==
  ASSUME Types, OneAtTheTop, ~stale.owner, NEW r \in Requests, Transfers(r), ~stale'.owner
  PROVE  \E new \in Rows, p \in People :
            /\ owner' = p
            /\ row[new].status = "unused"
            /\ row'[new] = [user |-> p, level |-> "organization", principal |-> TRUE,
                            status |-> "active"]
            /\ \A m \in Rows \ {new} :
                  IF m \in AtTheTop THEN row'[m] = [row[m] EXCEPT !.status = "removed"]
                  ELSE row'[m] = row[m]
  <1>1. RuledByOne /\ SeatRead(request[r])
    BY DEF OneAtTheTop
  <1>2. request[r].into = NoOne /\ request[r].op = "transfer"
    BY <1>1 DEF SeatRead, Transfers
  <1>3. PICK p \in People : p = row[request[r].on].user
    BY DEF Types, AimedAt, Transfers, Named
  <1>4. Room /\ owner' = p
    BY <1>2, <1>3 DEF Transfers
  <1>5. PICK out : out = request[r].out
    OBVIOUS
  <1>6. out = OneOf(Of(owner, "organization"))
    BY <1>5 DEF Transfers, Types, TypeOK
  <1>7. PICK new \in Rows :
            /\ row[new].status = "unused"
            /\ Added(p, "organization") = [row EXCEPT ![new] =
                  [user |-> p, level |-> "organization",
                   principal |-> "organization" = "organization", status |-> "active"]]
    BY <1>4, AddedRow
  <1>8. row' = IF out = NoOne THEN Added(p, "organization")
               ELSE [Added(p, "organization") EXCEPT ![out].status = "removed"]
    BY <1>2, <1>3, <1>5 DEF Transfers
  <1>9. Of(owner, "organization") = AtTheTop
    BY <1>1 DEF Of, AtTheTop, RuledByOne
  <1>10. new \notin AtTheTop
    BY <1>7 DEF AtTheTop, Live
  <1>11. CASE out = NoOne
    <2>1. AtTheTop = {}
      BY <1>6, <1>9, <1>11, ConstantTypes DEF OneOf, AtTheTop
    <2>2. row' = [row EXCEPT ![new] = [user |-> p, level |-> "organization",
                                       principal |-> TRUE, status |-> "active"]]
      BY <1>7, <1>8, <1>11
    <2> QED BY <1>4, <1>7, <2>1, <2>2 DEF Types, TypeOK
  <1>12. CASE out # NoOne
    <2>1. out \in AtTheTop
      BY <1>6, <1>9, <1>12 DEF OneOf
    <2>2. \A m \in AtTheTop : m = out
      BY <1>1, <2>1 DEF RuledByOne
    <2>3. out \in Rows /\ out # new
      BY <1>10, <2>1 DEF AtTheTop
    <2>4. PICK added : added = [row EXCEPT ![new] =
                                   [user |-> p, level |-> "organization",
                                    principal |-> TRUE, status |-> "active"]]
      OBVIOUS
    <2>5. row' = [added EXCEPT ![out].status = "removed"]
      BY <1>7, <1>8, <1>12, <2>4
    <2>6. DOMAIN added = Rows
      BY <2>4 DEF Types, TypeOK
    <2>7. /\ row'[new] = added[new] /\ row'[out] = [added[out] EXCEPT !.status = "removed"]
          /\ \A m \in Rows : m # out => row'[m] = added[m]
      BY <2>3, <2>5, <2>6
    <2>8. /\ added[new] = [user |-> p, level |-> "organization", principal |-> TRUE,
                           status |-> "active"]
          /\ \A m \in Rows : m # new => added[m] = row[m]
      BY <2>4 DEF Types, TypeOK
    <2>9. \A m \in Rows \ {new} : IF m \in AtTheTop
                                  THEN row'[m] = [row[m] EXCEPT !.status = "removed"]
                                  ELSE row'[m] = row[m]
      BY <2>1, <2>2, <2>3, <2>7, <2>8
    <2>10. row'[new] = [user |-> p, level |-> "organization", principal |-> TRUE,
                        status |-> "active"]
      BY <2>7, <2>8
    <2> QED BY <1>4, <1>7, <2>9, <2>10, Zenon
  <1> QED BY <1>11, <1>12

LEMMA TopTransfers ==
  ASSUME Types, OneAtTheTop, NEW r \in Requests, Transfers(r)
  PROVE  OneAtTheTop'
  <1>0. stale.owner => stale'.owner
    BY DEF Transfers, Types, TypeOK
  <1>1. CASE stale'.owner
    BY <1>1 DEF OneAtTheTop
  <1>2. CASE ~stale'.owner
    <2>1. PICK new \in Rows, p \in People :
            /\ owner' = p
            /\ row[new].status = "unused"
            /\ row'[new] = [user |-> p, level |-> "organization", principal |-> TRUE,
                            status |-> "active"]
            /\ \A m \in Rows \ {new} :
                  IF m \in AtTheTop THEN row'[m] = [row[m] EXCEPT !.status = "removed"]
                  ELSE row'[m] = row[m]
      BY <1>0, <1>2, TransferredTop
    <2>2. RuledByOne /\ \A q \in Requests : SeatRead(request[q])
      BY <1>0, <1>2 DEF OneAtTheTop
    <2>3. row \in [Rows -> Membership]
      BY DEF Types, TypeOK
    <2>4. /\ row'[new].user = p /\ row'[new].level = "organization"
          /\ row'[new].principal /\ row'[new].status = "active"
      <3> DEFINE made == [user |-> p, level |-> "organization", principal |-> TRUE,
                          status |-> "active"]
      <3>1. made.user = p /\ made.level = "organization" /\ made.principal
            /\ made.status = "active"
        OBVIOUS
      <3> QED BY <2>1, <3>1
    <2>5. \A m \in AtTheTop : /\ row'[m].status = "removed"
                              /\ row'[m].level = row[m].level
                              /\ row'[m].principal = row[m].principal
      <3>1. ASSUME NEW m \in AtTheTop
            PROVE  /\ row'[m].status = "removed" /\ row'[m].level = row[m].level
                   /\ row'[m].principal = row[m].principal
        <4>1. m \in Rows \ {new}
          BY <2>1 DEF AtTheTop, Live
        <4>2. row'[m] = [row[m] EXCEPT !.status = "removed"]
          BY <2>1, <4>1
        <4>3. row[m] \in Membership
          BY <2>3, <4>1
        <4> QED BY <4>2, <4>3 DEF Membership
      <3> QED BY <3>1
    <2>6. \A m \in Rows \ {new} : m \notin AtTheTop => row'[m] = row[m]
      BY <2>1
    <2>7. LevelsKept
      BY <2>1, <2>5, <2>6 DEF LevelsKept, AtTheTop
    <2>8. AtTheTop' = {new}
      BY <2>4, <2>5, <2>6 DEF AtTheTop, Live
    <2>9. \A m \in Rows : row'[m].principal => row'[m].level = "organization"
      BY <2>2, <2>4, <2>5, <2>6 DEF RuledByOne
    <2>10. RuledByOne'
      BY <2>1, <2>4, <2>8, <2>9 DEF RuledByOne
    <2>11. ASSUME NEW q \in Requests PROVE SeatRead(request[q])'
      <3>1. PICK old : old = request[q] /\ AimedAt(old) /\ SeatRead(old)
        BY <2>2 DEF Types
      <3>2. SeatRead(old)'
        BY <2>7, <3>1, SeatReadStays
      <3>3. SeatRead(Idle)'
        BY DEF SeatRead, Idle
      <3>4. request'[q] = old \/ request'[q] = Idle
        BY <3>1 DEF Transfers, Finished, Types, TypeOK
      <3> QED BY <3>2, <3>3, <3>4 DEF SeatRead
    <2> QED BY <2>10, <2>11 DEF OneAtTheTop
  <1> QED BY <1>1, <1>2

\* The guards leave whoever is at the top where he is.
LEMMA TopIsSafe ==
  ASSUME Types, RuledByOne, NEW m \in Rows, MayTake(m) \/ row[m].status = "suspended"
  PROVE  row[m].level = "campus" /\ row[m].status # "unused"
  <1>1. row[m].status # "unused" /\ Live(m)
    BY DEF MayTake, Live
  <1>2. ASSUME m \in AtTheTop PROVE FALSE
    <2>1. row[m].principal /\ row[m].status = "active"
      BY <1>2 DEF RuledByOne
    <2>2. Cardinality(ActivePrincipals) > 1
      BY <2>1 DEF MayTake, NotLastOwner
    <2>3. PICK n : Heads(n) /\ n # m
      BY <2>2, OneOfMany
    <2>4. n \in AtTheTop
      BY <2>3 DEF Heads, AtTheTop, Live, RuledByOne
    <2> QED BY <1>2, <2>3, <2>4 DEF RuledByOne
  <1>3. row[m].level \in {"organization", "campus"}
    BY DEF Types, TypeOK, Membership
  <1> QED BY <1>1, <1>2, <1>3 DEF AtTheTop

LEMMA TopBegins ==
  ASSUME Types, OneAtTheTop, NEW r \in Requests, NEW new, Begins(r, new),
         stale.owner \/ SeatRead(new)
  PROVE  OneAtTheTop'
  <1>1. CASE stale.owner
    BY <1>1 DEF OneAtTheTop, Begins
  <1>2. CASE ~stale.owner
    <2>1. RuledByOne'
      BY <1>2 DEF OneAtTheTop, RuledByOne, AtTheTop, Live, Begins
    <2>2. ASSUME NEW q \in Requests PROVE SeatRead(request[q])'
      <3>1. request'[q] = new \/ request'[q] = request[q]
        BY DEF Begins, Types, TypeOK
      <3>2. SeatRead(request[q]) /\ SeatRead(new)
        BY <1>2 DEF OneAtTheTop
      <3> QED BY <3>1, <3>2 DEF SeatRead, Begins
    <2> QED BY <2>1, <2>2 DEF OneAtTheTop
  <1> QED BY <1>1, <1>2

LEMMA TopBeginsWithMember ==
  ASSUME Types, OneAtTheTop, NEW r \in Requests, NEW m \in Rows, BeginsWithMember(r, m)
  PROVE  OneAtTheTop'
  <1>0. row[m] \in Membership /\ m \in Nat
    BY ConstantTypes DEF Types, TypeOK
  <1>1. ASSUME NEW op \in {"remove", "demote", "suspend", "reactivate"},
               Begins(r, OfMember(op, m)),
               op # "reactivate" => MayTake(m),
               op = "reactivate" => row[m].status = "suspended",
               op = "demote" => row[m].level = "organization"
        PROVE  OneAtTheTop'
    <2>1. op \in Operations
      BY DEF Operations
    <2>2. PICK base \in Request : base = About(op, m) /\ base.op = op /\ base.on = m
      BY <1>0, <2>1, AboutType
    <2>3. PICK new : new = [base EXCEPT !.read = row[m]] /\ new = OfMember(op, m)
      BY <2>2 DEF OfMember
    <2>4. new.op = op /\ new.on = m /\ new.read = row[m]
      BY <2>2, <2>3 DEF Request
    <2>5. ASSUME ~stale.owner PROVE SeatRead(new)
      <3>1. RuledByOne
        BY <2>5 DEF OneAtTheTop
      <3>2. row[m].level = "campus" /\ row[m].status # "unused"
        BY <1>1, <3>1, TopIsSafe
      <3>3. op = "remove" => row[m].status \in {"active", "suspended"}
        BY <1>1 DEF MayTake, Live
      <3>4. op # "demote" /\ op # "transfer"
        BY <1>1, <3>2
      <3> QED BY <2>4, <3>2, <3>3, <3>4 DEF SeatRead
    <2>6. Begins(r, new)
      BY <1>1, <2>3
    <2> QED BY <2>5, <2>6, TopBegins
  <1>2. ASSUME NEW into, into = OneOf(Of(row[m].user, "organization")), MayTransfer(m),
               Begins(r, [About("transfer", m) EXCEPT
                             !.read = IF into = NoOne THEN NoOne ELSE row[into],
                             !.out = OneOf(Of(owner, "organization")),
                             !.into = into])
        PROVE  OneAtTheTop'
    <2>1. PICK out : out = OneOf(Of(owner, "organization"))
      OBVIOUS
    <2>2. PICK read : read = IF into = NoOne THEN NoOne ELSE row[into]
      OBVIOUS
    <2>3. PICK base \in Request : base = About("transfer", m) /\ base.op = "transfer"
      BY <1>0, AboutType DEF Operations
    <2>4. PICK new : new = [base EXCEPT !.read = read, !.out = out, !.into = into]
      OBVIOUS
    <2>5. new.op = "transfer" /\ new.out = out /\ new.into = into
      BY <2>3, <2>4 DEF Request
    <2>6. ASSUME ~stale.owner PROVE SeatRead(new)
      <3>1. RuledByOne
        BY <2>6 DEF OneAtTheTop
      <3>2. Of(row[m].user, "organization") = {}
        BY <1>2, <3>1 DEF Of, RuledByOne, AtTheTop, MayTransfer
      <3>3. into = NoOne
        BY <1>2, <3>2 DEF OneOf
      <3>4. out # NoOne => row[out].level = "organization"
        BY <2>1 DEF OneOf, Of
      <3> QED BY <2>5, <3>3, <3>4 DEF SeatRead
    <2>7. Begins(r, new)
      BY <1>2, <2>1, <2>2, <2>3, <2>4
    <2> QED BY <2>6, <2>7, TopBegins
  <1> QED BY <1>1, <1>2 DEF BeginsWithMember

\* Requests about a person, an invitation or the role read no membership.
LEMMA TopBeginsElse ==
  ASSUME Types, OneAtTheTop, NEW r \in Requests,
         \/ \E p \in People : BeginsWithPerson(r, p)
         \/ \E i \in Links : BeginsWithLink(r, i)
         \/ BeginsWithRole(r)
  PROVE  OneAtTheTop'
  <1>1. ASSUME NEW new, Begins(r, new),
               new.op \in {"invite", "create", "accept", "revoke", "delete", "edit", "resolve"}
        PROVE  OneAtTheTop'
    <2>1. SeatRead(new)
      BY <1>1 DEF SeatRead
    <2> QED BY <1>1, <2>1, TopBegins
  <1>2. ASSUME NEW p \in People, BeginsWithPerson(r, p) PROVE OneAtTheTop'
    <2>1. About("invite", p).op = "invite" /\ About("create", p).op = "create"
      BY AboutType DEF Operations
    <2> QED BY <1>1, <1>2, <2>1 DEF BeginsWithPerson
  <1>3. ASSUME NEW i \in Links, BeginsWithLink(r, i) PROVE OneAtTheTop'
    <2>1. i \in Nat
      BY ConstantTypes
    <2>2. /\ About("accept", i).op = "accept" /\ About("revoke", i).op = "revoke"
          /\ About("delete", i).op = "delete" /\ About("delete", i) \in Request
      BY <2>1, AboutType DEF Operations
    <2>3. [About("delete", i) EXCEPT !.held = i \in Pending].op = "delete"
      BY <2>2 DEF Request
    <2> QED BY <1>1, <1>3, <2>2, <2>3 DEF BeginsWithLink
  <1>4. ASSUME BeginsWithRole(r) PROVE OneAtTheTop'
    <2>1. \A codes : [Idle EXCEPT !.op = "edit", !.pv = version, !.codes = codes].op = "edit"
      BY DEF Idle
    <2>2. [Idle EXCEPT !.op = "resolve", !.pv = version].op = "resolve"
      BY DEF Idle
    <2> QED BY <1>1, <1>4, <2>1, <2>2 DEF BeginsWithRole
  <1> QED BY <1>2, <1>3, <1>4

\* A load that misses keeps nothing of a membership.
LEMMA TopLoads ==
  ASSUME Types, OneAtTheTop, NEW r \in Requests, Loads(r)
  PROVE  OneAtTheTop'
  <1>0. UNCHANGED <<row, owner, stale>>
    BY DEF Loads
  <1>1. CASE stale.owner
    BY <1>0, <1>1 DEF OneAtTheTop
  <1>2. CASE ~stale.owner
    <2>1. RuledByOne'
      BY <1>0, <1>2 DEF OneAtTheTop, RuledByOne, AtTheTop, Live
    <2>2. ASSUME NEW q \in Requests PROVE SeatRead(request[q])'
      <3>1. \/ request'[q] = request[q] \/ request'[q] = Idle
            \/ request'[q].op = "store"
        BY DEF Loads, Finished, Types, TypeOK, Request
      <3>2. SeatRead(request[q])
        BY <1>2 DEF OneAtTheTop
      <3>3. SeatRead(Idle)
        BY DEF SeatRead, Idle
      <3> QED BY <1>0, <3>1, <3>2, <3>3 DEF SeatRead
    <2> QED BY <2>1, <2>2 DEF OneAtTheTop
  <1> QED BY <1>1, <1>2

LEMMA TopStep == ASSUME Types, OneAtTheTop, [Next]_vars PROVE OneAtTheTop'
  <1>1. ASSUME NEW r \in Requests, Accepts(r) PROVE OneAtTheTop'
    <2>1. PICK i \in Links : i = request[r].on /\ link[i].email \in People
      BY <1>1 DEF Types, AimedAt, Accepts, Named
    <2>2. Room /\ row' = Added(link[i].email, "campus") /\ stale'.owner = stale.owner
          /\ owner' = owner /\ Finished(r)
      BY <1>1, <2>1 DEF Accepts, Types, TypeOK
    <2> QED BY <2>1, <2>2, CampusAdded, TopStays
  <1>2. ASSUME NEW r \in Requests, Creates(r) PROVE OneAtTheTop'
    <2>1. request[r].on \in People
      BY <1>2 DEF Types, AimedAt, Creates
    <2>2. Room /\ row' = Added(request[r].on, "campus") /\ stale' = stale
          /\ owner' = owner /\ Finished(r)
      BY <1>2 DEF Creates
    <2> QED BY <2>1, <2>2, CampusAdded, TopStays
  <1>3. ASSUME NEW r \in Requests,
               \/ Invites(r) \/ Revokes(r) \/ Deletes(r) \/ Edits(r) \/ Stores(r) \/ Fails(r)
        PROVE  OneAtTheTop'
    <2>1. UNCHANGED <<row, owner>> /\ stale'.owner = stale.owner /\ Finished(r)
      BY <1>3 DEF Invites, Revokes, Deletes, Edits, Stores, Fails, Types, TypeOK
    <2> QED BY <2>1, RowsSame, TopStays
  <1>4. ASSUME \/ \E i \in Links : Lapses(i)
               \/ Sweeps
               \/ \E v \in DOMAIN cache : Evicts(v)
               \/ UNCHANGED vars
        PROVE  OneAtTheTop'
    BY <1>4, RowsSame, TopStays DEF Lapses, Sweeps, Evicts, vars
  <1> QED BY <1>1, <1>2, <1>3, <1>4, TopTakes, TopReactivates, TopTransfers, TopLoads,
             TopBeginsWithMember, TopBeginsElse DEF Next

-----------------------------------------------------------------------------
(* What each step does to the members of the campus, to the pending        *)
(* invitations, and to the counter.                                        *)

LEMMA SeatsAreFinite ==
  /\ \A S \in SUBSET Rows : IsFiniteSet(S) /\ Cardinality(S) \in Nat
  /\ \A S \in SUBSET Links : IsFiniteSet(S) /\ Cardinality(S) \in Nat
  <1>1. IsFiniteSet(Rows) /\ IsFiniteSet(Links)
    BY ConstantTypes, FS_Interval DEF Rows, Links
  <1>2. ASSUME NEW S \in SUBSET Rows PROVE IsFiniteSet(S) /\ Cardinality(S) \in Nat
    BY <1>1, FS_Subset, FS_CardinalityType
  <1>3. ASSUME NEW S \in SUBSET Links PROVE IsFiniteSet(S) /\ Cardinality(S) \in Nat
    BY <1>1, FS_Subset, FS_CardinalityType
  <1> QED BY <1>2, <1>3

LEMMA CountedSets ==
  /\ OnCampus \in SUBSET Rows /\ Pending \in SUBSET Links /\ Overdue \in SUBSET Pending
  /\ IsFiniteSet(OnCampus) /\ Cardinality(OnCampus) \in Nat
  /\ IsFiniteSet(Pending) /\ Cardinality(Pending) \in Nat
  <1>1. OnCampus \in SUBSET Rows /\ Pending \in SUBSET Links /\ Overdue \in SUBSET Pending
    BY DEF OnCampus, Pending, Overdue
  <1> QED BY <1>1, SeatsAreFinite

Balanced == staff_count = Cardinality(OnCampus) + Cardinality(Pending)

\* A membership is added to the campus, or taken from it; an invitation likewise.
LEMMA OneMore ==
  ASSUME NEW S, IsFiniteSet(S), NEW x, x \notin S
  PROVE  Cardinality(S \cup {x}) = Cardinality(S) + 1
  BY FS_AddElement

LEMMA OneLess ==
  ASSUME NEW S, IsFiniteSet(S), NEW x \in S, Cardinality(S) \in Nat
  PROVE  Cardinality(S \ {x}) = Cardinality(S) - 1 /\ Cardinality(S) >= 1
  <1>1. Cardinality(S \ {x}) = Cardinality(S) - 1 /\ IsFiniteSet(S \ {x})
    BY FS_RemoveElement
  <1>2. Cardinality(S \ {x}) \in Nat
    BY <1>1, FS_CardinalityType
  <1> QED BY <1>1, <1>2

LEMMA CampusGrows ==
  ASSUME Types, Room, NEW p \in People, row' = Added(p, "campus")
  PROVE  Cardinality(OnCampus') = Cardinality(OnCampus) + 1
  <1>1. PICK new \in Rows :
            /\ row[new].status = "unused"
            /\ row' = [row EXCEPT ![new] =
                  [user |-> p, level |-> "campus", principal |-> "campus" = "organization",
                   status |-> "active"]]
    BY AddedRow
  <1>2. \A m \in Rows : m # new => row'[m] = row[m]
    BY <1>1 DEF Types, TypeOK
  <1>3. row'[new].level = "campus" /\ row'[new].status = "active"
    <2>1. row'[new] = [user |-> p, level |-> "campus", principal |-> "campus" = "organization",
                       status |-> "active"]
      BY <1>1 DEF Types, TypeOK
    <2> QED BY <2>1
  <1>4. OnCampus' = OnCampus \cup {new} /\ new \notin OnCampus
    BY <1>1, <1>2, <1>3 DEF OnCampus, Live
  <1> QED BY <1>4, CountedSets, OneMore

\* A step on the invitations that takes one out of those that are pending.
LEMMA PendingShrinks ==
  ASSUME Types, NEW i \in Pending, NEW to \in {"accepted", "revoked", "gone"},
         link' = [link EXCEPT ![i].status = to]
  PROVE  /\ Cardinality(Pending') = Cardinality(Pending) - 1
         /\ Cardinality(Pending) >= 1
  <1>1. /\ link'[i].status = to
        /\ \A j \in Links : j # i => link'[j] = link[j]
    BY DEF Types, TypeOK, Invitation, Pending
  <1>2. Pending' = Pending \ {i}
    BY <1>1 DEF Pending
  <1> QED BY <1>2, CountedSets, OneLess

LEMMA PendingSame ==
  ASSUME Types, NEW i \in Links, i \notin Pending, NEW to \in {"accepted", "revoked", "gone"},
         link' = [link EXCEPT ![i].status = to]
  PROVE  Pending' = Pending
  <1>1. /\ link'[i].status = to
        /\ \A j \in Links : j # i => link'[j] = link[j]
    BY DEF Types, TypeOK, Invitation
  <1> QED BY <1>1 DEF Pending

\* The sweep gives back the seats of the invitations it expires.
LEMMA SweptSeats ==
  ASSUME Types, Balanced
  PROVE  /\ Released(Cardinality(Overdue)) =
               Cardinality(OnCampus) + Cardinality(Pending \ Overdue)
         /\ IsFiniteSet(Pending \ Overdue) /\ Cardinality(Pending \ Overdue) \in Nat
  <1>1. Pending \cap Overdue = Overdue
    BY CountedSets
  <1>2. /\ IsFiniteSet(Pending \ Overdue)
        /\ Cardinality(Pending \ Overdue) = Cardinality(Pending) - Cardinality(Overdue)
    BY <1>1, CountedSets, FS_Difference
  <1>3. Cardinality(Pending \ Overdue) \in Nat
    BY <1>2, FS_CardinalityType
  <1> QED BY <1>2, <1>3, CountedSets, OverdueFinite DEF Released, Balanced

LEMMA SeatsInvites ==
  ASSUME Types, Balanced, NEW r \in Requests, Invites(r)
  PROVE  Balanced'
  <1>1. PICK first \in Links :
           /\ link[first].status = "unused"
           /\ link' = [Swept EXCEPT ![first] = [email |-> request[r].on, status |-> "pending"]]
    BY DEF Invites
  <1>2. /\ link'[first].status = "pending"
        /\ \A i \in Links : i # first => link'[i] = Swept[i]
    BY <1>1, SweptType
  <1>3. \A i \in Links : /\ i \in Pending \ Overdue => Swept[i] = link[i]
                         /\ Swept[i].status \in {"pending", "overdue"}
                               => i \in Pending \ Overdue
    BY DEF Swept, Pending, Overdue, Types, TypeOK, Invitation
  <1>4. Pending' = (Pending \ Overdue) \cup {first} /\ first \notin Pending
    BY <1>1, <1>2, <1>3 DEF Pending, Overdue
  <1>5. Cardinality(Pending') = Cardinality(Pending \ Overdue) + 1
    BY <1>4, SweptSeats, OneMore
  <1>6. OnCampus' = OnCampus
    BY DEF Invites, OnCampus, Live
  <1>7. staff_count' = Released(Cardinality(Overdue)) + 1
    BY DEF Invites
  <1> QED BY <1>5, <1>6, <1>7, SweptSeats, CountedSets DEF Balanced

LEMMA SeatsAccepts ==
  ASSUME Types, Balanced, NEW r \in Requests, Accepts(r), ~stale'.seat
  PROVE  Balanced'
  <1>1. PICK i \in Links : i = request[r].on /\ link[i].email \in People
    BY DEF Types, AimedAt, Accepts, Named
  <1>2. i \in Pending
    BY <1>1 DEF Accepts, Types, TypeOK
  <1>3. Cardinality(OnCampus') = Cardinality(OnCampus) + 1
    BY <1>1, CampusGrows DEF Accepts
  <1>4. Cardinality(Pending') = Cardinality(Pending) - 1
    BY <1>1, <1>2, PendingShrinks DEF Accepts
  <1> QED BY <1>3, <1>4, CountedSets DEF Balanced, Accepts

LEMMA SeatsRevokes ==
  ASSUME Types, Balanced, NEW r \in Requests, Revokes(r), ~stale'.seat
  PROVE  Balanced'
  <1>1. PICK i \in Links : i = request[r].on
    BY DEF Types, AimedAt, Revokes
  <1>2. i \in Pending
    BY <1>1 DEF Revokes, MayRevoke, Types, TypeOK
  <1>3. OnCampus' = OnCampus
    BY DEF Revokes, OnCampus, Live
  <1>4. Cardinality(Pending') = Cardinality(Pending) - 1 /\ Cardinality(Pending) >= 1
    BY <1>1, <1>2, PendingShrinks DEF Revokes
  <1> QED BY <1>3, <1>4, CountedSets DEF Balanced, Revokes, Released

LEMMA SeatsDeletes ==
  ASSUME Types, Balanced, NEW r \in Requests, Deletes(r), ~stale'.seat
  PROVE  Balanced'
  <1>1. PICK i \in Links : i = request[r].on
    BY DEF Types, AimedAt, Deletes
  <1>2. request[r].held = (i \in Pending)
    BY <1>1 DEF Deletes, Types, TypeOK
  <1>3. OnCampus' = OnCampus
    BY DEF Deletes, OnCampus, Live
  <1>4. CASE i \in Pending
    <2>1. Cardinality(Pending') = Cardinality(Pending) - 1 /\ Cardinality(Pending) >= 1
      BY <1>1, <1>4, PendingShrinks DEF Deletes
    <2>2. staff_count' = Released(1)
      BY <1>2, <1>4 DEF Deletes, SeatOfDeleted
    <2> QED BY <1>3, <2>1, <2>2, CountedSets DEF Balanced, Released
  <1>5. CASE i \notin Pending
    <2>1. Pending' = Pending
      BY <1>1, <1>5, PendingSame DEF Deletes
    <2>2. staff_count' = staff_count
      BY <1>2, <1>5 DEF Deletes, SeatOfDeleted
    <2> QED BY <1>3, <2>1, <2>2 DEF Balanced
  <1> QED BY <1>4, <1>5

LEMMA SeatsCreates ==
  ASSUME Types, Balanced, NEW r \in Requests, Creates(r)
  PROVE  Balanced'
  <1>1. request[r].on \in People
    BY DEF Types, AimedAt, Creates
  <1>2. Cardinality(OnCampus') = Cardinality(OnCampus) + 1
    BY <1>1, CampusGrows DEF Creates
  <1>3. Pending' = Pending
    BY DEF Creates, Pending
  <1> QED BY <1>2, <1>3, CountedSets DEF Balanced, Creates

\* A flush that leaves a live membership live.
LEMMA CampusFlushedLive ==
  ASSUME Types, NEW m \in Rows, NEW read \in Membership, NEW new \in Membership,
         new.user = read.user, new.level = read.level,
         new.status \in {"active", "suspended"}, row' = Flush(m, read, new)
  PROVE  OnCampus' = OnCampus
  <1>1. \A n \in Rows : n # m => row'[n] = row[n]
    BY FlushedRow
  <1>2. CASE ~Live(m)
    <2>1. row' = row
      BY <1>2 DEF Flush
    <2> QED BY <2>1 DEF OnCampus, Live
  <1>3. CASE Live(m)
    <2>1. row' = [row EXCEPT ![m] = FlushOf(m, read, new)] /\ row \in [Rows -> Membership]
      BY <1>3, FlushedValue DEF Types, TypeOK
    <2>2. row'[m] = FlushOf(m, read, new)
      BY <2>1
    <2>3. row'[m].level = row[m].level /\ row'[m].status \in {"active", "suspended"}
      BY <2>2, <1>3 DEF FlushOf, Live
    <2> QED BY <1>1, <1>3, <2>3 DEF OnCampus, Live
  <1> QED BY <1>2, <1>3

LEMMA SeatsTakes ==
  ASSUME Types, Balanced, NEW r \in Requests, SeatRead(request[r]), Takes(r), ~stale'.seat
  PROVE  Balanced'
  <1>1. PICK m \in Rows, read \in Membership :
           m = request[r].on /\ read = request[r].read /\ read.status # "unused"
    BY DEF Types, AimedAt, Takes
  <1>2. Pending' = Pending
    BY DEF Takes, Pending
  <1>3. CASE request[r].op = "suspend"
    <2>1. PICK new \in Membership :
             /\ new = Taken("suspend", read) /\ new.user = read.user
             /\ new.level = read.level /\ new.status = "suspended"
      <3>1. Taken("suspend", read) \in Membership /\ Taken("suspend", read).user = read.user
        BY <1>1, TakenType
      <3>2. /\ Taken("suspend", read).level = read.level
            /\ Taken("suspend", read).status = "suspended"
        BY DEF Taken, Membership
      <3> QED BY <3>1, <3>2
    <2>2. row' = Flush(m, read, new) /\ staff_count' = staff_count
      BY <1>1, <1>3, <2>1 DEF Takes
    <2>3. OnCampus' = OnCampus
      BY <2>1, <2>2, CampusFlushedLive
    <2> QED BY <1>2, <2>2, <2>3 DEF Balanced
  <1>4. CASE request[r].op = "remove"
    <2>1. PICK new \in Membership :
             /\ new = Taken("remove", read) /\ new.user = read.user
             /\ new.status = "removed"
      <3>1. Taken("remove", read) \in Membership /\ Taken("remove", read).user = read.user
        BY <1>1, TakenType
      <3>2. Taken("remove", read).status = "removed"
        BY DEF Taken, Membership
      <3> QED BY <3>1, <3>2
    <2>2. row' = Flush(m, read, new) /\ staff_count' = Released(1)
      BY <1>1, <1>4, <2>1 DEF Takes
    <2>3. Live(m)
      BY <1>1, <1>4 DEF Takes, Types, TypeOK
    <2>4. m \in OnCampus /\ read.status \in {"active", "suspended"}
      BY <1>1, <1>4, <2>3 DEF SeatRead, OnCampus
    <2>5. row' = [row EXCEPT ![m] = FlushOf(m, read, new)] /\ row \in [Rows -> Membership]
      BY <2>1, <2>2, <2>3, FlushedValue DEF Types, TypeOK
    <2>6. row'[m].status = "removed" /\ \A n \in Rows : n # m => row'[n] = row[n]
      BY <2>1, <2>4, <2>5 DEF FlushOf
    <2>7. OnCampus' = OnCampus \ {m}
      BY <2>6 DEF OnCampus, Live
    <2>8. Cardinality(OnCampus') = Cardinality(OnCampus) - 1 /\ Cardinality(OnCampus) >= 1
      BY <2>4, <2>7, CountedSets, OneLess
    <2> QED BY <1>2, <2>2, <2>8, CountedSets DEF Balanced, Released
  <1>5. request[r].op \in {"remove", "suspend"}
    BY DEF Takes, SeatRead
  <1> QED BY <1>3, <1>4, <1>5

LEMMA SeatsReactivates ==
  ASSUME Types, Balanced, NEW r \in Requests, Reactivates(r)
  PROVE  Balanced'
  <1>1. PICK m \in Rows, read \in Membership : m = request[r].on /\ read = request[r].read
    BY DEF Types, AimedAt, Reactivates
  <1>2. PICK new \in Membership :
           /\ new = [read EXCEPT !.status = "active"] /\ new.user = read.user
           /\ new.level = read.level /\ new.status = "active"
    <2>1. /\ [read EXCEPT !.status = "active"] \in Membership
          /\ [read EXCEPT !.status = "active"].user = read.user
          /\ [read EXCEPT !.status = "active"].level = read.level
          /\ [read EXCEPT !.status = "active"].status = "active"
      BY DEF Membership
    <2> QED BY <2>1
  <1>3. row' = Flush(m, read, new)
    BY <1>1, <1>2 DEF Reactivates
  <1>4. OnCampus' = OnCampus
    BY <1>2, <1>3, CampusFlushedLive
  <1> QED BY <1>4 DEF Balanced, Pending, Reactivates

LEMMA SeatsTransfers ==
  ASSUME Types, Balanced, OneAtTheTop, ~stale.owner, NEW r \in Requests, Transfers(r),
         ~stale'.owner
  PROVE  Balanced'
  <1>1. PICK new \in Rows, p \in People :
            /\ owner' = p
            /\ row[new].status = "unused"
            /\ row'[new] = [user |-> p, level |-> "organization", principal |-> TRUE,
                            status |-> "active"]
            /\ \A m \in Rows \ {new} :
                  IF m \in AtTheTop THEN row'[m] = [row[m] EXCEPT !.status = "removed"]
                  ELSE row'[m] = row[m]
    BY TransferredTop
  <1>2. row'[new].level = "organization"
    <2>1. [user |-> p, level |-> "organization", principal |-> TRUE,
           status |-> "active"].level = "organization"
      OBVIOUS
    <2> QED BY <1>1, <2>1
  <1>3. \A m \in AtTheTop : row'[m].level = "organization"
    <2>1. ASSUME NEW m \in AtTheTop PROVE row'[m].level = "organization"
      <3>1. m \in Rows \ {new} /\ row[m] \in Membership /\ row[m].level = "organization"
        BY <1>1 DEF AtTheTop, Live, Types, TypeOK
      <3>2. row'[m] = [row[m] EXCEPT !.status = "removed"]
        BY <1>1, <3>1
      <3> QED BY <3>1, <3>2 DEF Membership
    <2> QED BY <2>1
  <1>4. \A m \in Rows \ {new} : m \notin AtTheTop => row'[m] = row[m]
    BY <1>1
  <1>5. OnCampus' = OnCampus
    BY <1>1, <1>2, <1>3, <1>4 DEF OnCampus, AtTheTop, Live
  <1> QED BY <1>5 DEF Balanced, Pending, Transfers

LEMMA SeatsLapse ==
  ASSUME Types, Balanced, NEW i \in Links, Lapses(i)
  PROVE  Balanced'
  <1>1. /\ link'[i].status = "overdue" /\ i \in Pending
        /\ \A j \in Links : j # i => link'[j] = link[j]
    BY DEF Lapses, Types, TypeOK, Invitation, Pending
  <1>2. Pending' = Pending
    BY <1>1 DEF Pending
  <1> QED BY <1>2 DEF Balanced, OnCampus, Live, Lapses

LEMMA SeatsSwept ==
  ASSUME Types, Balanced, Sweeps
  PROVE  Balanced'
  <1>1. Pending' = Pending \ Overdue
    BY DEF Sweeps, Swept, Pending, Overdue, Types, TypeOK, Invitation
  <1> QED BY <1>1, SweptSeats DEF Balanced, OnCampus, Live, Sweeps

LEMMA SeatsStep == ASSUME Types, OneAtTheTop, SeatsAreHeld, [Next]_vars PROVE SeatsAreHeld'
  <1>0. (stale.seat => stale'.seat) /\ (stale.owner => stale'.owner)
    <2>1. ASSUME NEW r \in Requests,
                 \/ \E p \in People : BeginsWithPerson(r, p)
                 \/ \E i \in Links : BeginsWithLink(r, i)
                 \/ \E m \in Rows : BeginsWithMember(r, m)
                 \/ BeginsWithRole(r)
          PROVE  stale' = stale
      BY <2>1 DEF BeginsWithPerson, BeginsWithLink, BeginsWithMember, BeginsWithRole, Begins
    <2>2. ASSUME NEW r \in Requests,
                 \/ Invites(r) \/ Creates(r) \/ Reactivates(r) \/ Loads(r) \/ Stores(r)
                 \/ Fails(r)
          PROVE  stale' = stale
      BY <2>2 DEF Invites, Creates, Reactivates, Loads, Stores, Fails
    <2>3. ASSUME NEW r \in Requests,
                 Accepts(r) \/ Revokes(r) \/ Deletes(r) \/ Takes(r) \/ Transfers(r) \/ Edits(r)
          PROVE  (stale.seat => stale'.seat) /\ (stale.owner => stale'.owner)
      BY <2>3 DEF Accepts, Revokes, Deletes, Takes, Transfers, Edits, Types, TypeOK
    <2>4. ASSUME \/ \E i \in Links : Lapses(i)
                 \/ Sweeps
                 \/ \E v \in DOMAIN cache : Evicts(v)
                 \/ UNCHANGED vars
          PROVE  stale' = stale
      BY <2>4 DEF Lapses, Sweeps, Evicts, vars
    <2> QED BY <2>1, <2>2, <2>3, <2>4 DEF Next
  <1>1. CASE stale'.seat \/ stale'.owner
    BY <1>1 DEF SeatsAreHeld
  <1>2. CASE ~stale'.seat /\ ~stale'.owner
    <2>1. Balanced /\ ~stale.owner
      BY <1>0, <1>2 DEF SeatsAreHeld, Balanced
    <2>2. \A r \in Requests : SeatRead(request[r])
      BY <2>1 DEF OneAtTheTop
    <2>3. ASSUME UNCHANGED <<row, link, staff_count>> PROVE Balanced'
      BY <2>1, <2>3 DEF Balanced, OnCampus, Live, Pending
    <2>4. ASSUME NEW r \in Requests,
                 \/ \E p \in People : BeginsWithPerson(r, p)
                 \/ \E i \in Links : BeginsWithLink(r, i)
                 \/ \E m \in Rows : BeginsWithMember(r, m)
                 \/ BeginsWithRole(r)
          PROVE  Balanced'
      BY <2>3, <2>4 DEF BeginsWithPerson, BeginsWithLink, BeginsWithMember, BeginsWithRole,
                        Begins
    <2>5. ASSUME NEW r \in Requests, Edits(r) \/ Loads(r) \/ Stores(r) \/ Fails(r)
          PROVE  Balanced'
      BY <2>3, <2>5 DEF Edits, Loads, Stores, Fails
    <2>6. ASSUME (\E v \in DOMAIN cache : Evicts(v)) \/ UNCHANGED vars
          PROVE  Balanced'
      BY <2>3, <2>6 DEF Evicts, vars
    <2>7. Balanced'
      BY <1>2, <2>1, <2>2, <2>4, <2>5, <2>6, SeatsInvites, SeatsAccepts, SeatsRevokes,
         SeatsDeletes, SeatsCreates, SeatsTakes, SeatsReactivates, SeatsTransfers, SeatsLapse,
         SeatsSwept DEF Next
    <2> QED BY <2>7 DEF Balanced, SeatsAreHeld
  <1> QED BY <1>1, <1>2

\* At the start there is a seat for each of the staff, and the founder has none.
LEMMA SeatsInit == ASSUME Init PROVE SeatsAreHeld /\ OneAtTheTop
  <1>1. PICK hired \in SUBSET (People \ {Founder}) :
           /\ Cardinality(hired) < MaxRows
           /\ \E at \in [hired -> 2..(Cardinality(hired) + 1)] :
                 /\ \A p, q \in hired : at[p] = at[q] => p = q
                 /\ row = [m \in Rows |->
                       IF m = 1 THEN [user |-> Founder, level |-> "organization",
                                      principal |-> TRUE, status |-> "active"]
                       ELSE IF m \in {at[p] : p \in hired}
                       THEN [user |-> CHOOSE p \in hired : at[p] = m, level |-> "campus",
                             principal |-> FALSE, status |-> "active"]
                       ELSE Unused]
           /\ staff_count = Cardinality(hired)
    BY DEF Init
  <1>2. IsFiniteSet(hired) /\ Cardinality(hired) \in Nat
    BY ConstantTypes, FS_Subset, FS_CardinalityType
  <1>3. PICK at \in [hired -> 2..(Cardinality(hired) + 1)] :
           /\ \A p, q \in hired : at[p] = at[q] => p = q
           /\ row = [m \in Rows |->
                 IF m = 1 THEN [user |-> Founder, level |-> "organization",
                                principal |-> TRUE, status |-> "active"]
                 ELSE IF m \in {at[p] : p \in hired}
                 THEN [user |-> CHOOSE p \in hired : at[p] = m, level |-> "campus",
                       principal |-> FALSE, status |-> "active"]
                 ELSE Unused]
    BY <1>1
  <1>4. /\ owner = Founder /\ link = [i \in Links |-> Unsent]
        /\ \A r \in Requests : request[r] = Idle
    BY DEF Init
  <1>5. PICK seats : seats = {at[p] : p \in hired}
    OBVIOUS
  <1>6. \A m \in seats : m \in Rows /\ m # 1
    BY <1>1, <1>2, <1>3, <1>5, ConstantTypes DEF Rows
  <1>7. 1 \in Rows => row[1] = [user |-> Founder, level |-> "organization", principal |-> TRUE,
                                status |-> "active"]
    BY <1>3
  <1>8. \A m \in Rows : m \in seats => /\ row[m].level = "campus" /\ ~row[m].principal
                                       /\ row[m].status = "active"
    BY <1>3, <1>5, <1>6
  <1>9. \A m \in Rows : m # 1 /\ m \notin seats => row[m] = Unused
    BY <1>3, <1>5
  <1>10. OnCampus = seats
    BY <1>6, <1>7, <1>8, <1>9 DEF OnCampus, Live, Unused
  <1>11. Cardinality(seats) = Cardinality(hired)
    <2>1. at \in Surjection(hired, seats)
      BY <1>3, <1>5 DEF Surjection
    <2>2. at \in Injection(hired, seats)
      BY <1>3, <1>5 DEF Injection, IsInjective
    <2> QED BY <1>2, <2>1, <2>2, FS_Surjection
  <1>12. Cardinality(Pending) = 0
    <2>1. Pending = {}
      BY <1>4 DEF Pending, Unsent
    <2> QED BY <2>1, FS_EmptySet
  <1>13. SeatsAreHeld
    BY <1>1, <1>2, <1>10, <1>11, <1>12 DEF SeatsAreHeld
  <1>14. RuledByOne
    BY <1>4, <1>7, <1>8, <1>9 DEF RuledByOne, AtTheTop, Live, Unused
  <1>15. \A r \in Requests : SeatRead(request[r])
    BY <1>4 DEF SeatRead, Idle
  <1> QED BY <1>13, <1>14, <1>15 DEF OneAtTheTop

\* The counter of seats is the members of the campus and the pending invitations, however
\* requests overlap, unless one gave back a seat of what another had changed, or two transfers
\* overlapped (billing/entitlements.py, check_and_consume and release).
THEOREM SeatsStayHeld == Spec => []SeatsAreHeld
  <1>1. Init => Types /\ SeatsAreHeld /\ OneAtTheTop
    BY InitTypes, SeatsInit
  <1>2. Types /\ SeatsAreHeld /\ OneAtTheTop /\ [Next]_vars
           => (Types /\ SeatsAreHeld /\ OneAtTheTop)'
    BY TypesStep, SeatsStep, TopStep
  <1> QED BY <1>1, <1>2, PTL DEF Spec

-----------------------------------------------------------------------------
(* Sessions: the invariant.                                                *)

\* A family is founded by a row, belongs to one person, and only one that exists is ended.
Rooted ==
    /\ ended \subseteq Used
    /\ \A t \in Used : session[t].person \in Holders /\ session[t].family \in Used
    /\ \A t, u \in Used : session[t].family = session[u].family
                          => session[t].person = session[u].person

\* What a request has read: the person signing in and no code of the future, or a row.
Asked == \A r \in Calls :
    /\ call[r].pc \in {"password", "code"} => call[r].person \in Holders
    /\ call[r].pc = "code" => call[r].code <= person[call[r].person].code
    /\ call[r].pc \in {"rotate", "reused", "expelled"} =>
          /\ call[r].row \in Used
          /\ call[r].person = session[call[r].row].person

\* A code that opened a session is spent, or another was sent since.
Spent == \A t \in Used :
    LET p == person[session[t].person]
    IN session[t].code <= p.code /\ (session[t].code = p.code /\ p.code # 0 => p.spent)

SessionsInv == SessionsTypeOK /\ Rooted /\ Asked /\ Spent /\ OnlyRacesSurvive

LEMMA SessionsConstants ==
  /\ Nobody \notin Holders /\ MaxFailures \in Nat \ {0} /\ MaxTries \in Nat \ {0}
  /\ MaxSessions \in Nat /\ MaxEvents \in Nat /\ SessionIds \subseteq Nat /\ 0 \notin SessionIds
  /\ SessionIds \subseteq 0..MaxSessions
BY SessionConstants DEF SessionConstants, SessionIds

LEMMA NoRequestType == NoRequest \in Call /\ NoRequest.pc = "idle"
BY SessionsConstants DEF NoRequest, Call

LEMMA Fields ==
  ASSUME SessionsTypeOK
  PROVE  /\ \A t \in SessionIds : /\ session[t] \in Session /\ session[t].era \in Nat
                                  /\ session[t].code \in Nat /\ session[t].family \in Nat
         /\ \A p \in Holders : /\ person[p] \in Person /\ person[p].era \in Nat
                               /\ person[p].code \in Nat
BY DEF SessionsTypeOK, Session, Person

-----------------------------------------------------------------------------
(* Rows that end, and rows that are added.                                 *)

\* Row t stays, or is ended.
Stays(t) == \/ session'[t] = session[t]
            \/ t \in LiveSessions /\ session'[t] = [session[t] EXCEPT !.state = "revoked"]

LEMMA StaysKeepsRow ==
  ASSUME SessionsTypeOK, NEW t \in SessionIds, Stays(t)
  PROVE  /\ session'[t] \in Session /\ session'[t].family = session[t].family
         /\ session'[t].person = session[t].person /\ session'[t].era = session[t].era
         /\ session'[t].code = session[t].code /\ session'[t].raced = session[t].raced
         /\ session'[t].state # "none" <=> session[t].state # "none"
         /\ session'[t].state = "live" => session[t].state = "live"
<1>1. session[t] \in Session
  BY Fields
<1>2. CASE session'[t] = session[t]
  BY <1>1, <1>2
<1>3. CASE t \in LiveSessions /\ session'[t] = [session[t] EXCEPT !.state = "revoked"]
  BY <1>1, <1>3 DEF Session, LiveSessions
<1> QED BY <1>2, <1>3 DEF Stays

\* Nobody's facts change except by a newer code, or a code that is spent.
PeopleStay == \A p \in Holders :
    /\ person'[p].kind = person[p].kind
    /\ \/ person'[p].code = person[p].code /\ (person[p].spent => person'[p].spent)
       \/ person'[p].code > person[p].code

\* Requests that are answered have read nothing; the others keep what they have read.
LEMMA AskedStays ==
  ASSUME SessionsInv, PeopleStay, SessionsTypeOK', Used \subseteq Used',
         \A t \in Used : session'[t].person = session[t].person,
         \A q \in Calls : call'[q] = call[q] \/ call'[q] = NoRequest
  PROVE  Asked'
<1> SUFFICES ASSUME NEW q \in Calls
             PROVE  /\ call'[q].pc \in {"password", "code"} => call'[q].person \in Holders
                    /\ call'[q].pc = "code"
                          => call'[q].code <= person'[call'[q].person].code
                    /\ call'[q].pc \in {"rotate", "reused", "expelled"} =>
                          /\ call'[q].row \in Used'
                          /\ call'[q].person = session'[call'[q].row].person
  BY DEF Asked
<1>1. CASE call'[q] = NoRequest
  BY <1>1, NoRequestType
<1>2. CASE call'[q] = call[q]
  <2>1. ASSUME call[q].pc = "code"
        PROVE  call[q].code <= person'[call[q].person].code
    <3>1. call[q].person \in Holders /\ call[q].code <= person[call[q].person].code
      BY <2>1 DEF SessionsInv, Asked
    <3>2. /\ person[call[q].person].code \in Nat /\ person'[call[q].person].code \in Nat
          /\ call[q].code \in Nat
      BY <3>1 DEF SessionsInv, SessionsTypeOK, Person, Call
    <3>3. person'[call[q].person].code >= person[call[q].person].code
      BY <3>1, <3>2 DEF PeopleStay
    <3> QED BY <3>1, <3>2, <3>3
  <2> QED BY <1>2, <2>1 DEF SessionsInv, Asked
<1> QED BY <1>1, <1>2

\* No row is added: what is live and told nothing wrong was so before.
LEMMA RowsKeep ==
  ASSUME SessionsInv, SessionsTypeOK', PeopleStay, \A t \in SessionIds : Stays(t),
         \A t \in Plain : session'[t].state = "live" =>
            /\ person'[session[t].person].era = person[session[t].person].era
            /\ session[t].family \in ended' =>
                  session[t].family \in ended \/ person[session[t].person].kind = "guardian",
         ended' \subseteq Used,
         \A q \in Calls : call'[q] = call[q] \/ call'[q] = NoRequest
  PROVE  SessionsInv'
<1>t. SessionsTypeOK
  BY DEF SessionsInv
<1>1. \A t \in SessionIds :
         /\ session'[t].family = session[t].family
         /\ session'[t].person = session[t].person /\ session'[t].era = session[t].era
         /\ session'[t].code = session[t].code /\ session'[t].raced = session[t].raced
         /\ session'[t].state # "none" <=> session[t].state # "none"
         /\ session'[t].state = "live" => session[t].state = "live"
  BY <1>t, StaysKeepsRow
<1>2. Used' = Used
  BY <1>1 DEF Used
<1>3. Rooted'
  BY <1>1, <1>2 DEF SessionsInv, Rooted, Used
<1>4. Asked'
  BY <1>1, <1>2, AskedStays DEF Used
<1>5. Spent'
  <2> SUFFICES ASSUME NEW t \in Used
               PROVE  LET p == person'[session[t].person]
                      IN session[t].code <= p.code
                         /\ (session[t].code = p.code /\ p.code # 0 => p.spent)
    BY <1>1, <1>2 DEF Spent, Used
  <2>1. /\ session[t].person \in Holders /\ t \in SessionIds
        /\ session[t].code <= person[session[t].person].code
        /\ session[t].code = person[session[t].person].code
           /\ person[session[t].person].code # 0 => person[session[t].person].spent
    BY DEF SessionsInv, Rooted, Spent, Used
  <2>2. /\ session[t].code \in Nat /\ person[session[t].person].code \in Nat
        /\ person'[session[t].person].code \in Nat
    BY <2>1, <1>t, Fields DEF SessionsTypeOK, Person
  <2>3. CASE person'[session[t].person].code = person[session[t].person].code
             /\ (person[session[t].person].spent => person'[session[t].person].spent)
    BY <2>1, <2>3
  <2>4. CASE person'[session[t].person].code > person[session[t].person].code
    BY <2>1, <2>2, <2>4
  <2> QED BY <2>1, <2>3, <2>4 DEF PeopleStay
<1>6. Plain' \subseteq Plain /\ \A t \in Plain' : t \in Used /\ session'[t].state = "live"
  BY <1>1 DEF Plain, LiveSessions, Used
<1>7. OnlyRacesSurvive'
  <2> SUFFICES ASSUME NEW t \in Plain'
               PROVE  /\ session'[t].era = person'[session'[t].person].era
                      /\ person'[session'[t].person].kind # "guardian"
                            => session'[t].family \notin ended'
                      /\ \A u \in Plain' :
                            \/ session'[u].family = session'[t].family
                            \/ session'[u].person = session'[t].person /\ session'[t].code # 0
                                  /\ session'[u].code = session'[t].code
                            => u = t
    BY DEF OnlyRacesSurvive
  <2>1. t \in Plain /\ t \in SessionIds /\ session[t].person \in Holders
    BY <1>6 DEF SessionsInv, Rooted, Used
  <2>2. /\ session[t].era = person[session[t].person].era
        /\ person[session[t].person].kind # "guardian" => session[t].family \notin ended
        /\ \A u \in Plain :
              \/ session[u].family = session[t].family
              \/ session[u].person = session[t].person /\ session[t].code # 0
                    /\ session[u].code = session[t].code
              => u = t
    BY <2>1 DEF SessionsInv, OnlyRacesSurvive
  <2>3. /\ person'[session[t].person].era = person[session[t].person].era
        /\ session[t].family \in ended' =>
              session[t].family \in ended \/ person[session[t].person].kind = "guardian"
    BY <1>6, <2>1
  <2>4. /\ session'[t].era = person'[session'[t].person].era
        /\ person'[session'[t].person].kind # "guardian" => session'[t].family \notin ended'
    BY <1>1, <2>1, <2>2, <2>3 DEF PeopleStay
  <2>5. \A u \in Plain' : u \in Plain /\ u \in SessionIds
    BY <1>6 DEF Used
  <2> QED BY <1>1, <2>1, <2>2, <2>4, <2>5
<1> QED BY <1>3, <1>4, <1>5, <1>7 DEF SessionsInv

\* A row is added after the others, for a person who exists.
Adds(n) == /\ n \in SessionIds /\ Fresh(n)
           /\ \A t \in SessionIds \ {n} : Stays(t)
           /\ session'[n].state = "live" /\ session'[n].person \in Holders

LEMMA AddsRow ==
  ASSUME SessionsInv, NEW n, Adds(n)
  PROVE  /\ Used' = Used \cup {n} /\ n \notin Used
         /\ \A t \in Used : t # n
         /\ \A t \in SessionIds : t # n =>
               /\ session'[t].family = session[t].family
               /\ session'[t].person = session[t].person /\ session'[t].era = session[t].era
               /\ session'[t].code = session[t].code /\ session'[t].raced = session[t].raced
               /\ session'[t].state # "none" <=> session[t].state # "none"
               /\ session'[t].state = "live" => session[t].state = "live"
<1>t. SessionsTypeOK
  BY DEF SessionsInv
<1>1. \A t \in SessionIds : t # n =>
               /\ session'[t].family = session[t].family
               /\ session'[t].person = session[t].person /\ session'[t].era = session[t].era
               /\ session'[t].code = session[t].code /\ session'[t].raced = session[t].raced
               /\ session'[t].state # "none" <=> session[t].state # "none"
               /\ session'[t].state = "live" => session[t].state = "live"
  BY <1>t, StaysKeepsRow DEF Adds
<1>2. n \notin Used /\ n \in SessionIds
  <2>1. n \in Nat
    BY SessionsConstants DEF Adds
  <2>2. Used = 1..(n - 1)
    BY DEF Adds, Fresh
  <2> QED BY <2>1, <2>2 DEF Adds
<1>3. Used' = Used \cup {n}
  BY <1>1, <1>2 DEF Used, Adds
<1> QED BY <1>1, <1>2, <1>3

\* Nothing that matters about a person changes when a row is added, but a code is spent.
SamePeople == \A p \in Holders : /\ person'[p].kind = person[p].kind
                                 /\ person'[p].era = person[p].era
                                 /\ person'[p].code = person[p].code
                                 /\ person[p].spent => person'[p].spent

\* The row that is added is of a new family, or continues the one of row t.
NewFamily(n) ==
    LET p == session'[n].person
    IN /\ session'[n].family = n
       /\ ~session'[n].raced =>
             /\ session'[n].era = person[p].era
             /\ session'[n].code # 0 => session'[n].code = person[p].code /\ ~person[p].spent
Continues(n, t) ==
    /\ t \in Used
    /\ session'[n].family = session[t].family /\ session'[n].person = session[t].person
    /\ session'[n].era = session[t].era /\ session'[n].code = session[t].code
    /\ session'[t].state # "live"
    /\ ~session'[n].raced => t \in Plain

\* What a session promises, for itself and beside another.
Alone(s, p, over) == /\ s.era = p.era
                     /\ p.kind # "guardian" => s.family \notin over
Related(s, u) == \/ u.family = s.family
                 \/ u.person = s.person /\ s.code # 0 /\ u.code = s.code

LEMMA AddKeeps ==
  ASSUME SessionsInv, SessionsTypeOK', SamePeople, NEW n, Adds(n), UNCHANGED ended,
         NewFamily(n) \/ \E t : Continues(n, t),
         LET p == session'[n].person
         IN session'[n].code <= person'[p].code
            /\ (session'[n].code = person'[p].code /\ person'[p].code # 0 => person'[p].spent),
         \A q \in Calls : call'[q] = call[q] \/ call'[q] = NoRequest
  PROVE  SessionsInv'
<1>t. SessionsTypeOK
  BY DEF SessionsInv
<1>1. /\ Used' = Used \cup {n} /\ n \notin Used /\ n \in SessionIds
      /\ \A t \in SessionIds : t # n =>
               /\ session'[t].family = session[t].family
               /\ session'[t].person = session[t].person /\ session'[t].era = session[t].era
               /\ session'[t].code = session[t].code /\ session'[t].raced = session[t].raced
               /\ session'[t].state # "none" <=> session[t].state # "none"
               /\ session'[t].state = "live" => session[t].state = "live"
  BY AddsRow DEF Adds
<1>2. \A t \in Used : /\ t \in SessionIds /\ t # n
                      /\ session[t].person \in Holders /\ session[t].family \in Used
  BY <1>1 DEF SessionsInv, Rooted, Used
<1>3. Rooted'
  <2>1. \A t \in Used' : session'[t].person \in Holders /\ session'[t].family \in Used'
    BY <1>1, <1>2 DEF NewFamily, Continues, Adds
  <2>2. ASSUME NEW t \in Used, session[t].family = session'[n].family
        PROVE  session[t].person = session'[n].person
    BY <1>1, <1>2, <2>2 DEF NewFamily, Continues, SessionsInv, Rooted
  <2>3. ended' \subseteq Used'
    BY <1>1 DEF SessionsInv, Rooted
  <2>4. \A t, u \in Used' : session'[t].family = session'[u].family
                            => session'[t].person = session'[u].person
    BY <1>1, <1>2, <2>2 DEF SessionsInv, Rooted
  <2> QED BY <2>1, <2>3, <2>4 DEF Rooted
<1>4. Asked'
  <2>1. PeopleStay
    BY DEF SamePeople, PeopleStay
  <2> QED BY <2>1, <1>1, <1>2, AskedStays
<1>5. Spent'
  <2>1. ASSUME NEW t \in Used
        PROVE  LET p == person'[session'[t].person]
               IN session'[t].code <= p.code
                  /\ (session'[t].code = p.code /\ p.code # 0 => p.spent)
    BY <1>1, <1>2 DEF SessionsInv, Spent, SamePeople
  <2> QED BY <2>1, <1>1 DEF Spent
<1>6. \A t \in Plain' : t \in SessionIds /\ (t = n \/ t \in Plain)
  BY <1>1 DEF Plain, LiveSessions
\* The row that is added.
<1>7. ASSUME n \in Plain'
      PROVE  /\ Alone(session'[n], person'[session'[n].person], ended)
             /\ \A u \in Plain' : Related(session'[n], session'[u]) => u = n
  <2>1. ~session'[n].raced /\ session'[n].person \in Holders
    BY <1>7 DEF Plain, Adds
  <2>2. CASE NewFamily(n)
    <3>1. Alone(session'[n], person'[session'[n].person], ended)
      BY <1>1, <2>1, <2>2 DEF NewFamily, Alone, SamePeople, SessionsInv, Rooted
    <3>2. ASSUME NEW u \in Plain, u # n, Related(session'[n], session'[u]) PROVE FALSE
      <4>1. u \in Used /\ u \in SessionIds
        BY DEF Plain, LiveSessions, Used
      <4>2. session'[u].family # session'[n].family
        BY <1>1, <1>2, <4>1, <2>2 DEF NewFamily
      <4>3. /\ session[u].person = session'[n].person /\ session'[n].code # 0
            /\ session[u].code = session'[n].code
        BY <1>1, <3>2, <4>1, <4>2 DEF Related
      <4>4. session'[n].code = person[session'[n].person].code /\ ~person[session'[n].person].spent
        BY <2>1, <2>2, <4>3 DEF NewFamily
      <4> QED BY <4>1, <4>3, <4>4 DEF SessionsInv, Spent
    <3> QED BY <1>6, <3>1, <3>2
  <2>3. ASSUME NEW t, Continues(n, t)
        PROVE  /\ Alone(session'[n], person'[session'[n].person], ended)
               /\ \A u \in Plain' : Related(session'[n], session'[u]) => u = n
    <3>1. /\ t \in Plain /\ t \in SessionIds /\ t # n
          /\ session'[n].family = session[t].family /\ session'[n].person = session[t].person
          /\ session'[n].era = session[t].era /\ session'[n].code = session[t].code
          /\ t \notin Plain'
      BY <1>2, <2>1, <2>3 DEF Continues, Plain, LiveSessions
    <3>2. /\ session[t].era = person[session[t].person].era
          /\ person[session[t].person].kind # "guardian" => session[t].family \notin ended
          /\ \A u \in Plain :
                \/ session[u].family = session[t].family
                \/ session[u].person = session[t].person /\ session[t].code # 0
                      /\ session[u].code = session[t].code
                => u = t
      BY <3>1 DEF SessionsInv, OnlyRacesSurvive
    <3>3. Alone(session'[n], person'[session'[n].person], ended)
      BY <2>1, <3>1, <3>2 DEF Alone, SamePeople
    <3>4. ASSUME NEW u \in Plain', u # n, Related(session'[n], session'[u]) PROVE FALSE
      <4>1. u \in Plain /\ u \in SessionIds /\ u # t
        BY <1>6, <3>1, <3>4
      <4> QED BY <1>1, <3>1, <3>2, <3>4, <4>1 DEF Related
    <3> QED BY <3>3, <3>4
  <2> QED BY <2>2, <2>3
\* The rows that were there.
<1>8. ASSUME NEW t \in Plain', t # n
      PROVE  /\ Alone(session'[t], person'[session'[t].person], ended)
             /\ \A u \in Plain' : Related(session'[t], session'[u]) => u = t
  <2>1. t \in Plain /\ t \in SessionIds /\ session[t].person \in Holders
    BY <1>2, <1>6, <1>8 DEF Plain, LiveSessions, Used
  <2>2. /\ session[t].era = person[session[t].person].era
        /\ person[session[t].person].kind # "guardian" => session[t].family \notin ended
        /\ \A u \in Plain :
              \/ session[u].family = session[t].family
              \/ session[u].person = session[t].person /\ session[t].code # 0
                    /\ session[u].code = session[t].code
              => u = t
    BY <2>1 DEF SessionsInv, OnlyRacesSurvive
  <2>3. Alone(session'[t], person'[session'[t].person], ended)
    BY <1>1, <1>8, <2>1, <2>2 DEF Alone, SamePeople
  <2>4. ASSUME NEW u \in Plain', Related(session'[t], session'[u]) PROVE u = t
    <3>1. CASE u # n
      <4>1. u \in Plain /\ u \in SessionIds
        BY <1>6, <3>1
      <4> QED BY <1>1, <1>8, <2>1, <2>2, <2>4, <3>1, <4>1 DEF Related
    <3>2. CASE u = n
      <4>1. Related(session'[n], session'[t])
        BY <2>4, <3>2 DEF Related
      <4> QED BY <1>7, <1>8, <2>4, <3>2, <4>1
    <3> QED BY <3>1, <3>2
  <2> QED BY <2>3, <2>4
<1>9. OnlyRacesSurvive'
  <2> SUFFICES ASSUME NEW t \in Plain'
               PROVE  /\ session'[t].era = person'[session'[t].person].era
                      /\ person'[session'[t].person].kind # "guardian"
                            => session'[t].family \notin ended
                      /\ \A u \in Plain' :
                            \/ session'[u].family = session'[t].family
                            \/ session'[u].person = session'[t].person /\ session'[t].code # 0
                                  /\ session'[u].code = session'[t].code
                            => u = t
    BY DEF OnlyRacesSurvive
  <2>1. /\ Alone(session'[t], person'[session'[t].person], ended)
        /\ \A u \in Plain' : Related(session'[t], session'[u]) => u = t
    BY <1>7, <1>8
  <2> QED BY <2>1 DEF Alone, Related
<1> QED BY <1>3, <1>4, <1>5, <1>9 DEF SessionsInv

-----------------------------------------------------------------------------
(* What the operations make of a person.                                   *)

\* One person's row is rewritten.
LEMMA PersonWritten ==
  ASSUME SessionsTypeOK, NEW p \in Holders, NEW new \in Person,
         person' = [person EXCEPT ![p] = new],
         new.kind = person[p].kind,
         \/ new.code = person[p].code /\ (person[p].spent => new.spent)
         \/ new.code > person[p].code
  PROVE  /\ person' \in [Holders -> Person] /\ PeopleStay
         /\ person'[p] = new /\ \A q \in Holders : q # p => person'[q] = person[q]
BY DEF SessionsTypeOK, PeopleStay

LEMMA FailedWritten ==
  ASSUME SessionsTypeOK, NEW p \in Holders, NEW f \in 0..(MaxFailures - 1), NEW locked \in BOOLEAN
  PROVE  LET new == [person[p] EXCEPT !.failed = f, !.locked = locked]
         IN /\ new \in Person /\ new.kind = person[p].kind /\ new.era = person[p].era
            /\ new.code = person[p].code /\ (person[p].spent => new.spent)
<1> person[p] \in Person
  BY Fields
<1> QED BY DEF Person

LEMMA CodeWrittenType ==
  ASSUME SessionsTypeOK, NEW r \in Calls, call[r].person \in Holders, NEW over \in BOOLEAN
  PROVE  LET p == call[r].person
             new == CodeWritten(p, r, over)
         IN /\ new \in Person /\ new.kind = person[p].kind /\ new.era = person[p].era
            /\ new.code = person[p].code /\ (person[p].spent => new.spent)
            /\ over /\ person[p].code = call[r].code => new.spent
<1> DEFINE p == call[r].person
           new == CodeWritten(p, r, over)
<1>1. person[p] \in Person /\ call[r].count \in Nat
  BY Fields DEF SessionsTypeOK, Call
<1>2. PICK spent \in BOOLEAN : spent = (person[p].spent \/ over)
  OBVIOUS
<1>3. new = IF person[p].code = call[r].code
            THEN [person[p] EXCEPT !.tries = call[r].count, !.spent = spent] ELSE person[p]
  BY <1>2 DEF CodeWritten
<1>4. CASE person[p].code = call[r].code
  <2>1. new = [person[p] EXCEPT !.tries = call[r].count, !.spent = spent]
    BY <1>3, <1>4
  <2> HIDE DEF new, p
  <2>2. /\ new \in Person /\ new.kind = person[p].kind /\ new.era = person[p].era
        /\ new.code = person[p].code
    BY <1>1, <2>1 DEF Person
  <2>3. new.spent = spent
    BY <1>1, <2>1 DEF Person
  <2>4. (person[p].spent => new.spent) /\ (over => new.spent)
    BY <1>2, <2>3
  <2> QED BY <2>2, <2>4 DEF new, p
<1>5. CASE person[p].code # call[r].code
  BY <1>1, <1>3, <1>5
<1> QED BY <1>4, <1>5

-----------------------------------------------------------------------------
(* The operations.                                                         *)

\* A request reads, and what it has read is so.
LEMMA ReadKeeps ==
  ASSUME SessionsInv, NEW r \in Calls, NEW q \in Call, UNCHANGED <<session, person, ended, events>>,
         call' = [call EXCEPT ![r] = q],
         q.pc \in {"password", "code"} => q.person \in Holders,
         q.pc = "code" => q.code <= person[q.person].code,
         q.pc \in {"rotate", "reused", "expelled"} =>
            q.row \in Used /\ q.person = session[q.row].person
  PROVE  SessionsInv'
<1>1. SessionsTypeOK'
  BY DEF SessionsInv, SessionsTypeOK
<1>2. call'[r] = q /\ \A x \in Calls : x # r => call'[x] = call[x]
  BY DEF SessionsInv, SessionsTypeOK
<1>3. Used' = Used /\ Plain' = Plain
  BY DEF Used, Plain, LiveSessions
<1>4. Asked'
  BY <1>2, <1>3 DEF SessionsInv, Asked
<1>5. Rooted' /\ Spent' /\ OnlyRacesSurvive'
  BY <1>3 DEF SessionsInv, Rooted, Spent, OnlyRacesSurvive
<1> QED BY <1>1, <1>4, <1>5 DEF SessionsInv

LEMMA AnsweredType ==
  ASSUME SessionsTypeOK, NEW r \in Calls, Answered(r)
  PROVE  /\ call' \in [Calls -> Call]
         /\ \A q \in Calls : call'[q] = call[q] \/ call'[q] = NoRequest
BY NoRequestType DEF SessionsTypeOK, Answered

LEMMA ReadsKeep ==
  ASSUME SessionsInv, NEW r \in Calls,
         \/ \E p \in Holders : PasswordReads(r, p) \/ CodeReads(r, p)
         \/ \E t \in SessionIds : RefreshReads(r, t) \/ SwitchReads(r, t)
  PROVE  SessionsInv'
<1>t. SessionsTypeOK
  BY DEF SessionsInv
<1>i. /\ NoRequest \in Call /\ NoRequest.pc = "idle"
      /\ \A p \in Holders : p \in Holders \cup {Nobody}
  BY NoRequestType
<1>1. ASSUME NEW p \in Holders, PasswordReads(r, p) PROVE SessionsInv'
  <2> DEFINE q == [NoRequest EXCEPT !.pc = "password", !.person = p, !.count = person[p].failed,
                                    !.era = person[p].era]
  <2>1. person[p].failed \in Nat /\ person[p].era \in Nat
    BY <1>t, SessionsConstants DEF SessionsTypeOK, Person
  <2>2. q \in Call /\ q.pc = "password" /\ q.person = p
    BY <1>i, <2>1 DEF Call
  <2>3. call' = [call EXCEPT ![r] = q] /\ UNCHANGED <<session, person, ended, events>>
    BY <1>1 DEF PasswordReads
  <2> HIDE DEF q
  <2> QED BY <2>2, <2>3, ReadKeeps
<1>2. ASSUME NEW p \in Holders, CodeReads(r, p) PROVE SessionsInv'
  <2> DEFINE q == [NoRequest EXCEPT !.pc = "code", !.person = p, !.count = person[p].tries + 1,
                                    !.era = person[p].era, !.code = person[p].code]
  <2>1. person[p].tries + 1 \in Nat /\ person[p].era \in Nat /\ person[p].code \in Nat
    BY <1>t DEF SessionsTypeOK, Person
  <2>2. q \in Call /\ q.pc = "code" /\ q.person = p /\ q.code = person[p].code
    BY <1>i, <2>1 DEF Call
  <2>3. call' = [call EXCEPT ![r] = q] /\ UNCHANGED <<session, person, ended, events>>
    BY <1>2 DEF CodeReads
  <2> HIDE DEF q
  <2>4. q.code <= person[q.person].code
    BY <2>1, <2>2
  <2> QED BY <2>2, <2>3, <2>4, ReadKeeps
<1>3. ASSUME NEW t \in SessionIds, RefreshReads(r, t) \/ SwitchReads(r, t) PROVE SessionsInv'
  <2>1. t \in Used
    BY <1>3 DEF RefreshReads, SwitchReads, Used, LiveSessions
  <2>2. session[t].person \in Holders /\ t \in 0..MaxSessions
    BY <2>1, SessionsConstants DEF SessionsInv, Rooted
  <2>3. PICK pc \in {"reused", "rotate", "expelled"} :
          call' = [call EXCEPT ![r] = [NoRequest EXCEPT !.row = t,
                                                !.person = session[t].person, !.pc = pc]]
    BY <1>3 DEF RefreshReads, SwitchReads
  <2> DEFINE q == [NoRequest EXCEPT !.row = t, !.person = session[t].person, !.pc = pc]
  <2>4. q \in Call /\ q.pc = pc /\ q.row = t /\ q.person = session[t].person
    BY <1>i, <2>2 DEF Call
  <2>5. call' = [call EXCEPT ![r] = q] /\ UNCHANGED <<session, person, ended, events>>
    BY <1>3, <2>3 DEF RefreshReads, SwitchReads
  <2> HIDE DEF q
  <2> QED BY <2>1, <2>4, <2>5, ReadKeeps
<1> QED BY <1>1, <1>2, <1>3

\* The rows of sessions stay as they are.
LEMMA PeopleKeep ==
  ASSUME SessionsInv, UNCHANGED <<session, ended>>, PeopleStay, person' \in [Holders -> Person],
         \A p \in Holders : person'[p].era = person[p].era,
         events' \in 0..MaxEvents, call' \in [Calls -> Call],
         \A q \in Calls : call'[q] = call[q] \/ call'[q] = NoRequest
  PROVE  SessionsInv'
<1>1. SessionsTypeOK'
  BY DEF SessionsInv, SessionsTypeOK
<1>2. \A t \in SessionIds : Stays(t)
  BY DEF Stays
<1>3. \A t \in Plain : session[t].person \in Holders
  BY DEF SessionsInv, Rooted, Plain, LiveSessions, Used
<1>4. ended' \subseteq Used
  BY DEF SessionsInv, Rooted
<1>5. \A t \in Plain : session'[t].state = "live" =>
            /\ person'[session[t].person].era = person[session[t].person].era
            /\ session[t].family \in ended' =>
                  session[t].family \in ended \/ person[session[t].person].kind = "guardian"
  BY <1>3
<1> QED BY <1>1, <1>2, <1>4, <1>5, RowsKeep

\* A wrong password, a wrong code, the end of a lock, a code sent, an access turned off or
\* on, and a request that is abandoned.
LEMMA PasswordFailsKeeps ==
  ASSUME SessionsInv, NEW r \in Calls, PasswordFails(r)
  PROVE  SessionsInv'
<1> DEFINE p == call[r].person
           count == call[r].count + 1
<1>t. SessionsTypeOK /\ events' \in 0..MaxEvents
  BY DEF SessionsInv, SessionsTypeOK, PasswordFails
<1>1. p \in Holders /\ call[r].count \in Nat
  BY DEF SessionsInv, Asked, PasswordFails, SessionsTypeOK, Call
<1>2. PICK f \in 0..(MaxFailures - 1) : f = IF count >= MaxFailures THEN 0 ELSE count
  <2>1. count >= MaxFailures \/ count \in 0..(MaxFailures - 1)
    BY <1>1, SessionsConstants
  <2>2. 0 \in 0..(MaxFailures - 1)
    BY SessionsConstants
  <2> QED BY <2>1, <2>2
<1>3. PICK locked \in BOOLEAN : locked = (person[p].locked \/ count >= MaxFailures)
  OBVIOUS
<1> DEFINE new == [person[p] EXCEPT !.failed = f, !.locked = locked]
<1>4. person' = [person EXCEPT ![p] = new]
  BY <1>2, <1>3 DEF PasswordFails
<1>5. /\ new \in Person /\ new.kind = person[p].kind /\ new.era = person[p].era
      /\ new.code = person[p].code /\ (person[p].spent => new.spent)
  BY <1>t, <1>1, FailedWritten
<1>6. Answered(r) /\ UNCHANGED <<session, ended>>
  BY DEF PasswordFails
<1> HIDE DEF new, p
<1>7. /\ person' \in [Holders -> Person] /\ PeopleStay
      /\ person'[p] = new /\ \A q \in Holders : q # p => person'[q] = person[q]
  BY <1>t, <1>1, <1>4, <1>5, PersonWritten
<1>8. /\ call' \in [Calls -> Call]
      /\ \A q \in Calls : call'[q] = call[q] \/ call'[q] = NoRequest
  BY <1>t, <1>6, AnsweredType
<1> QED BY <1>t, <1>5, <1>6, <1>7, <1>8, PeopleKeep

LEMMA CodeFailsKeeps ==
  ASSUME SessionsInv, NEW r \in Calls, CodeFails(r)
  PROVE  SessionsInv'
<1> DEFINE p == call[r].person
<1>t. SessionsTypeOK /\ events' \in 0..MaxEvents
  BY DEF SessionsInv, SessionsTypeOK, CodeFails
<1>1. p \in Holders
  BY DEF SessionsInv, Asked, CodeFails
<1>2. PICK over \in BOOLEAN : over = (call[r].count > MaxTries)
  <2>1. (call[r].count > MaxTries) \in BOOLEAN
    BY <1>t, SessionsConstants DEF SessionsTypeOK, Call
  <2> QED BY <2>1
<1> DEFINE w == CodeWritten(p, r, over)
<1>3. /\ w \in Person /\ w.kind = person[p].kind /\ w.era = person[p].era
      /\ w.code = person[p].code /\ (person[p].spent => w.spent)
  BY <1>t, <1>1, CodeWrittenType
<1>4. person' = [person EXCEPT ![p] = [w EXCEPT !.locked = @ \/ over]]
  BY <1>2 DEF CodeFails
<1> HIDE DEF w, p
<1>5. PICK locked \in BOOLEAN : locked = (w.locked \/ over)
  OBVIOUS
<1> DEFINE new == [w EXCEPT !.locked = locked]
<1>6. person' = [person EXCEPT ![p] = new]
  BY <1>4, <1>5
<1>7. /\ new \in Person /\ new.kind = person[p].kind /\ new.era = person[p].era
      /\ new.code = person[p].code /\ (person[p].spent => new.spent)
  BY <1>3 DEF Person
<1>8. Answered(r) /\ UNCHANGED <<session, ended>>
  BY DEF CodeFails
<1> HIDE DEF new
<1>9. /\ person' \in [Holders -> Person] /\ PeopleStay
      /\ person'[p] = new /\ \A q \in Holders : q # p => person'[q] = person[q]
  BY <1>t, <1>1, <1>6, <1>7, PersonWritten
<1>10. /\ call' \in [Calls -> Call]
       /\ \A q \in Calls : call'[q] = call[q] \/ call'[q] = NoRequest
  BY <1>t, <1>8, AnsweredType
<1> QED BY <1>t, <1>7, <1>8, <1>9, <1>10, PeopleKeep

LEMMA PersonChanges ==
  ASSUME SessionsInv, NEW p \in Holders, LockEnds(p) \/ RequestCode(p) \/ SetAccess(p)
  PROVE  SessionsInv'
<1>t. SessionsTypeOK /\ call' \in [Calls -> Call] /\ events' \in 0..MaxEvents
  BY SessionsConstants DEF SessionsInv, SessionsTypeOK, LockEnds, RequestCode, SetAccess, Event
<1>p. person[p] \in Person /\ person[p].code \in Nat
  BY <1>t, Fields
<1>1. PICK new \in Person :
        /\ person' = [person EXCEPT ![p] = new]
        /\ new.kind = person[p].kind /\ new.era = person[p].era
        /\ \/ new.code = person[p].code /\ (person[p].spent => new.spent)
           \/ new.code > person[p].code
  <2>1. CASE LockEnds(p)
    <3> DEFINE new == [person[p] EXCEPT !.locked = FALSE]
    <3>1. person' = [person EXCEPT ![p] = new]
      BY <2>1 DEF LockEnds
    <3>2. /\ new \in Person /\ new.kind = person[p].kind /\ new.era = person[p].era
          /\ new.code = person[p].code /\ (person[p].spent => new.spent)
      BY <1>p DEF Person
    <3> HIDE DEF new
    <3> QED BY <3>1, <3>2
  <2>2. CASE RequestCode(p)
    <3> DEFINE new == [person[p] EXCEPT !.code = @ + 1, !.spent = FALSE, !.tries = 0]
    <3>1. person' = [person EXCEPT ![p] = new]
      BY <1>t, <2>2 DEF RequestCode, SessionsTypeOK
    <3>2. person[p].code + 1 \in Nat /\ person[p].code + 1 > person[p].code
      BY <1>p
    <3>3. /\ new \in Person /\ new.kind = person[p].kind /\ new.era = person[p].era
          /\ new.code = person[p].code + 1
      BY <1>p, <3>2 DEF Person
    <3> HIDE DEF new
    <3> QED BY <3>1, <3>2, <3>3
  <2>3. CASE SetAccess(p)
    <3>1. PICK allowed \in BOOLEAN : allowed = ~person[p].allowed
      OBVIOUS
    <3> DEFINE new == [person[p] EXCEPT !.allowed = allowed]
    <3>2. person' = [person EXCEPT ![p] = new]
      BY <2>3, <3>1 DEF SetAccess
    <3>3. /\ new \in Person /\ new.kind = person[p].kind /\ new.era = person[p].era
          /\ new.code = person[p].code /\ (person[p].spent => new.spent)
      BY <1>p DEF Person
    <3> HIDE DEF new
    <3> QED BY <3>2, <3>3
  <2> QED BY <2>1, <2>2, <2>3
<1>2. /\ person' \in [Holders -> Person] /\ PeopleStay
      /\ person'[p] = new /\ \A q \in Holders : q # p => person'[q] = person[q]
  BY <1>t, <1>1, PersonWritten
<1>3. UNCHANGED <<session, ended, call>>
  BY DEF LockEnds, RequestCode, SetAccess
<1> QED BY <1>t, <1>1, <1>2, <1>3, PeopleKeep

LEMMA AbandonKeeps ==
  ASSUME SessionsInv, NEW r \in Calls, Abandon(r)
  PROVE  SessionsInv'
<1>1. /\ call' \in [Calls -> Call]
      /\ \A q \in Calls : call'[q] = call[q] \/ call'[q] = NoRequest
  BY AnsweredType DEF Abandon, SessionsInv
<1>2. UNCHANGED <<session, person, ended, events>>
  BY DEF Abandon
<1>3. PeopleStay /\ person' \in [Holders -> Person] /\ events' \in 0..MaxEvents
  BY <1>2 DEF PeopleStay, SessionsInv, SessionsTypeOK
<1> QED BY <1>1, <1>2, <1>3, PeopleKeep

\* Rows are revoked: each stays or is ended, and none that was named is live.
LEMMA RevokedRows ==
  ASSUME SessionsTypeOK, NEW S, session' = Revoked(S)
  PROVE  /\ session' \in [SessionIds -> Session] /\ \A t \in SessionIds : Stays(t)
         /\ \A t \in SessionIds \cap S : session'[t].state # "live"
<1>1. \A t \in SessionIds : session'[t] = IF t \in S \cap LiveSessions
                                          THEN [session[t] EXCEPT !.state = "revoked"] ELSE session[t]
  BY DEF Revoked
<1>2. \A t \in SessionIds : session[t] \in Session
  BY Fields
<1>3. \A t \in SessionIds : /\ [session[t] EXCEPT !.state = "revoked"] \in Session
                            /\ [session[t] EXCEPT !.state = "revoked"].state = "revoked"
  BY <1>2 DEF Session
<1>4. \A t \in SessionIds : session'[t] \in Session
  BY <1>1, <1>2, <1>3
<1>5. session' \in [SessionIds -> Session]
  BY <1>4 DEF Revoked
<1>6. \A t \in SessionIds : Stays(t)
  BY <1>1 DEF Stays
<1>7. ASSUME NEW t \in SessionIds \cap S PROVE session'[t].state # "live"
  BY <1>1, <1>3, <1>7 DEF LiveSessions
<1> QED BY <1>5, <1>6, <1>7

LEMMA LogoutKeeps ==
  ASSUME SessionsInv, NEW t \in SessionIds, Logout(t)
  PROVE  SessionsInv'
<1>1. session' = Revoked({t}) /\ UNCHANGED <<person, call, ended, events>>
  BY DEF Logout
<1>2. session' \in [SessionIds -> Session] /\ \A u \in SessionIds : Stays(u)
  BY <1>1, RevokedRows DEF SessionsInv
<1>3. SessionsTypeOK' /\ ended' \subseteq Used /\ PeopleStay
  BY <1>1, <1>2 DEF SessionsInv, SessionsTypeOK, Rooted, PeopleStay
<1> QED BY <1>1, <1>2, <1>3, RowsKeep

\* Signing out everywhere and a new password: the person's rows are ended with the era.
LEMMA EverywhereKeeps ==
  ASSUME SessionsInv, NEW p \in Holders, LogoutAll(p) \/ ResetPassword(p)
  PROVE  SessionsInv'
<1>t. SessionsTypeOK
  BY DEF SessionsInv
<1>1. session' = Revoked(OfPerson(p)) /\ UNCHANGED <<call, ended>> /\ events' \in 0..MaxEvents
  BY SessionsConstants DEF LogoutAll, ResetPassword, Event, SessionsInv, SessionsTypeOK
<1>2. /\ session' \in [SessionIds -> Session] /\ \A t \in SessionIds : Stays(t)
      /\ \A t \in SessionIds \cap OfPerson(p) : session'[t].state # "live"
  BY <1>t, <1>1, RevokedRows
<1>3. person[p] \in Person
  BY <1>t, Fields
<1>4. PICK new \in Person : /\ person' = [person EXCEPT ![p] = new] /\ new.kind = person[p].kind
                            /\ new.code = person[p].code /\ new.spent = person[p].spent
  <2>1. CASE LogoutAll(p)
    <3> DEFINE new == [person[p] EXCEPT !.era = @ + 1]
    <3>1. new \in Person /\ new.kind = person[p].kind
          /\ new.code = person[p].code /\ new.spent = person[p].spent
      BY <1>3 DEF Person
    <3>2. person' = [person EXCEPT ![p] = new]
      BY <1>t, <2>1 DEF LogoutAll, SessionsTypeOK
    <3> HIDE DEF new
    <3> QED BY <3>1, <3>2
  <2>2. CASE ResetPassword(p)
    <3> DEFINE new == [person[p] EXCEPT !.era = @ + 1, !.failed = 0, !.locked = FALSE]
    <3>1. 0 \in 0..(MaxFailures - 1)
      BY SessionsConstants
    <3>2. person[p].era + 1 \in Nat
      BY <1>3 DEF Person
    <3>4. new.kind = person[p].kind /\ new.code = person[p].code /\ new.spent = person[p].spent
      BY <1>3 DEF Person
    <3>5. new \in Person
      BY <1>3, <3>1, <3>2 DEF Person
    <3>3. person' = [person EXCEPT ![p] = new]
      BY <1>t, <2>2 DEF ResetPassword, SessionsTypeOK
    <3> HIDE DEF new
    <3> QED BY <3>3, <3>4, <3>5
  <2> QED BY <2>1, <2>2
<1>5. /\ person' \in [Holders -> Person] /\ PeopleStay
      /\ \A q \in Holders : q # p => person'[q] = person[q]
  BY <1>t, <1>4, PersonWritten
<1>6. SessionsTypeOK' /\ ended' \subseteq Used
  BY <1>1, <1>2, <1>5 DEF SessionsInv, SessionsTypeOK, Rooted
<1>7. ASSUME NEW t \in Plain, session'[t].state = "live"
      PROVE  person'[session[t].person].era = person[session[t].person].era
  <2>1. t \in SessionIds /\ session[t].person \in Holders
    BY DEF SessionsInv, Rooted, Plain, LiveSessions, Used
  <2>2. session[t].person # p
    BY <1>2, <1>7, <2>1 DEF OfPerson
  <2> QED BY <1>5, <2>1, <2>2
<1> QED BY <1>1, <1>2, <1>5, <1>6, <1>7, RowsKeep

\* The family of a row that was presented is said to be over: of a guardian nothing is
\* written, of anybody else every row of it is ended.
LEMMA EndFamilyKeeps ==
  ASSUME SessionsInv, NEW r \in Calls, EndFamily(r)
  PROVE  SessionsInv'
<1> DEFINE f == session[call[r].row].family
<1>t. SessionsTypeOK
  BY DEF SessionsInv
<1>1. /\ call[r].row \in Used /\ call[r].person = session[call[r].row].person
      /\ f \in Used
  BY DEF EndFamily, SessionsInv, Asked, Rooted
<1>2. /\ UNCHANGED <<person, events>> /\ ended' = ended \cup {f} /\ Answered(r)
      /\ \/ person[call[r].person].kind = "guardian" /\ session' = session
         \/ session' = Revoked({t \in SessionIds : session[t].family = f})
  BY DEF EndFamily
<1>3. /\ call' \in [Calls -> Call]
      /\ \A q \in Calls : call'[q] = call[q] \/ call'[q] = NoRequest
  BY <1>t, <1>2, AnsweredType
<1>4. /\ session' \in [SessionIds -> Session] /\ \A t \in SessionIds : Stays(t)
      /\ \/ person[call[r].person].kind = "guardian"
         \/ \A t \in SessionIds : session[t].family = f => session'[t].state # "live"
  <2>1. CASE session' = session /\ person[call[r].person].kind = "guardian"
    BY <2>1, <1>t DEF Stays, SessionsTypeOK
  <2>2. CASE session' = Revoked({t \in SessionIds : session[t].family = f})
    <3> DEFINE S == {t \in SessionIds : session[t].family = f}
    <3>1. /\ session' \in [SessionIds -> Session] /\ \A t \in SessionIds : Stays(t)
          /\ \A t \in SessionIds \cap S : session'[t].state # "live"
      BY <1>t, <2>2, RevokedRows
    <3> QED BY <3>1
  <2> QED BY <1>2, <2>1, <2>2
<1>5. ended' \subseteq Used
  BY <1>1, <1>2 DEF SessionsInv, Rooted
<1>6. Used \subseteq SessionIds
  BY DEF Used
<1>7. SessionsTypeOK' /\ PeopleStay
  BY <1>t, <1>2, <1>3, <1>4, <1>5, <1>6 DEF SessionsTypeOK, PeopleStay
<1>8. ASSUME NEW t \in Plain, session'[t].state = "live", session[t].family \in ended'
      PROVE  session[t].family \in ended \/ person[session[t].person].kind = "guardian"
  <2>1. t \in SessionIds /\ t \in Used
    BY DEF Plain, LiveSessions, Used
  <2>2. ASSUME session[t].family = f PROVE person[session[t].person].kind = "guardian"
    <3>1. session[t].person = call[r].person
      BY <1>1, <2>1, <2>2 DEF SessionsInv, Rooted
    <3> QED BY <1>4, <1>8, <2>1, <2>2, <3>1
  <2> QED BY <1>2, <1>8, <2>2
<1> HIDE DEF f
<1> QED BY <1>2, <1>3, <1>4, <1>5, <1>7, <1>8, RowsKeep

\* The row of a new sign-in.
LEMMA IssuedRow ==
  ASSUME NEW n \in SessionIds, NEW p \in Holders, NEW era \in Nat, NEW code \in Nat,
         NEW raced \in BOOLEAN
  PROVE  LET s == Issued(n, p, era, code, raced)
         IN /\ s \in Session /\ s.state = "live" /\ s.family = n /\ s.person = p
            /\ s.era = era /\ s.code = code /\ s.raced = raced
<1>1. n \in 0..MaxSessions /\ p \in Holders \cup {Nobody}
  BY SessionsConstants
<1> QED BY <1>1 DEF Issued, Session

\* Where nothing but row n is written, the others stay.
LEMMA OneRow ==
  ASSUME SessionsInv, NEW n \in SessionIds, NEW s \in Session, session' = [session EXCEPT ![n] = s]
  PROVE  /\ session' \in [SessionIds -> Session] /\ session'[n] = s
         /\ \A t \in SessionIds \ {n} : Stays(t)
BY DEF SessionsInv, SessionsTypeOK, Stays

\* A sign-in with a password: a session, if the person may enter anywhere.
LEMMA PasswordPassesKeeps ==
  ASSUME SessionsInv, NEW r \in Calls, PasswordPasses(r)
  PROVE  SessionsInv'
<1> DEFINE p == call[r].person
<1>t. SessionsTypeOK /\ events' \in 0..MaxEvents /\ UNCHANGED ended
  BY DEF SessionsInv, SessionsTypeOK, PasswordPasses
<1>1. p \in Holders /\ call[r].era \in Nat
  BY DEF SessionsInv, Asked, PasswordPasses, SessionsTypeOK, Call
<1>2. person[p] \in Person /\ person[p].code \in Nat
  BY <1>t, <1>1, Fields
<1>3. PICK f \in 0..(MaxFailures - 1) : f = IF call[r].count = 0 THEN person[p].failed ELSE 0
  <2>1. person[p].failed \in 0..(MaxFailures - 1)
    BY <1>2 DEF Person
  <2>2. 0 \in 0..(MaxFailures - 1)
    BY SessionsConstants
  <2> QED BY <2>1, <2>2
<1> DEFINE new == [person[p] EXCEPT !.failed = f]
<1>4. person' = [person EXCEPT ![p] = new]
  BY <1>3 DEF PasswordPasses
<1>5. /\ new \in Person /\ new.kind = person[p].kind /\ new.era = person[p].era
      /\ new.code = person[p].code /\ new.spent = person[p].spent
  BY <1>2 DEF Person
<1>6. PICK t \in SessionIds :
        /\ Fresh(t)
        /\ session' = IF person[p].allowed
                      THEN [session EXCEPT ![t] = Issued(t, p, call[r].era, 0,
                                person[p].era # call[r].era)]
                      ELSE session
  BY DEF PasswordPasses
<1>7. Answered(r)
  BY DEF PasswordPasses
<1> HIDE DEF new, p
<1>8. /\ person' \in [Holders -> Person] /\ PeopleStay
      /\ person'[p] = new /\ \A q \in Holders : q # p => person'[q] = person[q]
  BY <1>t, <1>1, <1>4, <1>5, PersonWritten
<1>9. /\ call' \in [Calls -> Call]
      /\ \A q \in Calls : call'[q] = call[q] \/ call'[q] = NoRequest
  BY <1>t, <1>7, AnsweredType
<1>10. CASE session' = session
  BY <1>t, <1>5, <1>8, <1>9, <1>10, PeopleKeep
<1>11. CASE session' = [session EXCEPT ![t] = Issued(t, p, call[r].era, 0,
                                             person[p].era # call[r].era)]
  <2>1. PICK raced \in BOOLEAN : raced = (person[p].era # call[r].era)
    OBVIOUS
  <2> DEFINE s == Issued(t, p, call[r].era, 0, raced)
  <2>2. /\ s \in Session /\ s.state = "live" /\ s.family = t /\ s.person = p
        /\ s.era = call[r].era /\ s.code = 0 /\ s.raced = raced
    BY <1>1, IssuedRow
  <2>3. session' = [session EXCEPT ![t] = s]
    BY <1>11, <2>1
  <2> HIDE DEF s
  <2>4. /\ session' \in [SessionIds -> Session] /\ session'[t] = s
        /\ \A u \in SessionIds \ {t} : Stays(u)
    BY <2>2, <2>3, OneRow
  <2>5. Adds(t)
    BY <1>1, <1>6, <2>2, <2>4 DEF Adds
  <2>6. NewFamily(t)
    BY <2>1, <2>2, <2>4 DEF NewFamily
  <2>7. SamePeople
    BY <1>5, <1>8 DEF SamePeople
  <2>8. SessionsTypeOK'
    BY <1>t, <1>8, <1>9, <2>4 DEF SessionsTypeOK
  <2>9. LET q == session'[t].person
        IN session'[t].code <= person'[q].code
           /\ (session'[t].code = person'[q].code /\ person'[q].code # 0 => person'[q].spent)
    BY <1>2, <1>5, <1>8, <2>2, <2>4
  <2> QED BY <1>t, <1>9, <2>5, <2>6, <2>7, <2>8, <2>9, AddKeeps
<1> QED BY <1>6, <1>10, <1>11

\* A sign-in with a code: the code is spent with it.
LEMMA CodePassesKeeps ==
  ASSUME SessionsInv, NEW r \in Calls, CodePasses(r)
  PROVE  SessionsInv'
<1> DEFINE p == call[r].person
           new == CodeWritten(p, r, TRUE)
<1>t. SessionsTypeOK /\ events' \in 0..MaxEvents /\ UNCHANGED ended
  BY DEF SessionsInv, SessionsTypeOK, CodePasses
<1>1. /\ p \in Holders /\ call[r].era \in Nat /\ call[r].code \in Nat
      /\ call[r].code <= person[p].code
  BY DEF SessionsInv, Asked, CodePasses, SessionsTypeOK, Call
<1>2. person[p] \in Person /\ person[p].code \in Nat
  BY <1>t, <1>1, Fields
<1>4. person' = [person EXCEPT ![p] = new]
  BY DEF CodePasses
<1>5. /\ new \in Person /\ new.kind = person[p].kind /\ new.era = person[p].era
      /\ new.code = person[p].code /\ (person[p].spent => new.spent)
      /\ person[p].code = call[r].code => new.spent
  BY <1>t, <1>1, CodeWrittenType
<1>6. PICK t \in SessionIds :
        /\ Fresh(t)
        /\ session' = IF person[p].allowed
                      THEN [session EXCEPT ![t] =
                              Issued(t, p, call[r].era, call[r].code,
                                  \/ person[p].era # call[r].era
                                  \/ person[p].code # call[r].code
                                  \/ person[p].spent)]
                      ELSE session
  BY DEF CodePasses
<1>7. Answered(r)
  BY DEF CodePasses
<1>3. PICK raced \in BOOLEAN : raced = (\/ person[p].era # call[r].era
                                        \/ person[p].code # call[r].code
                                        \/ person[p].spent)
  OBVIOUS
<1> DEFINE s == Issued(t, p, call[r].era, call[r].code, raced)
<1>10. session' = session \/ session' = [session EXCEPT ![t] = s]
  BY <1>3, <1>6
<1> HIDE DEF new, p
<1>8. /\ person' \in [Holders -> Person] /\ PeopleStay
      /\ person'[p] = new /\ \A q \in Holders : q # p => person'[q] = person[q]
  BY <1>t, <1>1, <1>4, <1>5, PersonWritten
<1>9. /\ call' \in [Calls -> Call]
      /\ \A q \in Calls : call'[q] = call[q] \/ call'[q] = NoRequest
  BY <1>t, <1>7, AnsweredType
<1>11. CASE session' = session
  BY <1>t, <1>5, <1>8, <1>9, <1>11, PeopleKeep
<1>12. CASE session' = [session EXCEPT ![t] = s]
  <2>2. /\ s \in Session /\ s.state = "live" /\ s.family = t /\ s.person = p
        /\ s.era = call[r].era /\ s.code = call[r].code /\ s.raced = raced
    BY <1>1, IssuedRow
  <2> HIDE DEF s
  <2>4. /\ session' \in [SessionIds -> Session] /\ session'[t] = s
        /\ \A u \in SessionIds \ {t} : Stays(u)
    BY <1>12, <2>2, OneRow
  <2>5. Adds(t)
    BY <1>1, <1>6, <2>2, <2>4 DEF Adds
  <2>6. NewFamily(t)
    BY <1>3, <2>2, <2>4 DEF NewFamily
  <2>7. SamePeople
    BY <1>5, <1>8 DEF SamePeople
  <2>8. SessionsTypeOK'
    BY <1>t, <1>8, <1>9, <2>4 DEF SessionsTypeOK
  <2>9. LET q == session'[t].person
        IN session'[t].code <= person'[q].code
           /\ (session'[t].code = person'[q].code /\ person'[q].code # 0 => person'[q].spent)
    BY <1>1, <1>5, <1>8, <2>2, <2>4
  <2> QED BY <1>t, <1>9, <2>5, <2>6, <2>7, <2>8, <2>9, AddKeeps
<1> QED BY <1>10, <1>11, <1>12

\* Another school group: a family for the same person, and the session it came from ends.
LEMMA SelectContextKeeps ==
  ASSUME SessionsInv, NEW t \in SessionIds, SelectContext(t)
  PROVE  SessionsInv'
<1> DEFINE p == session[t].person
<1>t. SessionsTypeOK
  BY DEF SessionsInv
<1>1. t \in Used /\ p \in Holders /\ UNCHANGED <<person, call, ended, events>>
  BY DEF SelectContext, SessionsInv, Rooted
<1>2. PICK n \in SessionIds :
        /\ Fresh(n)
        /\ session' = [Revoked({t}) EXCEPT ![n] = Issued(n, p, person[p].era, 0, FALSE)]
  BY DEF SelectContext
<1>3. person[p] \in Person /\ person[p].era \in Nat /\ person[p].code \in Nat
  BY <1>t, <1>1, Fields
<1> DEFINE s == Issued(n, p, person[p].era, 0, FALSE)
<1>4. /\ s \in Session /\ s.state = "live" /\ s.family = n /\ s.person = p
      /\ s.era = person[p].era /\ s.code = 0 /\ s.raced = FALSE
  <2>1. 0 \in Nat /\ FALSE \in BOOLEAN
    OBVIOUS
  <2>2. n \in 0..MaxSessions /\ p \in Holders \cup {Nobody}
    BY <1>1, SessionsConstants
  <2>3. person[p].era \in Nat
    BY <1>3
  <2> HIDE DEF p
  <2> QED BY <2>1, <2>2, <2>3 DEF Issued, Session
<1>5. \A u \in SessionIds : Revoked({t})[u] = IF u \in {t} \cap LiveSessions
                         THEN [session[u] EXCEPT !.state = "revoked"] ELSE session[u]
  BY DEF Revoked
<1>6. \A u \in SessionIds : Revoked({t})[u] \in Session
  <2>1. \A u \in SessionIds : session[u] \in Session
    BY <1>t, Fields
  <2>2. \A u \in SessionIds : [session[u] EXCEPT !.state = "revoked"] \in Session
    BY <2>1 DEF Session
  <2> QED BY <1>5, <2>1, <2>2
<1>7. Revoked({t}) \in [SessionIds -> Session]
  BY <1>6 DEF Revoked
<1>8. session' = [Revoked({t}) EXCEPT ![n] = s]
  BY <1>2
<1> HIDE DEF s, p
<1>9. /\ session' \in [SessionIds -> Session] /\ session'[n] = s
      /\ \A u \in SessionIds : u # n => session'[u] = Revoked({t})[u]
  BY <1>4, <1>7, <1>8
<1>10. \A u \in SessionIds \ {n} : Stays(u)
  BY <1>5, <1>9 DEF Stays
<1>11. Adds(n)
  BY <1>1, <1>2, <1>4, <1>9, <1>10 DEF Adds
<1>12. NewFamily(n)
  BY <1>4, <1>9 DEF NewFamily
<1>13. SamePeople /\ SessionsTypeOK'
  BY <1>t, <1>1, <1>9 DEF SamePeople, SessionsTypeOK
<1>14. LET q == session'[n].person
       IN session'[n].code <= person'[q].code
          /\ (session'[n].code = person'[q].code /\ person'[q].code # 0 => person'[q].spent)
  BY <1>1, <1>3, <1>4, <1>9
<1> QED BY <1>1, <1>11, <1>12, <1>13, <1>14, AddKeeps

\* A refresh or a switch: the row that was read is ended, and its successor continues it.
LEMMA RotateKeeps ==
  ASSUME SessionsInv, NEW r \in Calls, Rotate(r)
  PROVE  SessionsInv'
<1> DEFINE t == call[r].row
<1>t. SessionsTypeOK
  BY DEF SessionsInv
<1>1. t \in Used /\ t \in SessionIds /\ session[t].person \in Holders
  BY DEF Rotate, SessionsInv, Asked, Rooted, Used
<1>2. PICK n \in SessionIds :
        /\ Fresh(n)
        /\ session' = [session EXCEPT ![t].state = "revoked", ![n] = Successor(t)]
  BY DEF Rotate
<1>3. UNCHANGED <<person, ended, events>> /\ Answered(r)
  BY DEF Rotate
<1>4. /\ call' \in [Calls -> Call]
      /\ \A q \in Calls : call'[q] = call[q] \/ call'[q] = NoRequest
  BY <1>t, <1>3, AnsweredType
<1>5. t # n
  <2>1. n \in Nat /\ Used = 1..(n - 1)
    BY <1>2, SessionsConstants DEF Fresh
  <2> QED BY <1>1, <2>1
<1>6. session[t] \in Session
  BY <1>t, <1>1, Fields
<1>7. PICK raced \in BOOLEAN : raced = (session[t].raced \/ session[t].state # "live")
  OBVIOUS
<1> DEFINE s == [session[t] EXCEPT !.state = "live", !.raced = raced]
           over == [session[t] EXCEPT !.state = "revoked"]
<1>8. session' = [[session EXCEPT ![t] = over] EXCEPT ![n] = s]
  BY <1>2, <1>7 DEF Successor
<1>9. /\ s \in Session /\ s.state = "live" /\ s.family = session[t].family
      /\ s.person = session[t].person /\ s.era = session[t].era /\ s.code = session[t].code
      /\ s.raced = raced
  BY <1>6 DEF Session
<1>10. /\ over \in Session /\ over.state = "revoked"
       /\ session[t].state = "revoked" => over = session[t]
  BY <1>6 DEF Session
<1>11. session[t].state \in {"live", "revoked"}
  BY <1>1, <1>6 DEF Used, Session
<1>12. over = session[t] \/ (t \in LiveSessions /\ over = [session[t] EXCEPT !.state = "revoked"])
  BY <1>1, <1>10, <1>11 DEF LiveSessions
<1> HIDE DEF s, over, t
<1>13. /\ session' \in [SessionIds -> Session] /\ session'[n] = s /\ session'[t] = over
       /\ \A u \in SessionIds : u # n /\ u # t => session'[u] = session[u]
  BY <1>t, <1>1, <1>5, <1>8, <1>9, <1>10 DEF SessionsTypeOK
<1>14. \A u \in SessionIds \ {n} : Stays(u)
  BY <1>12, <1>13 DEF Stays
<1>15. Adds(n)
  BY <1>1, <1>2, <1>9, <1>13, <1>14 DEF Adds
<1>16. Continues(n, t)
  BY <1>1, <1>7, <1>9, <1>10, <1>13 DEF Continues, Plain, LiveSessions
<1>17. SamePeople /\ SessionsTypeOK'
  BY <1>t, <1>3, <1>4, <1>13 DEF SamePeople, SessionsTypeOK
<1>18. LET q == session'[n].person
       IN session'[n].code <= person'[q].code
          /\ (session'[n].code = person'[q].code /\ person'[q].code # 0 => person'[q].spent)
  BY <1>1, <1>3, <1>9, <1>13 DEF SessionsInv, Spent
<1> QED BY <1>3, <1>4, <1>15, <1>16, <1>17, <1>18, AddKeeps

-----------------------------------------------------------------------------
(* Theorems                                                                *)

LEMMA SessionsInitInv == SessionsInit => SessionsInv
<1> SUFFICES ASSUME SessionsInit PROVE SessionsInv
  OBVIOUS
<1>1. PICK kind \in [Holders -> Kinds] : person = [p \in Holders |-> NewPerson(kind[p])]
  BY DEF SessionsInit
<1>2. \A p \in Holders : NewPerson(kind[p]) \in Person
  <2>1. 0 \in 0..(MaxFailures - 1)
    BY SessionsConstants
  <2> QED BY <1>1, <2>1 DEF NewPerson, Person
<1>3. NoSession \in Session /\ NoSession.state = "none"
  BY SessionsConstants DEF NoSession, Session
<1>4. 0 \in 0..MaxEvents
  BY SessionsConstants
<1>5. SessionsTypeOK
  BY <1>1, <1>2, <1>3, <1>4, NoRequestType DEF SessionsInit, SessionsTypeOK
<1>6. Used = {} /\ Plain = {}
  BY <1>3 DEF SessionsInit, Used, Plain, LiveSessions
<1>7. \A r \in Calls : call[r].pc = "idle"
  BY NoRequestType DEF SessionsInit
<1>8. Asked
  BY <1>7 DEF Asked
<1>9. Rooted /\ Spent /\ OnlyRacesSurvive
  BY <1>6 DEF SessionsInit, Rooted, Spent, OnlyRacesSurvive
<1> QED BY <1>5, <1>8, <1>9 DEF SessionsInv

LEMMA SessionsNextInv == SessionsInv /\ [SessionsNext]_sessionVars => SessionsInv'
<1> SUFFICES ASSUME SessionsInv, [SessionsNext]_sessionVars PROVE SessionsInv'
  OBVIOUS
<1>1. ASSUME NEW r \in Calls,
             \/ PasswordFails(r) \/ PasswordPasses(r) \/ CodeFails(r) \/ CodePasses(r)
             \/ EndFamily(r) \/ Rotate(r) \/ Abandon(r)
      PROVE  SessionsInv'
  BY <1>1, PasswordFailsKeeps, PasswordPassesKeeps, CodeFailsKeeps, CodePassesKeeps,
     EndFamilyKeeps, RotateKeeps, AbandonKeeps
<1>2. ASSUME NEW r \in Calls,
             \/ \E p \in Holders : PasswordReads(r, p) \/ CodeReads(r, p)
             \/ \E t \in SessionIds : RefreshReads(r, t) \/ SwitchReads(r, t)
      PROVE  SessionsInv'
  BY <1>2, ReadsKeep
<1>3. ASSUME NEW t \in SessionIds, SelectContext(t) \/ Logout(t) PROVE SessionsInv'
  BY <1>3, SelectContextKeeps, LogoutKeeps
<1>4. ASSUME NEW p \in Holders,
             \/ LockEnds(p) \/ RequestCode(p) \/ LogoutAll(p) \/ ResetPassword(p) \/ SetAccess(p)
      PROVE  SessionsInv'
  BY <1>4, PersonChanges, EverywhereKeeps
<1>5. CASE UNCHANGED sessionVars
  <2>1. UNCHANGED <<session, person, call, ended, events>>
    BY <1>5 DEF sessionVars
  <2>2. PeopleStay /\ person' \in [Holders -> Person] /\ call' \in [Calls -> Call]
        /\ events' \in 0..MaxEvents
    BY <2>1 DEF PeopleStay, SessionsInv, SessionsTypeOK
  <2> QED BY <2>1, <2>2, PeopleKeep
<1> QED BY <1>1, <1>2, <1>3, <1>4, <1>5 DEF SessionsNext

\* The rows of sessions, people and requests have the values the columns and the code allow
\* (modules/auth/models.py).
THEOREM SessionsTyped == SessionsSpec => []SessionsTypeOK
<1>1. SessionsInv => SessionsTypeOK
  BY DEF SessionsInv
<1> QED BY <1>1, SessionsInitInv, SessionsNextInv, PTL DEF SessionsSpec

\* One sign-in is one session, a code opens one sign-in, and no session outlives the
\* sign-out, reset or revocation that was to end it, unless a request overlapped another
\* (modules/auth/service.py, guardians/auth_service.py): for any number of people, requests
\* and sessions.
THEOREM NoSessionSurvives == SessionsSpec => []OnlyRacesSurvive
<1>1. SessionsInv => OnlyRacesSurvive
  BY DEF SessionsInv
<1> QED BY <1>1, SessionsInitInv, SessionsNextInv, PTL DEF SessionsSpec

=============================================================================
