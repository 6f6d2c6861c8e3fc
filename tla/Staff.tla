------------------------------- MODULE Staff -------------------------------
(***************************************************************************)
(* The people of one organization with one campus (modules/invitations,    *)
(* rbac and tenancy, with the staff seats of billing/entitlements.py):     *)
(* invitations, memberships, the principal who owns the organization, and  *)
(* the permissions of the campus's role behind their versioned cache.  A   *)
(* request reads and checks, and writes when it commits; only the counter  *)
(* of seats is checked by the statement that writes it.                    *)
(***************************************************************************)
EXTENDS Naturals, FiniteSets

CONSTANTS People,
          Founder,      \* who registered the organization
          Codes,        \* permission codes
          Seats,        \* the plan's max_staff
          Requests,     \* requests in flight
          NoOne,
          MaxRows,      \* bound: memberships ever created
          MaxLinks,     \* bound: invitations ever sent
          MaxRequests   \* bound: requests

ASSUME StaffConstants ==
    /\ Founder \in People /\ IsFiniteSet(People)
    /\ {Seats, MaxRows, MaxLinks, MaxRequests} \subseteq Nat
    /\ NoOne \notin People \cup Nat

VARIABLES row,          \* memberships
          link,         \* invitations
          users,        \* who has an account
          owner,        \* organizations.owner_user_id
          staff_count,  \* organization_usage
          perms,        \* role_permissions of the campus's role
          version,      \* its permissions_version
          cache,        \* Redis, by version
          request,      \* what each request has read
          begun,        \* bound
          stale         \* history: a guard no longer held when its request committed

vars == <<row, link, users, owner, staff_count, perms, version, cache, request, begun, stale>>

-----------------------------------------------------------------------------
Rows == 1..MaxRows
Links == 1..MaxLinks

Membership == [user: People \cup {NoOne}, level: {"organization", "campus"},
               principal: BOOLEAN, status: {"unused", "active", "suspended", "removed"}]
Unused == [user |-> NoOne, level |-> "campus", principal |-> FALSE, status |-> "unused"]

\* overdue: pending, past expires_at.  gone: the row is deleted.
Invitation == [email: People \cup {NoOne},
               status: {"unused", "pending", "overdue", "accepted", "revoked", "expired", "gone"}]
Unsent == [email |-> NoOne, status |-> "unused"]

Operations == {"none", "invite", "accept", "revoke", "delete", "create", "suspend",
               "reactivate", "remove", "demote", "transfer", "edit", "resolve", "store"}

\* on: the row of the operation, or its person.  read: the membership it read.  out, into:
\* the memberships a transfer demotes and promotes.  held: the invitation read was pending.
\* pv: the version read.  codes: the permissions to set.
Request == [op: Operations, on: People \cup Nat \cup {NoOne}, read: Membership \cup {NoOne},
            out: Rows \cup {NoOne}, into: Rows \cup {NoOne}, held: BOOLEAN, pv: Nat,
            codes: SUBSET Codes]
Idle == [op |-> "none", on |-> NoOne, read |-> NoOne, out |-> NoOne, into |-> NoOne,
         held |-> FALSE, pv |-> 0, codes |-> {}]

TypeOK == /\ row \in [Rows -> Membership]
          /\ link \in [Links -> Invitation]
          /\ users \subseteq People
          /\ owner \in People
          /\ staff_count \in Nat
          /\ perms \subseteq Codes
          /\ version \in Nat
          /\ \A v \in DOMAIN cache : v \in Nat /\ cache[v] \subseteq Codes
          /\ request \in [Requests -> Request]
          /\ begun \in 0..MaxRequests
          /\ stale \in [seat: BOOLEAN, owner: BOOLEAN, count: BOOLEAN, role: BOOLEAN]

Live(m) == row[m].status \in {"active", "suspended"}
Pending == {i \in Links : link[i].status \in {"pending", "overdue"}}
OnCampus == {m \in Rows : Live(m) /\ row[m].level = "campus"}
ActivePrincipals == {m \in Rows : row[m].principal /\ row[m].status = "active"}
Of(p, level) == {m \in Rows : Live(m) /\ row[m].user = p /\ row[m].level = level}
OneOf(ms) == IF ms = {} THEN NoOne ELSE CHOOSE m \in ms : TRUE

\* An organization with some staff, the founder its principal.
Init == \E hired \in SUBSET (People \ {Founder}) :
           /\ Cardinality(hired) < MaxRows /\ Cardinality(hired) <= Seats
           /\ \E at \in [hired -> 2..(Cardinality(hired) + 1)] :
                 /\ \A p, q \in hired : at[p] = at[q] => p = q
                 /\ row = [m \in Rows |->
                       IF m = 1 THEN [user |-> Founder, level |-> "organization",
                                      principal |-> TRUE, status |-> "active"]
                       ELSE IF m \in {at[p] : p \in hired}
                       THEN [user |-> CHOOSE p \in hired : at[p] = m, level |-> "campus",
                             principal |-> FALSE, status |-> "active"]
                       ELSE Unused]
           /\ users = hired \cup {Founder}
           /\ staff_count = Cardinality(hired)
           /\ link = [i \in Links |-> Unsent]
           /\ owner = Founder
           /\ perms = Codes
           /\ version = 1
           /\ cache = [v \in {} |-> {}]
           /\ request = [r \in Requests |-> Idle]
           /\ begun = 0
           /\ stale = [seat |-> FALSE, owner |-> FALSE, count |-> FALSE,
                        role |-> FALSE]

-----------------------------------------------------------------------------
(* The guards, read when a request begins.                                 *)

MayInvite(p) == /\ Of(p, "campus") = {}
                /\ \A i \in Links : link[i].status = "pending" => link[i].email # p
MayAccept(i) == link[i].status = "pending" /\ Of(link[i].email, "campus") = {}
MayRevoke(i) == i \in Pending
MayDelete(i) == link[i].status \notin {"unused", "gone"}
MayCreate(p) == p \notin users

\* mutant: any membership of the organization may be taken away
AnyMember(m) == TRUE

\* _assert_not_last_owner, which counts.
NotLastOwner(m) == row[m].principal => Cardinality(ActivePrincipals) > 1

\* remove_member, change_member_role, and set_member_status to suspend.
MayTake(m) == Live(m) /\ NotLastOwner(m)

\* Somebody else does it: _assert_not_self.
Others(m) == \E actor \in Rows : row[actor].status = "active" /\ actor # m

MayTransfer(m) == row[m].status = "active" /\ row[m].user # owner

Begins(r, new) ==
    /\ request[r].op = "none"
    /\ begun < MaxRequests
    /\ begun' = begun + 1
    /\ request' = [request EXCEPT ![r] = new]
    /\ UNCHANGED <<row, link, users, owner, staff_count, perms, version, cache, stale>>

About(op, x) == [Idle EXCEPT !.op = op, !.on = x]

BeginsWithPerson(r, p) == \/ MayInvite(p) /\ Begins(r, About("invite", p))
                          \/ MayCreate(p) /\ Begins(r, About("create", p))

BeginsWithLink(r, i) == \/ MayAccept(i) /\ Begins(r, About("accept", i))
                        \/ MayRevoke(i) /\ Begins(r, About("revoke", i))
                        \/ /\ MayDelete(i)
                           /\ Begins(r, [About("delete", i) EXCEPT !.held = i \in Pending])

OfMember(op, m) == [About(op, m) EXCEPT !.read = row[m]]

BeginsWithMember(r, m) ==
    \/ /\ Others(m)
       /\ \/ MayTake(m) /\ Begins(r, OfMember("remove", m))
          \/ MayTake(m) /\ row[m].level = "organization" /\ Begins(r, OfMember("demote", m))
          \/ MayTake(m) /\ row[m].status = "active" /\ Begins(r, OfMember("suspend", m))
          \/ row[m].status = "suspended" /\ Begins(r, OfMember("reactivate", m))
    \/ LET into == OneOf(Of(row[m].user, "organization")) IN
       /\ MayTransfer(m)
       /\ Begins(r, [About("transfer", m) EXCEPT
                        !.read = IF into = NoOne THEN NoOne ELSE row[into],
                        !.out = OneOf(Of(owner, "organization")),
                        !.into = into])

BeginsWithRole(r) == \/ \E codes \in SUBSET Codes :
                           Begins(r, [Idle EXCEPT !.op = "edit", !.pv = version, !.codes = codes])
                     \/ Begins(r, [Idle EXCEPT !.op = "resolve", !.pv = version])

-----------------------------------------------------------------------------
(* What each request writes when it commits.                               *)

Finished(r) == request' = [request EXCEPT ![r] = Idle]

Added(p, level) ==
    LET new == CHOOSE m \in Rows : row[m].status = "unused"
    IN  [row EXCEPT ![new] = [user |-> p, level |-> level, principal |-> level = "organization",
                              status |-> "active"]]
Room == \E m \in Rows : row[m].status = "unused"

\* check_and_consume: the limit is part of the UPDATE.
Consumes == staff_count < Seats
\* release: GREATEST(count - delta, 0).
Released(n) == IF staff_count >= n THEN staff_count - n ELSE 0

\* expire_pending_invitations.
Swept == [i \in Links |-> IF link[i].status = "overdue"
                          THEN [link[i] EXCEPT !.status = "expired"] ELSE link[i]]
Overdue == {i \in Links : link[i].status = "overdue"}

\* InvitationService.create: the sweep, then one pending invitation for an address (the
\* unique index), the seat, and the row.
Invites(r) ==
    LET p == request[r].on
        first == CHOOSE i \in Links : link[i].status = "unused"
    IN  /\ request[r].op = "invite"
        /\ \A i \in Links : link[i].status = "pending" => link[i].email # p
        /\ \E i \in Links : link[i].status = "unused"
        /\ Released(Cardinality(Overdue)) < Seats
        /\ link' = [Swept EXCEPT ![first] = [email |-> p, status |-> "pending"]]
        /\ staff_count' = Released(Cardinality(Overdue)) + 1
        /\ Finished(r)
        /\ UNCHANGED <<row, users, owner, perms, version, cache, begun, stale>>

\* The membership's unique index; an invitation whose row is deleted is not found.
Accepts(r) ==
    LET i == request[r].on IN
    /\ request[r].op = "accept"
    /\ link[i].status # "gone" /\ Of(link[i].email, "campus") = {} /\ Room
    /\ row' = Added(link[i].email, "campus")
    /\ users' = users \cup {link[i].email}
    /\ link' = [link EXCEPT ![i].status = "accepted"]
    /\ stale' = [stale EXCEPT !.seat = @ \/ i \notin Pending]
    /\ Finished(r)
    /\ UNCHANGED <<owner, staff_count, perms, version, cache, begun>>

Revokes(r) ==
    LET i == request[r].on IN
    /\ request[r].op = "revoke"
    /\ link[i].status # "gone"
    /\ link' = [link EXCEPT ![i].status = "revoked"]
    /\ staff_count' = Released(1)
    /\ stale' = [stale EXCEPT !.seat = @ \/ ~MayRevoke(i)]
    /\ Finished(r)
    /\ UNCHANGED <<row, users, owner, perms, version, cache, begun>>

\* mutant: a deleted invitation keeps its seat
KeepsSeat(held) == staff_count

\* InvitationService.delete: the seat of one that was pending comes back.
SeatOfDeleted(held) == IF held THEN Released(1) ELSE staff_count

Deletes(r) ==
    LET i == request[r].on IN
    /\ request[r].op = "delete"
    /\ link' = [link EXCEPT ![i].status = "gone"]
    /\ staff_count' = SeatOfDeleted(request[r].held)
    /\ stale' = [stale EXCEPT !.seat = @ \/ request[r].held # (i \in Pending)]
    /\ Finished(r)
    /\ UNCHANGED <<row, users, owner, perms, version, cache, begun>>

\* RbacService.create_member: an address has one account.
Creates(r) ==
    LET p == request[r].on IN
    /\ request[r].op = "create"
    /\ MayCreate(p) /\ Room /\ Consumes
    /\ row' = Added(p, "campus")
    /\ users' = users \cup {p}
    /\ staff_count' = staff_count + 1
    /\ Finished(r)
    /\ UNCHANGED <<link, owner, perms, version, cache, begun, stale>>

\* A flush writes the columns that differ from what was read; of a removed membership it
\* changes nothing that counts.
Flush(m, read, new) ==
    IF Live(m) THEN [row EXCEPT ![m] = [c \in DOMAIN @ |->
                                           IF new[c] = read[c] THEN @[c] ELSE new[c]]]
    ELSE row

Taken(op, read) == IF op = "demote" THEN [read EXCEPT !.principal = FALSE]
                   ELSE [read EXCEPT !.status = IF op = "suspend" THEN "suspended"
                                                ELSE "removed"]

\* remove_member, change_member_role of a principal, set_member_status.
Takes(r) ==
    LET m == request[r].on IN
    /\ request[r].op \in {"remove", "demote", "suspend"}
    /\ row' = Flush(m, request[r].read, Taken(request[r].op, request[r].read))
    /\ staff_count' = IF request[r].op = "remove" THEN Released(1) ELSE staff_count
    /\ stale' = [stale EXCEPT !.seat = @ \/ (request[r].op = "remove" /\ ~Live(m)),
                              !.count = @ \/ ~NotLastOwner(m)]
    /\ Finished(r)
    /\ UNCHANGED <<link, users, owner, perms, version, cache, begun>>

Reactivates(r) ==
    LET m == request[r].on IN
    /\ request[r].op = "reactivate"
    /\ row' = Flush(m, request[r].read, [request[r].read EXCEPT !.status = "active"])
    /\ Finished(r)
    /\ UNCHANGED <<link, users, owner, staff_count, perms, version, cache, begun, stale>>

\* TenancyService.transfer_ownership: promote, then demote the membership of who was the
\* owner.
Transfers(r) ==
    LET m == request[r].on
        into == request[r].into
        out == request[r].out
        user == row[m].user
        promoted == IF into = NoOne THEN Added(user, "organization")
                    ELSE Flush(into, request[r].read,
                               [request[r].read EXCEPT !.principal = TRUE, !.status = "active"])
    IN  /\ request[r].op = "transfer"
        /\ into = NoOne => Room /\ Of(user, "organization") = {}
        /\ row' = IF out \in {NoOne, into} THEN promoted
                  ELSE [promoted EXCEPT ![out].status = "removed"]
        /\ owner' = user
        /\ stale' = [stale EXCEPT
                         !.owner = @ \/ out # OneOf(Of(owner, "organization")),
                         !.count = @ \/ (into # NoOne /\ row[into] # request[r].read)]
        /\ Finished(r)
        /\ UNCHANGED <<link, users, staff_count, perms, version, cache, begun>>

\* mutant: the version stays as it was
SameVersion(pv) == pv

\* permissions_version += 1, of the version read.
NextVersion(pv) == pv + 1

\* RbacService.set_permissions: the DELETE waits for another edit's rows and then does not
\* see the new ones, or it runs after that edit; then the new rows, and the version.
Edits(r) ==
    LET codes == request[r].codes
        raced == version # request[r].pv
    IN  /\ request[r].op = "edit"
        /\ \/ perms' = codes
           \/ raced /\ perms \cap codes = {} /\ perms' = perms \cup codes
        /\ version' = NextVersion(request[r].pv)
        /\ cache' = [v \in DOMAIN cache \ {request[r].pv} |-> cache[v]]
        /\ stale' = [stale EXCEPT !.role = @ \/ raced]
        /\ Finished(r)
        /\ UNCHANGED <<row, link, users, owner, staff_count, begun>>

\* get_role_permissions, of the version the request read: a miss loads the rows there are
\* then, and stores them.
Loads(r) ==
    LET pv == request[r].pv IN
    /\ request[r].op = "resolve"
    /\ IF pv \in DOMAIN cache THEN Finished(r)
       ELSE request' = [request EXCEPT ![r].op = "store", ![r].codes = perms]
    /\ UNCHANGED <<row, link, users, owner, staff_count, perms, version, cache, begun, stale>>

Stores(r) ==
    LET pv == request[r].pv IN
    /\ request[r].op = "store"
    /\ cache' = [v \in DOMAIN cache \cup {pv} |-> IF v = pv THEN request[r].codes ELSE cache[v]]
    /\ Finished(r)
    /\ UNCHANGED <<row, link, users, owner, staff_count, perms, version, begun, stale>>

\* An error: a limit, a unique index, a row that is gone, a guard of the request.
Fails(r) ==
    /\ request[r].op # "none"
    /\ Finished(r)
    /\ UNCHANGED <<row, link, users, owner, staff_count, perms, version, cache, begun, stale>>

\* expires_at passes.
Lapses(i) ==
    /\ link[i].status = "pending"
    /\ link' = [link EXCEPT ![i].status = "overdue"]
    /\ UNCHANGED <<row, users, owner, staff_count, perms, version, cache, request, begun, stale>>

\* The nightly expire_pending_invitations.
Sweeps ==
    /\ Overdue # {}
    /\ link' = Swept
    /\ staff_count' = Released(Cardinality(Overdue))
    /\ UNCHANGED <<row, users, owner, perms, version, cache, request, begun, stale>>

\* The TTL of a cached set, or Redis is down.
Evicts(v) ==
    /\ v \in DOMAIN cache
    /\ cache' = [w \in DOMAIN cache \ {v} |-> cache[w]]
    /\ UNCHANGED <<row, link, users, owner, staff_count, perms, version, request, begun, stale>>

Next == \/ \E r \in Requests :
              \/ \E p \in People : BeginsWithPerson(r, p)
              \/ \E i \in Links : BeginsWithLink(r, i)
              \/ \E m \in Rows : BeginsWithMember(r, m)
              \/ BeginsWithRole(r)
              \/ Invites(r) \/ Accepts(r) \/ Revokes(r) \/ Deletes(r) \/ Creates(r)
              \/ Takes(r) \/ Reactivates(r) \/ Transfers(r)
              \/ Edits(r) \/ Loads(r) \/ Stores(r) \/ Fails(r)
        \/ \E i \in Links : Lapses(i)
        \/ Sweeps
        \/ \E v \in DOMAIN cache : Evicts(v)

Spec == Init /\ [][Next]_vars

-----------------------------------------------------------------------------
(* Properties                                                              *)

\* The counter of seats is the members of the campus and the pending invitations, unless
\* an invitation or a membership changed under a request that gives its seat back, or two
\* transfers overlapped (invitations/service.py, "exactly their reserved staff seats").
SeatsAreHeld == \/ stale.seat \/ stale.owner
                \/ staff_count = Cardinality(OnCampus) + Cardinality(Pending)

\* The organization keeps an active principal, however transfers, removals and suspensions
\* follow each other or overlap, unless one committed on a count, or a membership, that
\* another had changed (rbac/service.py, "Invariant 4").
NeverOrphaned == stale.count \/ ActivePrincipals # {}

\* A cached set of the current version is the role's, so that a revoked permission is gone
\* with the next request, unless two edits of the role overlapped (core/cache.py, "The
\* version in the key is the invalidation strategy").
RevokedAtOnce == stale.role \/ (version \in DOMAIN cache => cache[version] = perms)
=============================================================================
