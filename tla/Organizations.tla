---------------------------- MODULE Organizations ----------------------------
(***************************************************************************)
(* One organization: its members, invitations, ownership transfers and the *)
(* assignments of one of its resources (organization-lifecycle.ts,         *)
(* organization-owner-lifecycle.ts, organization-assignments.ts,           *)
(* organization-resource-actor.ts), with the triggers of migrations 0028,  *)
(* 0030 and 0031.                                                          *)
(*                                                                         *)
(* Abstractions.  Every command locks the organization's row, so a command *)
(* is one step.  A command that carries an old version, and the replay of  *)
(* one under its key, write nothing; versions, keys and receipts are left  *)
(* out, and so are denials and the audit trail.  A member's row is the     *)
(* user's last one, and "episode" counts the user's rows.  Invitations and *)
(* the rows they made change state together, always, and are one record.   *)
(* The constraint trigger that aborts a transaction which leaves no owner  *)
(* is left out: OwnerKept says the stores alone never meet it.             *)
(***************************************************************************)
EXTENDS Naturals, FiniteSets

CONSTANTS Users,
          Ordinary,     \* the roles the member commands may give
          Interaction,  \* BOOLEAN: the resource is an Interaction, not a listing
          MaxEpisodes,  \* bound: how often a user is made a member
          MaxUnable     \* bound: how many accounts or phones lapse at a time

ASSUME OrganizationAssumption ==
  /\ Users # {} /\ MaxEpisodes \in Nat \ {0} /\ MaxUnable \in Nat
  /\ Interaction \in BOOLEAN
  /\ Ordinary \subseteq {"LISTING_MANAGER", "AGENT", "ANALYST"}

VARIABLES member,      \* organization_memberships, the last row of each user
          late,        \* the users whose invitation is past expires_at
          able,        \* the users with an ACTIVE account and a verified phone
          transfers,   \* organization_ownership_transfers that are pending
          assignments  \* organization_resource_assignments not revoked: (user, episode)

vars == <<member, late, able, transfers, assignments>>

Privileged == {"OWNER", "ADMIN"}
Roles == Privileged \cup Ordinary
Current == {"INVITED", "ACTIVE", "SUSPENDED"}

Is(u, roles) == member[u].state = "ACTIVE" /\ member[u].role \in roles
Acts(u, roles) == u \in able /\ Is(u, roles)

Init == \E creator \in Users :
  /\ member = [u \in Users |-> IF u = creator
                 THEN [role |-> "OWNER", state |-> "ACTIVE", episode |-> 1]
                 ELSE [role |-> "OWNER", state |-> "NONE", episode |-> 0]]
  /\ late = {} /\ able = Users /\ transfers = {} /\ assignments = {}

(* The trigger on memberships: a change ends the transfers it takes part   *)
(* in.                                                                     *)
Involved(t) == {t.source, t.recipient}

\* Mutant of Untouched: a transfer survives a change of its recipient.
UntouchedBySource(users) == {t \in transfers : t.source \notin users}
Untouched(users) == {t \in transfers : Involved(t) \cap users = {}}

Row(u, role, state) == [role |-> role, state |-> state, episode |-> member[u].episode]

Change(u, role, state) ==
  /\ member' = [member EXCEPT ![u] = Row(u, role, state)]
  /\ transfers' = Untouched({u})

(* Invitations.                                                            *)
Invited == {u \in Users : member[u].state = "INVITED"}

Swept == [u \in Users |-> IF u \in late THEN Row(u, member[u].role, "EXPIRED")
                                        ELSE member[u]]

Invite(actor, u, role) ==
  /\ Acts(actor, Privileged) /\ role \in Ordinary
  /\ u \in able /\ member[u].episode < MaxEpisodes
  /\ Swept[u].state \notin Current
  /\ member' = [Swept EXCEPT ![u] = [role |-> role, state |-> "INVITED",
                                     episode |-> member[u].episode + 1]]
  /\ late' = {}
  /\ UNCHANGED <<able, transfers, assignments>>

End(u, state) == Change(u, member[u].role, state) /\ late' = late \ {u}

Respond(u, answer) ==
  /\ u \in able \cap Invited /\ answer \in {"ACTIVE", "DECLINED"}
  /\ End(u, IF u \in late THEN "EXPIRED" ELSE answer)
  /\ UNCHANGED <<able, assignments>>

RevokeInvitation(actor, u) ==
  /\ Acts(actor, Privileged) /\ u \in Invited
  /\ End(u, IF u \in late THEN "EXPIRED" ELSE "REVOKED")
  /\ UNCHANGED <<able, assignments>>

ExpireInvitations ==
  /\ late # {}
  /\ member' = Swept /\ late' = {}
  /\ UNCHANGED <<able, transfers, assignments>>

(* Ordinary members, governed by owners and administrators.  A member who  *)
(* is not able may still be contained, but gets no role or state back.     *)
MutateMember(actor, u, role, state) ==
  /\ Acts(actor, Privileged)
  /\ {member[u].role, role} \subseteq Ordinary
  /\ \/ state = member[u].state /\ state \in {"ACTIVE", "SUSPENDED"} /\ u \in able
     \/ /\ role = member[u].role
        /\ \/ member[u].state = "ACTIVE" /\ state = "SUSPENDED"
           \/ member[u].state = "SUSPENDED" /\ state = "ACTIVE" /\ u \in able
           \/ member[u].state \in {"ACTIVE", "SUSPENDED"} /\ state = "REVOKED"
  /\ Change(u, role, state)
  /\ UNCHANGED <<late, able, assignments>>

\* Mutant of OtherOwners: invited, removed and suspended owners count.
OwnersAnyState(u) == {o \in Users \ {u} : member[o].role = "OWNER" /\ member[o].state # "NONE"}

(* Privileged members, governed by owners.                                 *)
OtherOwners(u) == {o \in Users \ {u} : Is(o, {"OWNER"})}

MutatePrivileged(actor, u, role, state) ==
  /\ Acts(actor, {"OWNER"})
  /\ {member[u].role, role} \cap Privileged # {}
  /\ \/ Is(u, Roles) /\ u \in able /\ role \in Roles \ {member[u].role} /\ state = "ACTIVE"
     \/ member[u].state \in {"ACTIVE", "SUSPENDED"} /\ role = member[u].role /\ state = "REVOKED"
  /\ member[u].role = "OWNER" => OtherOwners(u) # {}
  /\ Change(u, role, state)
  /\ UNCHANGED <<late, able, assignments>>

(* Ownership transfers.  "live" says that the session the recipient        *)
(* accepted in, and its step-up, still hold.                               *)
Initiate(actor, recipient, after) ==
  /\ Acts(actor, {"OWNER"}) /\ Acts(recipient, Roles \ {"OWNER"}) /\ after \in Ordinary
  /\ \A t \in transfers : actor # t.source /\ recipient # t.recipient
  /\ transfers' = transfers \cup {[source |-> actor, recipient |-> recipient, after |-> after,
                                   state |-> "PENDING_ACCEPTANCE", live |-> FALSE]}
  /\ UNCHANGED <<member, late, able, assignments>>

Replace(t, state, live) ==
  transfers' = (transfers \ {t}) \cup
    {[source |-> t.source, recipient |-> t.recipient, after |-> t.after,
      state |-> state, live |-> live]}

Standing(t) == Acts(t.source, {"OWNER"}) /\ Acts(t.recipient, Roles \ {"OWNER"})

Accept(t) ==
  /\ t.state = "PENDING_ACCEPTANCE" /\ Standing(t)
  /\ Replace(t, "ACCEPTED", TRUE)
  /\ UNCHANGED <<member, late, able, assignments>>

Complete(t) ==
  /\ t.state = "ACCEPTED" /\ t.live /\ Standing(t)
  /\ member' = [member EXCEPT ![t.recipient] = Row(t.recipient, "OWNER", "ACTIVE"),
                              ![t.source] = Row(t.source, t.after, "ACTIVE")]
  /\ transfers' = Untouched(Involved(t))
  /\ UNCHANGED <<late, able, assignments>>

Cancel(t) ==
  /\ Standing(t) /\ transfers' = transfers \ {t}
  /\ UNCHANGED <<member, late, able, assignments>>

(* Who may act on the resource, and the grants that extend it.             *)
Managers == {"OWNER", "ADMIN", "LISTING_MANAGER"}
ScopedRoles == IF Interaction THEN Privileged ELSE Managers

\* Mutant of Assigned: an assignment of an earlier membership still counts.
AssignedEver(u) == \E e \in 1..MaxEpisodes : <<u, e>> \in assignments
Assigned(u) == <<u, member[u].episode>> \in assignments

MayOperate(u) == /\ Acts(u, Managers \cup {"AGENT"})
                 /\ member[u].role \in ScopedRoles \/ Assigned(u)

(* The assignee's account is ACTIVE, the phone is not asked for: a member   *)
(* who is not able may be one who lacks only that.                         *)
Assign(actor, u) ==
  /\ Acts(actor, Managers) /\ Is(u, Managers \cup {"AGENT"})
  /\ assignments' = assignments \cup {<<u, member[u].episode>>}
  /\ UNCHANGED <<member, late, able, transfers>>

RevokeAssignment(actor, a) ==
  /\ Acts(actor, Managers)
  /\ assignments' = assignments \ {a}
  /\ UNCHANGED <<member, late, able, transfers>>

(* What the organization does not decide.                                  *)
RunsLate(u) == /\ late' = late \cup {u}
               /\ UNCHANGED <<member, able, transfers, assignments>>

AccountChanges(u) == /\ able' = (able \ {u}) \cup ({u} \ able)
                     /\ Cardinality(Users \ able') <= MaxUnable
                     /\ UNCHANGED <<member, late, transfers, assignments>>

SessionEnds(t) == /\ t.live
                  /\ Replace(t, t.state, FALSE)
                  /\ UNCHANGED <<member, late, able, assignments>>

Governs(actor, u) ==
  \/ \E role \in Ordinary : Invite(actor, u, role) \/ Initiate(actor, u, role)
  \/ RevokeInvitation(actor, u)
  \/ \E role \in Roles, state \in {"ACTIVE", "SUSPENDED", "REVOKED"} :
       MutateMember(actor, u, role, state) \/ MutatePrivileged(actor, u, role, state)
  \/ Assign(actor, u)

Next == \/ \E actor, u \in Users : Governs(actor, u)
        \/ \E u \in Users, answer \in {"ACTIVE", "DECLINED"} : Respond(u, answer)
        \/ \E t \in transfers : Accept(t) \/ Complete(t) \/ Cancel(t) \/ SessionEnds(t)
        \/ \E actor \in Users, a \in assignments : RevokeAssignment(actor, a)
        \/ \E u \in Invited \ late : RunsLate(u)
        \/ \E u \in Users : AccountChanges(u)
        \/ ExpireInvitations

Spec == Init /\ [][Next]_vars

-----------------------------------------------------------------------------
States == Current \cup {"NONE", "DECLINED", "EXPIRED", "REVOKED"}
Transfers == [source : Users, recipient : Users, after : Ordinary,
              state : {"PENDING_ACCEPTANCE", "ACCEPTED"}, live : BOOLEAN]

(* The state has its type.                                                 *)
OrganizationTypeOK ==
  /\ member \in [Users -> [role : Roles, state : States, episode : 0..MaxEpisodes]]
  /\ late \subseteq Invited /\ able \subseteq Users
  /\ transfers \subseteq Transfers
  /\ assignments \subseteq Users \X (0..MaxEpisodes)

(* An organization always has an active owner, whatever removals, role     *)
(* changes and transfers its owners make: the checks of the two stores     *)
(* suffice, and the deferred constraint never refuses a command.           *)
OwnerKept == \E u \in Users : Is(u, {"OWNER"})

(* A pending transfer is between a present owner and a present member who  *)
(* is not an owner: no command changes either without ending it.           *)
TransfersStand == \A t \in transfers : /\ Is(t.source, {"OWNER"})
                                       /\ Is(t.recipient, Roles \ {"OWNER"})

(* A person who left and is invited again starts without the assignments   *)
(* of the earlier membership.                                              *)
Joins(u) == member[u].state = "INVITED" /\ member'[u].state = "ACTIVE"

NoInheritedGrant ==
  [][\A u \in Users : Joins(u) /\ member'[u].role = "AGENT" => ~MayOperate(u)']_vars
=============================================================================
