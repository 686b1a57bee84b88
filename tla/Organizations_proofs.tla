------------------------- MODULE Organizations_proofs -------------------------
(***************************************************************************)
(* Proofs about module Organizations: whatever the number of users, roles  *)
(* and memberships, an organization keeps an active owner, a pending       *)
(* transfer stands between a present owner and a present member, and       *)
(* nobody acts on a grant of an earlier membership.                        *)
(*                                                                         *)
(* The inductive invariant is the type invariant with the first two        *)
(* properties: a transfer completes only because its two ends still stand, *)
(* and they are then two different members, so that the recipient's        *)
(* ownership replaces the source's.  The third property rests on another   *)
(* invariant, GrantsOfMembers.                                             *)
(***************************************************************************)
EXTENDS Organizations, TLAPS

IInv == OrganizationTypeOK /\ OwnerKept /\ TransfersStand

Member == [role : Roles, state : States, episode : 0..MaxEpisodes]

(* The rows of a member's type.                                            *)
LEMMA RowTypes ==
  ASSUME OrganizationTypeOK
  PROVE  /\ member \in [Users -> Member]
         /\ \A u \in Users : /\ member[u].role \in Roles
                             /\ member[u].state \in States
                             /\ member[u].episode \in 0..MaxEpisodes
BY DEF OrganizationTypeOK, Member

(* Change writes one row, and ends the transfers of that member.           *)
LEMMA ChangeTyped ==
  ASSUME OrganizationTypeOK, NEW u \in Users, NEW role \in Roles, NEW state \in States,
         Change(u, role, state)
  PROVE  /\ member' \in [Users -> Member]
         /\ \A w \in Users \ {u} : member'[w] = member[w]
         /\ member'[u].role = role /\ member'[u].state = state
         /\ transfers' \subseteq transfers
         /\ \A t \in transfers' : u # t.source /\ u # t.recipient
  <1>1. /\ member \in [Users -> Member] /\ member[u].episode \in 0..MaxEpisodes
    BY RowTypes
  <1>2. Row(u, role, state) \in Member
    BY <1>1 DEF Member, Row
  <1>3. member' = [member EXCEPT ![u] = Row(u, role, state)]
    BY DEF Change
  <1>4. transfers' = {t \in transfers : {t.source, t.recipient} \cap {u} = {}}
    BY DEF Change, Untouched, Involved
  <1>5. /\ transfers' \subseteq transfers
        /\ \A t \in transfers' : u # t.source /\ u # t.recipient
    BY <1>4
  <1>6. /\ member' \in [Users -> Member]
        /\ \A w \in Users \ {u} : member'[w] = member[w]
        /\ member'[u] = Row(u, role, state)
    BY <1>1, <1>2, <1>3
  <1>7. member'[u].role = role /\ member'[u].state = state
    BY <1>6 DEF Row
  <1>8. QED
    BY <1>5, <1>6, <1>7

(* A row written while another owner remains keeps the invariant.          *)
LEMMA ChangeKeeps ==
  ASSUME IInv, NEW u \in Users, NEW role \in Roles, NEW state \in States,
         Change(u, role, state), state # "INVITED",
         Is(u, {"OWNER"}) => OtherOwners(u) # {},
         late' = late \ {u}, UNCHANGED <<able, assignments>>
  PROVE  IInv'
  <1>. USE DEF IInv
  <1>1. /\ member' \in [Users -> Member]
        /\ \A w \in Users \ {u} : member'[w] = member[w]
        /\ member'[u].role = role /\ member'[u].state = state
        /\ transfers' \subseteq transfers
        /\ \A t \in transfers' : u # t.source /\ u # t.recipient
    BY ChangeTyped
  <1>2. transfers \subseteq Transfers
    BY DEF OrganizationTypeOK
  <1>3. late' \subseteq Invited'
    <2>1. late \subseteq Invited
      BY DEF OrganizationTypeOK
    <2>2. QED
      BY <1>1, <2>1 DEF Invited
  <1>4. OrganizationTypeOK'
    BY <1>1, <1>3 DEF OrganizationTypeOK, Member
  <1>5. OwnerKept'
    <2>1. PICK o \in Users \ {u} : Is(o, {"OWNER"})
      BY DEF OwnerKept, OtherOwners
    <2>2. QED
      BY <1>1, <2>1 DEF OwnerKept, Is
  <1>6. TransfersStand'
    <2>1. ASSUME NEW t \in transfers'
          PROVE  Is(t.source, {"OWNER"})' /\ Is(t.recipient, Roles \ {"OWNER"})'
      <3>1. /\ t \in transfers
            /\ t.source \in Users \ {u} /\ t.recipient \in Users \ {u}
        BY <1>1, <1>2 DEF Transfers
      <3>2. Is(t.source, {"OWNER"}) /\ Is(t.recipient, Roles \ {"OWNER"})
        BY <3>1 DEF TransfersStand
      <3>3. member'[t.source] = member[t.source] /\ member'[t.recipient] = member[t.recipient]
        BY <1>1, <3>1
      <3>4. QED
        BY <3>2, <3>3 DEF Is, Roles
    <2>2. QED
      BY <2>1 DEF TransfersStand
  <1>7. QED
    BY <1>4, <1>5, <1>6

(* The rows an owner or a member of a transfer has are ACTIVE: a step that *)
(* leaves ACTIVE rows alone and keeps a part of the transfers keeps the    *)
(* two properties.                                                         *)
LEMMA ActiveRowsKept ==
  ASSUME IInv, OrganizationTypeOK',
         \A w \in Users : member[w].state = "ACTIVE" => member'[w] = member[w],
         \A t \in transfers' : Is(t.source, {"OWNER"}) /\ Is(t.recipient, Roles \ {"OWNER"})
  PROVE  IInv'
  <1>1. OwnerKept'
    BY DEF IInv, OwnerKept, Is
  <1>2. TransfersStand'
    <2>1. ASSUME NEW t \in transfers'
          PROVE  Is(t.source, {"OWNER"})' /\ Is(t.recipient, Roles \ {"OWNER"})'
      <3>1. t.source \in Users /\ t.recipient \in Users
        BY DEF OrganizationTypeOK, Transfers
      <3>2. QED
        BY <3>1 DEF Is, Roles
    <2>2. QED
      BY <2>1 DEF TransfersStand
  <1>3. QED
    BY <1>1, <1>2 DEF IInv

LEMMA InitIInv == Init => IInv
  <1>. SUFFICES ASSUME Init PROVE IInv
    OBVIOUS
  <1>1. PICK creator \in Users :
          member = [u \in Users |-> IF u = creator
                      THEN [role |-> "OWNER", state |-> "ACTIVE", episode |-> 1]
                      ELSE [role |-> "OWNER", state |-> "NONE", episode |-> 0]]
    BY DEF Init
  <1>2. 0 \in 0..MaxEpisodes /\ 1 \in 0..MaxEpisodes
    BY OrganizationAssumption
  <1>3. member \in [Users -> Member]
    BY <1>1, <1>2 DEF Member, Roles, Privileged, States, Current
  <1>4. OrganizationTypeOK
    BY <1>3 DEF Init, OrganizationTypeOK, Member
  <1>5. OwnerKept
    BY <1>1 DEF OwnerKept, Is
  <1>6. QED
    BY <1>4, <1>5 DEF IInv, TransfersStand, Init

(* Invitations touch the rows of users who are not members.                *)
LEMMA SweptTyped ==
  ASSUME OrganizationTypeOK
  PROVE  /\ Swept \in [Users -> Member]
         /\ \A w \in Users : member[w].state = "ACTIVE" => Swept[w] = member[w]
  <1>1. /\ member \in [Users -> Member]
        /\ \A u \in Users : /\ member[u].role \in Roles
                            /\ member[u].episode \in 0..MaxEpisodes
    BY RowTypes
  <1>2. \A w \in late : Row(w, member[w].role, "EXPIRED") \in Member
    BY <1>1 DEF OrganizationTypeOK, Invited, Row, Member, States
  <1>3. \A w \in late : w \in Users /\ member[w].state = "INVITED"
    BY DEF OrganizationTypeOK, Invited
  <1>4. QED
    BY <1>1, <1>2, <1>3 DEF Swept

LEMMA InviteKeeps ==
  ASSUME IInv, NEW actor \in Users, NEW u \in Users, NEW role \in Ordinary, Invite(actor, u, role)
  PROVE  IInv'
  <1>. DEFINE row == [role |-> role, state |-> "INVITED", episode |-> member[u].episode + 1]
  <1>. USE DEF IInv
  <1>1. /\ Swept \in [Users -> Member]
        /\ \A w \in Users : member[w].state = "ACTIVE" => Swept[w] = member[w]
    BY SweptTyped
  <1>2. row \in Member
    <2>1. member[u].episode \in 0..MaxEpisodes /\ member[u].episode < MaxEpisodes
      BY RowTypes DEF Invite
    <2>2. member[u].episode + 1 \in 0..MaxEpisodes
      BY <2>1, OrganizationAssumption
    <2>3. QED
      BY <2>2 DEF Member, Roles, States, Current
  <1>3. member' = [Swept EXCEPT ![u] = row]
    BY DEF Invite
  <1>4. member' \in [Users -> Member]
    BY <1>1, <1>2, <1>3
  <1>5. OrganizationTypeOK'
    BY <1>4 DEF Invite, OrganizationTypeOK, Member
  <1>6. member[u].state # "ACTIVE"
    BY <1>1 DEF Invite, Current
  <1>7. \A w \in Users : member[w].state = "ACTIVE" => member'[w] = member[w]
    BY <1>1, <1>3, <1>6
  <1>8. \A t \in transfers' : Is(t.source, {"OWNER"}) /\ Is(t.recipient, Roles \ {"OWNER"})
    BY DEF Invite, TransfersStand
  <1>9. QED
    BY <1>5, <1>7, <1>8, ActiveRowsKept

LEMMA ExpireKeeps ==
  ASSUME IInv, ExpireInvitations
  PROVE  IInv'
  <1>. USE DEF IInv
  <1>1. /\ member' \in [Users -> Member]
        /\ \A w \in Users : member[w].state = "ACTIVE" => member'[w] = member[w]
    BY SweptTyped DEF ExpireInvitations
  <1>2. OrganizationTypeOK'
    BY <1>1 DEF ExpireInvitations, OrganizationTypeOK, Member
  <1>3. \A t \in transfers' : Is(t.source, {"OWNER"}) /\ Is(t.recipient, Roles \ {"OWNER"})
    BY DEF ExpireInvitations, TransfersStand
  <1>4. QED
    BY <1>1, <1>2, <1>3, ActiveRowsKept

(* An invitation is ended in a row that is INVITED, so never an owner's.   *)
LEMMA EndKeeps ==
  ASSUME IInv, NEW u \in Invited, NEW state \in States \ {"INVITED"}, End(u, state),
         UNCHANGED <<able, assignments>>
  PROVE  IInv'
  <1>1. u \in Users /\ member[u].state = "INVITED"
    BY DEF Invited
  <1>2. member[u].role \in Roles
    BY <1>1, RowTypes DEF IInv
  <1>3. Change(u, member[u].role, state) /\ late' = late \ {u}
    BY DEF End
  <1>4. ~Is(u, {"OWNER"})
    BY <1>1 DEF Is
  <1>5. QED
    BY <1>1, <1>2, <1>3, <1>4, ChangeKeeps

LEMMA AnswersKeep ==
  ASSUME IInv, NEW u \in Users, NEW answer \in {"ACTIVE", "DECLINED"}, Respond(u, answer)
  PROVE  IInv'
  <1>1. u \in Invited
    BY DEF Respond
  <1>2. (IF u \in late THEN "EXPIRED" ELSE answer) \in States \ {"INVITED"}
    BY DEF States, Current
  <1>3. QED
    BY <1>1, <1>2, EndKeeps DEF Respond

LEMMA RevocationsKeep ==
  ASSUME IInv, NEW actor \in Users, NEW u \in Users, RevokeInvitation(actor, u)
  PROVE  IInv'
  <1>1. u \in Invited
    BY DEF RevokeInvitation
  <1>2. (IF u \in late THEN "EXPIRED" ELSE "REVOKED") \in States \ {"INVITED"}
    BY DEF States, Current
  <1>3. QED
    BY <1>1, <1>2, EndKeeps DEF RevokeInvitation

(* Member commands write the row of a user who is not invited.             *)
LEMMA MutateMemberKeeps ==
  ASSUME IInv, NEW actor \in Users, NEW u \in Users, NEW role \in Roles,
         NEW state \in {"ACTIVE", "SUSPENDED", "REVOKED"}, MutateMember(actor, u, role, state)
  PROVE  IInv'
  <1>1. state \in States /\ state # "INVITED"
    BY DEF States, Current
  <1>2. u \notin late
    BY DEF MutateMember, IInv, OrganizationTypeOK, Invited
  <1>3. late' = late \ {u}
    BY <1>2 DEF MutateMember
  <1>4. ~Is(u, {"OWNER"})
    <2>1. member[u].role \in Ordinary
      BY DEF MutateMember
    <2>2. QED
      BY <2>1, OrganizationAssumption DEF Is
  <1>5. Change(u, role, state) /\ UNCHANGED <<able, assignments>>
    BY DEF MutateMember
  <1>6. QED
    BY <1>1, <1>3, <1>4, <1>5, ChangeKeeps

LEMMA MutatePrivilegedKeeps ==
  ASSUME IInv, NEW actor \in Users, NEW u \in Users, NEW role \in Roles,
         NEW state \in {"ACTIVE", "SUSPENDED", "REVOKED"}, MutatePrivileged(actor, u, role, state)
  PROVE  IInv'
  <1>1. state \in States /\ state # "INVITED"
    BY DEF States, Current
  <1>2. u \notin late
    BY DEF MutatePrivileged, Is, IInv, OrganizationTypeOK, Invited
  <1>3. late' = late \ {u}
    BY <1>2 DEF MutatePrivileged
  <1>4. Is(u, {"OWNER"}) => OtherOwners(u) # {}
    BY DEF MutatePrivileged, Is
  <1>5. Change(u, role, state) /\ UNCHANGED <<able, assignments>>
    BY DEF MutatePrivileged
  <1>6. QED
    BY <1>1, <1>3, <1>4, <1>5, ChangeKeeps

(* Transfers.                                                              *)
LEMMA PendingKeeps ==
  ASSUME IInv, UNCHANGED <<member, late, able, assignments>>, transfers' \subseteq Transfers,
         \A t \in transfers' : Is(t.source, {"OWNER"}) /\ Is(t.recipient, Roles \ {"OWNER"})
  PROVE  IInv'
  <1>1. OrganizationTypeOK'
    BY DEF IInv, OrganizationTypeOK, Invited
  <1>2. QED
    BY <1>1, ActiveRowsKept

LEMMA InitiateKeeps ==
  ASSUME IInv, NEW actor \in Users, NEW u \in Users, NEW after \in Ordinary,
         Initiate(actor, u, after)
  PROVE  IInv'
  <1>. DEFINE new == [source |-> actor, recipient |-> u, after |-> after,
                      state |-> "PENDING_ACCEPTANCE", live |-> FALSE]
  <1>1. new \in Transfers
    BY DEF Transfers
  <1>2. transfers' = transfers \cup {new} /\ transfers \subseteq Transfers
    BY DEF Initiate, IInv, OrganizationTypeOK
  <1>3. Is(new.source, {"OWNER"}) /\ Is(new.recipient, Roles \ {"OWNER"})
    BY DEF Initiate, Acts
  <1>4. \A t \in transfers' : Is(t.source, {"OWNER"}) /\ Is(t.recipient, Roles \ {"OWNER"})
    BY <1>2, <1>3 DEF IInv, TransfersStand
  <1>5. UNCHANGED <<member, late, able, assignments>>
    BY DEF Initiate
  <1>6. QED
    BY <1>1, <1>2, <1>4, <1>5, PendingKeeps

(* Accepting, ending a session and cancelling keep the ends of a transfer. *)
LEMMA ReplacedKeeps ==
  ASSUME IInv, NEW t \in transfers, NEW new \in Transfers,
         new.source = t.source, new.recipient = t.recipient,
         transfers' = (transfers \ {t}) \cup {new},
         UNCHANGED <<member, late, able, assignments>>
  PROVE  IInv'
  <1>1. transfers' \subseteq Transfers
    BY DEF IInv, OrganizationTypeOK
  <1>2. \A x \in transfers' : Is(x.source, {"OWNER"}) /\ Is(x.recipient, Roles \ {"OWNER"})
    BY DEF IInv, TransfersStand
  <1>3. QED
    BY <1>1, <1>2, PendingKeeps

LEMMA TransferTyped ==
  ASSUME IInv, NEW t \in transfers
  PROVE  /\ t \in Transfers
         /\ t.source \in Users /\ t.recipient \in Users /\ t.after \in Ordinary
         /\ t.state \in {"PENDING_ACCEPTANCE", "ACCEPTED"} /\ t.live \in BOOLEAN
BY DEF IInv, OrganizationTypeOK, Transfers

LEMMA ReplaceKeeps ==
  ASSUME IInv, NEW t \in transfers, NEW state \in {"PENDING_ACCEPTANCE", "ACCEPTED"},
         NEW live \in BOOLEAN, Replace(t, state, live),
         UNCHANGED <<member, late, able, assignments>>
  PROVE  IInv'
  <1>. DEFINE new == [source |-> t.source, recipient |-> t.recipient, after |-> t.after,
                      state |-> state, live |-> live]
  <1>1. t.source \in Users /\ t.recipient \in Users /\ t.after \in Ordinary
    BY TransferTyped
  <1>2. new \in Transfers
    BY <1>1 DEF Transfers
  <1>3. transfers' = (transfers \ {t}) \cup {new}
    BY DEF Replace
  <1>4. new.source = t.source /\ new.recipient = t.recipient
    OBVIOUS
  <1>. HIDE DEF new
  <1>5. QED
    BY <1>2, <1>3, <1>4, ReplacedKeeps

(* A completed transfer: both ends stand, so they are two members, and the *)
(* recipient is an owner when the source no longer is.                     *)
LEMMA CompleteKeeps ==
  ASSUME IInv, NEW t \in transfers, Complete(t)
  PROVE  IInv'
  <1>. DEFINE r == t.recipient
              s == t.source
  <1>1. r \in Users /\ s \in Users /\ t.after \in Ordinary
    BY TransferTyped
  <1>2. Is(s, {"OWNER"}) /\ Is(r, Roles \ {"OWNER"}) /\ r # s
    BY DEF Complete, Standing, Acts, Is
  <1>3. /\ member \in [Users -> Member]
        /\ member[r].episode \in 0..MaxEpisodes /\ member[s].episode \in 0..MaxEpisodes
    BY <1>1, RowTypes DEF IInv
  <1>4. /\ Row(r, "OWNER", "ACTIVE") \in Member /\ Row(s, t.after, "ACTIVE") \in Member
        /\ Row(r, "OWNER", "ACTIVE").role = "OWNER" /\ Row(r, "OWNER", "ACTIVE").state = "ACTIVE"
    BY <1>1, <1>3 DEF Row, Member, Roles, Privileged, States, Current
  <1>5. member' = [member EXCEPT ![r] = Row(r, "OWNER", "ACTIVE"), ![s] = Row(s, t.after, "ACTIVE")]
    BY DEF Complete
  <1>6. /\ member' \in [Users -> Member]
        /\ member'[r] = Row(r, "OWNER", "ACTIVE")
        /\ \A w \in Users \ {r, s} : member'[w] = member[w]
    BY <1>1, <1>2, <1>3, <1>4, <1>5
  <1>7. /\ transfers' \subseteq transfers
        /\ \A x \in transfers' : {x.source, x.recipient} \cap {r, s} = {}
    BY DEF Complete, Untouched, Involved
  <1>8. OrganizationTypeOK'
    <2>1. \A w \in late : w \in Users \ {r, s} /\ member[w].state = "INVITED"
      BY <1>2 DEF IInv, OrganizationTypeOK, Invited, Is
    <2>2. late' \subseteq Invited'
      BY <1>6, <2>1 DEF Complete, Invited
    <2>3. QED
      BY <1>6, <1>7, <2>2 DEF Complete, IInv, OrganizationTypeOK, Member
  <1>9. OwnerKept'
    BY <1>1, <1>4, <1>6 DEF OwnerKept, Is
  <1>10. TransfersStand'
    <2>1. ASSUME NEW x \in transfers'
          PROVE  Is(x.source, {"OWNER"})' /\ Is(x.recipient, Roles \ {"OWNER"})'
      <3>1. x \in transfers /\ x.source \in Users \ {r, s} /\ x.recipient \in Users \ {r, s}
        BY <1>7, TransferTyped
      <3>2. Is(x.source, {"OWNER"}) /\ Is(x.recipient, Roles \ {"OWNER"})
        BY <3>1 DEF IInv, TransfersStand
      <3>3. QED
        BY <1>6, <3>1, <3>2 DEF Is, Roles
    <2>2. QED
      BY <2>1 DEF TransfersStand
  <1>11. QED
    BY <1>8, <1>9, <1>10 DEF IInv

(* What leaves members and transfers alone.                                *)
LEMMA OtherStepsKeep ==
  ASSUME IInv, UNCHANGED member, transfers' \subseteq transfers,
         late' \subseteq Invited, able' \subseteq Users,
         assignments' \subseteq Users \X (0..MaxEpisodes)
  PROVE  IInv'
  <1>1. OrganizationTypeOK'
    BY DEF IInv, OrganizationTypeOK, Invited
  <1>2. \A t \in transfers' : Is(t.source, {"OWNER"}) /\ Is(t.recipient, Roles \ {"OWNER"})
    BY DEF IInv, TransfersStand
  <1>3. QED
    BY <1>1, <1>2, ActiveRowsKept

LEMMA StepIInv == IInv /\ [Next]_vars => IInv'
  <1>. SUFFICES ASSUME IInv, [Next]_vars PROVE IInv'
    OBVIOUS
  <1>0. /\ late \subseteq Invited /\ able \subseteq Users
        /\ assignments \subseteq Users \X (0..MaxEpisodes)
    BY DEF IInv, OrganizationTypeOK
  <1>1. ASSUME NEW actor \in Users, NEW u \in Users, Governs(actor, u)
        PROVE  IInv'
    <2>1. ASSUME NEW role \in Ordinary, Invite(actor, u, role) PROVE IInv'
      BY <2>1, InviteKeeps
    <2>2. ASSUME NEW role \in Ordinary, Initiate(actor, u, role) PROVE IInv'
      BY <2>2, InitiateKeeps
    <2>3. CASE RevokeInvitation(actor, u)
      BY <2>3, RevocationsKeep
    <2>4. ASSUME NEW role \in Roles, NEW state \in {"ACTIVE", "SUSPENDED", "REVOKED"},
                 MutateMember(actor, u, role, state)
          PROVE  IInv'
      BY <2>4, MutateMemberKeeps
    <2>5. ASSUME NEW role \in Roles, NEW state \in {"ACTIVE", "SUSPENDED", "REVOKED"},
                 MutatePrivileged(actor, u, role, state)
          PROVE  IInv'
      BY <2>5, MutatePrivilegedKeeps
    <2>6. CASE Assign(actor, u)
      <3>1. member[u].episode \in 0..MaxEpisodes
        BY RowTypes DEF IInv
      <3>2. assignments' \subseteq Users \X (0..MaxEpisodes)
        BY <1>0, <2>6, <3>1 DEF Assign
      <3>3. QED
        BY <1>0, <2>6, <3>2, OtherStepsKeep DEF Assign
    <2>7. QED
      BY <1>1, <2>1, <2>2, <2>3, <2>4, <2>5, <2>6 DEF Governs
  <1>2. ASSUME NEW u \in Users, NEW answer \in {"ACTIVE", "DECLINED"}, Respond(u, answer)
        PROVE  IInv'
    BY <1>2, AnswersKeep
  <1>3. ASSUME NEW t \in transfers, Accept(t) \/ Complete(t) \/ Cancel(t) \/ SessionEnds(t)
        PROVE  IInv'
    <2>1. CASE Accept(t)
      BY <2>1, ReplaceKeeps DEF Accept
    <2>2. CASE Complete(t)
      BY <2>2, CompleteKeeps
    <2>3. CASE Cancel(t)
      BY <1>0, <2>3, OtherStepsKeep DEF Cancel
    <2>4. CASE SessionEnds(t)
      BY <2>4, TransferTyped, ReplaceKeeps DEF SessionEnds
    <2>5. QED
      BY <1>3, <2>1, <2>2, <2>3, <2>4
  <1>4. ASSUME NEW actor \in Users, NEW a \in assignments, RevokeAssignment(actor, a)
        PROVE  IInv'
    BY <1>0, <1>4, OtherStepsKeep DEF RevokeAssignment
  <1>5. ASSUME NEW u \in Invited \ late, RunsLate(u)
        PROVE  IInv'
    BY <1>0, <1>5, OtherStepsKeep DEF RunsLate
  <1>6. ASSUME NEW u \in Users, AccountChanges(u)
        PROVE  IInv'
    BY <1>0, <1>6, OtherStepsKeep DEF AccountChanges
  <1>7. CASE ExpireInvitations
    BY <1>7, ExpireKeeps
  <1>8. CASE UNCHANGED vars
    BY <1>0, <1>8, OtherStepsKeep DEF vars
  <1>9. QED
    BY <1>1, <1>2, <1>3, <1>4, <1>5, <1>6, <1>7, <1>8 DEF Next

(* The invariant holds of every behaviour.                                 *)
THEOREM OrganizationInvariant == Spec => []IInv
  BY InitIInv, StepIInv, PTL DEF Spec

(* No removal, role change or transfer leaves an organization without an   *)
(* active owner, whatever the users and roles (mutateMember and            *)
(* transferCommand of organization-owner-lifecycle.ts).                    *)
THEOREM OwnerCorrect == Spec => []OwnerKept
  BY OrganizationInvariant, PTL DEF IInv

(* A pending ownership transfer is always between a present owner and a    *)
(* present member who owns nothing (the trigger of migration 0031 ends it  *)
(* otherwise).                                                             *)
THEOREM TransfersCorrect == Spec => []TransfersStand
  BY OrganizationInvariant, PTL DEF IInv

-----------------------------------------------------------------------------
(* Nothing carries a grant over.  An assignment names a membership its user *)
(* has had, and never one that is still an invitation: an invitation counts *)
(* a new membership, and only active members are assigned.                  *)
GrantsOfMembers ==
  \A u \in Users, e \in 0..MaxEpisodes : <<u, e>> \in assignments =>
    /\ e <= member[u].episode
    /\ member[u].state = "INVITED" => e # member[u].episode

(* What a step does to one row: it keeps the membership and invites nobody, *)
(* or it begins a new membership with an invitation.                        *)
Continues(u) == /\ member'[u].episode = member[u].episode
                /\ member'[u].state = "INVITED" => member[u].state = "INVITED"
Begins(u) == /\ member'[u].episode = member[u].episode + 1
             /\ member'[u].state = "INVITED"

LEMMA ChangeContinues ==
  ASSUME OrganizationTypeOK, NEW u \in Users, NEW role \in Roles, NEW state \in States,
         Change(u, role, state), state # "INVITED"
  PROVE  \A w \in Users : Continues(w)
  <1>1. /\ member \in [Users -> Member]
        /\ member' = [member EXCEPT ![u] = Row(u, role, state)]
    BY RowTypes DEF Change
  <1>2. Row(u, role, state).episode = member[u].episode /\ Row(u, role, state).state = state
    BY DEF Row
  <1>3. QED
    BY <1>1, <1>2 DEF Continues

(* An invitation that ran out stays the membership it was.                  *)
LEMMA SweptContinues ==
  ASSUME NEW u \in Users
  PROVE  /\ Swept[u].episode = member[u].episode
         /\ Swept[u].state = "INVITED" => member[u].state = "INVITED"
  BY DEF Swept, Row

LEMMA InviteBegins ==
  ASSUME OrganizationTypeOK, NEW actor \in Users, NEW u \in Users, NEW role \in Ordinary,
         Invite(actor, u, role)
  PROVE  \A w \in Users : Continues(w) \/ Begins(w)
  <1>. DEFINE row == [role |-> role, state |-> "INVITED", episode |-> member[u].episode + 1]
  <1>1. Swept = [w \in Users |-> Swept[w]] /\ member' = [Swept EXCEPT ![u] = row]
    BY DEF Swept, Invite
  <1>2. row.state = "INVITED" /\ row.episode = member[u].episode + 1
    OBVIOUS
  <1>. HIDE DEF row
  <1>3. member'[u] = row /\ \A w \in Users \ {u} : member'[w] = Swept[w]
    BY <1>1
  <1>4. Begins(u)
    BY <1>2, <1>3 DEF Begins
  <1>5. \A w \in Users \ {u} : Continues(w)
    BY <1>3, SweptContinues DEF Continues
  <1>6. QED
    BY <1>4, <1>5

LEMMA CompleteContinues ==
  ASSUME IInv, NEW t \in transfers, Complete(t)
  PROVE  \A w \in Users : Continues(w)
  <1>. DEFINE r == t.recipient
              s == t.source
  <1>1. r \in Users /\ s \in Users /\ member \in [Users -> Member]
    BY TransferTyped, RowTypes DEF IInv
  <1>2. member' = [member EXCEPT ![r] = Row(r, "OWNER", "ACTIVE"), ![s] = Row(s, t.after, "ACTIVE")]
    BY DEF Complete
  <1>3. /\ Row(r, "OWNER", "ACTIVE").episode = member[r].episode
        /\ Row(r, "OWNER", "ACTIVE").state = "ACTIVE"
        /\ Row(s, t.after, "ACTIVE").episode = member[s].episode
        /\ Row(s, t.after, "ACTIVE").state = "ACTIVE"
    BY DEF Row
  <1>4. ASSUME NEW w \in Users PROVE Continues(w)
    <2>1. \/ member'[w] = member[w]
          \/ w = r /\ member'[w] = Row(r, "OWNER", "ACTIVE")
          \/ w = s /\ member'[w] = Row(s, t.after, "ACTIVE")
      BY <1>1, <1>2
    <2>2. QED
      BY <1>3, <2>1 DEF Continues
  <1>5. QED
    BY <1>4

(* Every step: rows continue or begin, and the only step that grants leaves *)
(* the rows alone and grants to an active member.                           *)
Grants == \E u \in Users : /\ member[u].state = "ACTIVE"
                           /\ assignments' = assignments \cup {<<u, member[u].episode>>}
                           /\ UNCHANGED member

LEMMA StepContinues ==
  ASSUME IInv, [Next]_vars
  PROVE  /\ \A w \in Users : Continues(w) \/ Begins(w)
         /\ assignments' \subseteq assignments \/ Grants
  <1>. DEFINE Goal == /\ \A w \in Users : Continues(w) \/ Begins(w)
                      /\ assignments' \subseteq assignments \/ Grants
  <1>0. OrganizationTypeOK /\ \A w \in Users : member[w].role \in Roles
    BY RowTypes DEF IInv
  <1>a. {"ACTIVE", "SUSPENDED", "REVOKED", "EXPIRED", "DECLINED"} \subseteq States
    BY DEF States, Current
  <1>b. ASSUME UNCHANGED member PROVE \A w \in Users : Continues(w)
    BY <1>b DEF Continues
  <1>1. ASSUME NEW actor \in Users, NEW u \in Users, Governs(actor, u)
        PROVE  Goal
    <2>1. ASSUME NEW role \in Ordinary, Invite(actor, u, role) PROVE Goal
      <3>1. UNCHANGED assignments
        BY <2>1 DEF Invite
      <3>2. QED
        BY <1>0, <2>1, <3>1, InviteBegins
    <2>2. ASSUME NEW role \in Ordinary, Initiate(actor, u, role) PROVE Goal
      BY <1>b, <2>2 DEF Initiate
    <2>3. CASE RevokeInvitation(actor, u)
      <3>1. PICK state \in {"EXPIRED", "REVOKED"} : Change(u, member[u].role, state)
        BY <2>3 DEF RevokeInvitation, End
      <3>2. UNCHANGED assignments
        BY <2>3 DEF RevokeInvitation
      <3>3. QED
        BY <1>0, <1>a, <3>1, <3>2, ChangeContinues
    <2>4. ASSUME NEW role \in Roles, NEW state \in {"ACTIVE", "SUSPENDED", "REVOKED"},
                 MutateMember(actor, u, role, state) \/ MutatePrivileged(actor, u, role, state)
          PROVE  Goal
      <3>1. Change(u, role, state) /\ UNCHANGED assignments
        BY <2>4 DEF MutateMember, MutatePrivileged
      <3>2. QED
        BY <1>0, <1>a, <3>1, ChangeContinues
    <2>5. CASE Assign(actor, u)
      <3>1. Grants
        BY <2>5 DEF Assign, Grants, Acts, Is
      <3>2. QED
        BY <1>b, <2>5, <3>1 DEF Assign
    <2>6. QED
      BY <1>1, <2>1, <2>2, <2>3, <2>4, <2>5 DEF Governs
  <1>2. ASSUME NEW u \in Users, NEW answer \in {"ACTIVE", "DECLINED"}, Respond(u, answer)
        PROVE  Goal
    <2>1. PICK state \in {"EXPIRED", "ACTIVE", "DECLINED"} : Change(u, member[u].role, state)
      BY <1>2 DEF Respond, End
    <2>2. UNCHANGED assignments
      BY <1>2 DEF Respond
    <2>3. QED
      BY <1>0, <1>a, <2>1, <2>2, ChangeContinues
  <1>3. ASSUME NEW t \in transfers, Accept(t) \/ Complete(t) \/ Cancel(t) \/ SessionEnds(t)
        PROVE  Goal
    <2>1. CASE Complete(t)
      <3>1. UNCHANGED assignments
        BY <2>1 DEF Complete
      <3>2. QED
        BY <2>1, <3>1, CompleteContinues
    <2>2. CASE Accept(t) \/ Cancel(t) \/ SessionEnds(t)
      BY <1>b, <2>2 DEF Accept, Cancel, SessionEnds
    <2>3. QED
      BY <1>3, <2>1, <2>2
  <1>4. ASSUME NEW actor \in Users, NEW a \in assignments, RevokeAssignment(actor, a)
        PROVE  Goal
    BY <1>b, <1>4 DEF RevokeAssignment
  <1>5. ASSUME NEW u \in Users, RunsLate(u) \/ AccountChanges(u)
        PROVE  Goal
    BY <1>b, <1>5 DEF RunsLate, AccountChanges
  <1>6. CASE ExpireInvitations
    <2>1. member' = Swept /\ UNCHANGED assignments
      BY <1>6 DEF ExpireInvitations
    <2>2. \A w \in Users : Continues(w)
      BY <2>1, SweptContinues DEF Continues
    <2>3. QED
      BY <2>1, <2>2
  <1>7. CASE UNCHANGED vars
    BY <1>b, <1>7 DEF vars
  <1>8. QED
    BY <1>1, <1>2, <1>3, <1>4, <1>5, <1>6, <1>7 DEF Next, Invited

LEMMA GrantsKept ==
  ASSUME IInv, GrantsOfMembers, [Next]_vars
  PROVE  GrantsOfMembers'
  <1>1. /\ \A w \in Users : Continues(w) \/ Begins(w)
        /\ assignments' \subseteq assignments \/ Grants
    BY StepContinues
  <1>2. ASSUME NEW u \in Users, NEW e \in 0..MaxEpisodes, <<u, e>> \in assignments'
        PROVE  /\ e <= member'[u].episode
               /\ member'[u].state = "INVITED" => e # member'[u].episode
    <2>0. member[u].episode \in Nat /\ e \in Nat
      BY RowTypes, OrganizationAssumption DEF IInv
    <2>1. CASE <<u, e>> \in assignments
      <3>1. /\ e <= member[u].episode
            /\ member[u].state = "INVITED" => e # member[u].episode
        BY <2>1 DEF GrantsOfMembers
      <3>2. QED
        BY <1>1, <2>0, <3>1 DEF Continues, Begins
    <2>2. CASE <<u, e>> \notin assignments
      <3>1. PICK w \in Users : /\ member[w].state = "ACTIVE" /\ UNCHANGED member
                               /\ assignments' = assignments \cup {<<w, member[w].episode>>}
        BY <1>1, <1>2, <2>2 DEF Grants
      <3>2. u = w /\ e = member[w].episode
        BY <1>2, <2>2, <3>1
      <3>3. QED
        BY <2>0, <3>1, <3>2
    <2>3. QED
      BY <2>1, <2>2
  <1>3. QED
    BY <1>2 DEF GrantsOfMembers

LEMMA JoinsWithoutGrant ==
  ASSUME IInv, GrantsOfMembers, [Next]_vars,
         NEW u \in Users, Joins(u), member'[u].role = "AGENT"
  PROVE  ~MayOperate(u)'
  <1>1. member[u].state = "INVITED" /\ member'[u].state = "ACTIVE"
    BY DEF Joins
  <1>2. assignments' \subseteq assignments
    BY <1>1, StepContinues DEF Grants
  <1>3. member'[u].episode = member[u].episode
    BY <1>1, StepContinues DEF Continues, Begins
  <1>4. member[u].episode \in 0..MaxEpisodes
    BY RowTypes DEF IInv
  <1>5. <<u, member[u].episode>> \notin assignments
    BY <1>1, <1>4 DEF GrantsOfMembers
  <1>6. ~Assigned(u)'
    BY <1>2, <1>3, <1>5 DEF Assigned
  <1>7. "AGENT" \notin ScopedRoles
    BY DEF ScopedRoles, Privileged, Managers
  <1>8. QED
    BY <1>6, <1>7 DEF MayOperate, ScopedRoles, Privileged, Managers

(* Nobody who joins, for the first time or again, may act on a resource by  *)
(* an assignment of an earlier membership (organization-resource-actor.ts,  *)
(* which asks for the assignment of the present membership).                *)
THEOREM GrantsCorrect == Spec => NoInheritedGrant
  <1>1. Init => GrantsOfMembers
    BY DEF Init, GrantsOfMembers
  <1>2. IInv /\ GrantsOfMembers /\ [Next]_vars => GrantsOfMembers'
    BY GrantsKept
  <1>3. IInv /\ GrantsOfMembers /\ [Next]_vars =>
          [\A u \in Users : Joins(u) /\ member'[u].role = "AGENT" => ~MayOperate(u)']_vars
    BY JoinsWithoutGrant
  <1>4. QED
    BY <1>1, <1>2, <1>3, OrganizationInvariant, PTL DEF Spec, NoInheritedGrant
=============================================================================
