---------------------------- MODULE Credentials -----------------------------
(***************************************************************************)
(* One trade route between two ports: its enrolment from an invitation,    *)
(* its permission state on both sides and the rotation of its credential   *)
(* (server/src/api/trade.rs, server/src/store/trade.rs).                   *)
(*                                                                         *)
(* The sending port runs calls: refreshes (of the monitoring worker, an    *)
(* export or the Test button) and rotations.  Every store call and every   *)
(* exchange with the receiving port is a step; an exchange has the step of *)
(* the receiver and then the reply, and LoseCall loses either.  Signatures *)
(* and clocks are taken to verify.  A credential is a number; the sender   *)
(* mints them in order.                                                    *)
(***************************************************************************)
EXTENDS Integers

CONSTANTS
  Calls,      \* calls the sending port may have under way
  Serial,     \* one call at a time
  MaxCred,    \* bound: credentials minted
  MaxLosses,  \* bound: exchanges and processes lost
  MaxEdits    \* bound: permission changes by the two operators

ASSUME CredentialsAssumption ==
  /\ Serial \in BOOLEAN /\ MaxCred \in Nat \ {0} /\ {MaxLosses, MaxEdits} \subseteq Nat

VARIABLES
  invite,  \* trade_invitations: open, redeemed or gone (expired, pruned)
  peer,    \* the receiver's route: state, cred (its hash)
  mine,    \* the sender's route: state, enrolled (remote_grant), remote, cred
  pending, \* trade_rotations: the next credential, or 0
  call,
  minted, losses, edits,
  dropped  \* a refresh took away a pending credential that it had not made the current one

cvars == <<invite, peer, mine, pending, call, minted, losses, edits, dropped>>

Quiet == [pc |-> "idle", old |-> 0, next |-> 0, reply |-> "none"]
PermissionStates == {"pending_approval", "active", "paused", "revoked"}

CredentialsInit ==
  /\ invite = "open" /\ peer = [state |-> "none", cred |-> 0]
  /\ mine = [state |-> "none", enrolled |-> FALSE, remote |-> "none", cred |-> 0]
  /\ pending = 0 /\ call = [c \in Calls |-> Quiet]
  /\ minted = 0 /\ losses = 0 /\ edits = 0 /\ dropped = FALSE

\* The call goes on at p, or ends.
At(c, p) == call' = [call EXCEPT ![c].pc = p]
EndCall(c) == call' = [call EXCEPT ![c] = Quiet]
MayBegin(c) ==
  /\ call[c].pc = "idle"
  /\ Serial => \A d \in Calls : call[d].pc = "idle"

-----------------------------------------------------------------------------
(* Enrolment.                                                              *)

\* accept: save_outgoing_trade stores the route with a new credential, and
\* its first enrolment attempt follows.
AcceptInvitation(c) ==
  /\ mine.state = "none" /\ MayBegin(c)
  /\ minted' = minted + 1
  /\ mine' = [state |-> "pending_approval", enrolled |-> FALSE, remote |-> "none",
              cred |-> minted']
  /\ call' = [call EXCEPT ![c] = [Quiet EXCEPT !.pc = "enroll", !.old = minted']]
  /\ UNCHANGED <<invite, peer, pending, losses, edits, dropped>>

\* enroll and redeem_trade_invitation at the receiver: one route per
\* invitation; a repeat is answered if it shows the credential the route has.
PeerEnrolls(c, expected) ==
  /\ call[c].pc = "enroll"
  /\ \/ /\ invite = "open"
        /\ invite' = "redeemed"
        /\ peer' = [state |-> IF expected THEN "active" ELSE "pending_approval",
                    cred |-> call[c].old]
     \/ invite = "redeemed" /\ peer.cred = call[c].old /\ UNCHANGED <<invite, peer>>
  /\ call' = [call EXCEPT ![c] = [@ EXCEPT !.pc = "enrolled", !.reply = peer'.state]]
  /\ UNCHANGED <<mine, pending, minted, losses, edits, dropped>>

\* An expired or pruned invitation, or another credential, is refused.
PeerRefusesEnrolment(c) ==
  /\ call[c].pc = "enroll"
  /\ invite = "gone" \/ (invite = "redeemed" /\ peer.cred # call[c].old)
  /\ EndCall(c)
  /\ UNCHANGED <<invite, peer, mine, pending, minted, losses, edits, dropped>>

\* finish_trade_enrollment, once; a pause or revocation made meanwhile stays.
FinishEnrolment(c) ==
  /\ call[c].pc = "enrolled"
  /\ mine' = IF mine.enrolled THEN mine
             ELSE [mine EXCEPT !.enrolled = TRUE, !.remote = call[c].reply,
                               !.state = IF @ \in {"paused", "revoked"} THEN @ ELSE call[c].reply]
  /\ EndCall(c)
  /\ UNCHANGED <<invite, peer, pending, minted, losses, edits, dropped>>

\* The invitation's deadline; prune_trade_invitations.
InvitationExpires ==
  /\ invite = "open" /\ invite' = "gone"
  /\ UNCHANGED <<peer, mine, pending, call, minted, losses, edits, dropped>>

-----------------------------------------------------------------------------
(* Refresh (refresh_route_inner).                                          *)

\* An unenrolled route is enrolled instead.
BeginRefresh(c) ==
  /\ mine.state # "none" /\ MayBegin(c)
  /\ call' = [call EXCEPT ![c] = [Quiet EXCEPT !.pc = IF mine.enrolled THEN "status" ELSE "enroll",
                                               !.old = mine.cred]]
  /\ UNCHANGED <<invite, peer, mine, pending, minted, losses, edits, dropped>>

\* status at the receiver, with the credential the sender read.
PeerStatus(c) ==
  /\ call[c].pc = "status"
  /\ LET answer == IF peer.cred = call[c].old THEN "answered" ELSE "refused"
     IN call' = [call EXCEPT ![c] = [@ EXCEPT !.pc = answer, !.reply = peer.state]]
  /\ UNCHANGED <<invite, peer, mine, pending, minted, losses, edits, dropped>>

\* Mutant: a refused refresh waits for the administrator.
TryPendingNever(c) ==
  /\ call[c].pc = "refused"
  /\ EndCall(c)
  /\ UNCHANGED <<invite, peer, mine, pending, minted, losses, edits, dropped>>

\* Unauthorized: the credential of a rotation in flight is tried.
TryPending(c) ==
  /\ call[c].pc = "refused"
  /\ IF pending = 0 THEN EndCall(c)
     ELSE call' = [call EXCEPT ![c] = [@ EXCEPT !.pc = "retry", !.next = pending]]
  /\ UNCHANGED <<invite, peer, mine, pending, minted, losses, edits, dropped>>
PeerStatusNext(c) ==
  /\ call[c].pc = "retry"
  /\ IF peer.cred = call[c].next
     THEN call' = [call EXCEPT ![c] = [@ EXCEPT !.pc = "moved", !.reply = peer.state]]
     ELSE EndCall(c)
  /\ UNCHANGED <<invite, peer, mine, pending, minted, losses, edits, dropped>>

\* rotate_trade_credential at the sender: done already, done now, or refused.
Rotates(c) == mine.cred \in {call[c].old, call[c].next}
Rotated(c) == IF Rotates(c) THEN [mine EXCEPT !.cred = call[c].next] ELSE mine

\* The refresh finishes the rotation; a refusal is passed over when the
\* credential is no longer the one it read.
AdoptMoved(c) ==
  /\ call[c].pc = "moved"
  /\ mine' = Rotated(c)
  /\ At(c, "clear")
  /\ UNCHANGED <<invite, peer, pending, minted, losses, edits, dropped>>

\* clear_trade_rotation, by the credential.
ClearMoved(c) ==
  /\ call[c].pc = "clear"
  /\ pending' = IF pending = call[c].next THEN 0 ELSE pending
  /\ dropped' = (dropped \/ (pending = call[c].next /\ mine.cred # pending))
  /\ At(c, "answered")
  /\ UNCHANGED <<invite, peer, mine, minted, losses, edits>>

\* trade_contact: an approval by the receiver opens the route here.
Contact(c) ==
  /\ call[c].pc = "answered"
  /\ mine' = [mine EXCEPT !.remote = call[c].reply,
                          !.state = IF @ = "pending_approval" /\ call[c].reply = "active"
                                    THEN "active" ELSE @]
  /\ EndCall(c)
  /\ UNCHANGED <<invite, peer, pending, minted, losses, edits, dropped>>

-----------------------------------------------------------------------------
(* Rotation (rotate and rotate_remote).                                    *)

BeginRotate(c) ==
  /\ mine.enrolled /\ mine.state # "revoked" /\ MayBegin(c)
  /\ pending # 0 \/ minted < MaxCred
  /\ call' = [call EXCEPT ![c] = [Quiet EXCEPT !.pc = "mint", !.old = mine.cred]]
  /\ UNCHANGED <<invite, peer, mine, pending, minted, losses, edits, dropped>>

\* Mutant: every rotation mints its own credential.
PendingRotationFresh(c) ==
  /\ call[c].pc = "mint" /\ minted < MaxCred
  /\ minted' = minted + 1 /\ pending' = minted'
  /\ call' = [call EXCEPT ![c] = [@ EXCEPT !.pc = "ask", !.next = pending']]
  /\ UNCHANGED <<invite, peer, mine, losses, edits, dropped>>

\* pending_trade_rotation: the credential of an unconfirmed rotation is used
\* again.
PendingRotation(c) ==
  /\ call[c].pc = "mint" /\ (pending # 0 \/ minted < MaxCred)
  /\ minted' = IF pending = 0 THEN minted + 1 ELSE minted
  /\ pending' = IF pending = 0 THEN minted' ELSE pending
  /\ call' = [call EXCEPT ![c] = [@ EXCEPT !.pc = "ask", !.next = pending']]
  /\ UNCHANGED <<invite, peer, mine, losses, edits, dropped>>

\* rotate_remote: either credential authenticates; a repeat changes nothing.
PeerRotates(c) ==
  /\ call[c].pc = "ask"
  /\ IF peer.cred \in {call[c].old, call[c].next} /\ peer.state # "revoked"
     THEN peer' = [peer EXCEPT !.cred = call[c].next] /\ At(c, "granted")
     ELSE EndCall(c) /\ UNCHANGED peer
  /\ UNCHANGED <<invite, mine, pending, minted, losses, edits, dropped>>

\* The signed reply; a refusal here ends the call and leaves the row.
AdoptGranted(c) ==
  /\ call[c].pc = "granted"
  /\ mine' = Rotated(c)
  /\ IF Rotates(c) THEN At(c, "close") ELSE EndCall(c)
  /\ UNCHANGED <<invite, peer, pending, minted, losses, edits, dropped>>
ClearGranted(c) ==
  /\ call[c].pc = "close"
  /\ pending' = IF pending = call[c].next THEN 0 ELSE pending
  /\ EndCall(c)
  /\ UNCHANGED <<invite, peer, mine, minted, losses, edits, dropped>>

-----------------------------------------------------------------------------
(* Failures and operators.                                                 *)

\* A request or its reply is lost, or does not verify.
LoseCall(c) ==
  /\ losses < MaxLosses /\ losses' = losses + 1
  /\ call[c].pc \in {"enroll", "enrolled", "status", "answered", "retry", "moved", "ask", "granted"}
  /\ EndCall(c)
  /\ UNCHANGED <<invite, peer, mine, pending, minted, edits, dropped>>

\* The sending process dies between any two steps.
SenderDies ==
  /\ losses < MaxLosses /\ losses' = losses + 1
  /\ call' = [c \in Calls |-> Quiet]
  /\ UNCHANGED <<invite, peer, mine, pending, minted, edits, dropped>>

\* update_trade_route: revoked is final, nothing goes back to pending, and the
\* sender opens its side only after the enrolment.
Update(from, to) == from \notin {"none", "revoked"} /\ to \in {"active", "paused", "revoked"}
UpdateMine(to) ==
  /\ edits < MaxEdits /\ edits' = edits + 1
  /\ Update(mine.state, to) /\ (to = "active" => mine.enrolled)
  /\ mine' = [mine EXCEPT !.state = to]
  /\ UNCHANGED <<invite, peer, pending, call, minted, losses, dropped>>
UpdatePeer(to) ==
  /\ edits < MaxEdits /\ edits' = edits + 1
  /\ Update(peer.state, to)
  /\ peer' = [peer EXCEPT !.state = to]
  /\ UNCHANGED <<invite, mine, pending, call, minted, losses, dropped>>

CredentialsNext ==
  \/ InvitationExpires \/ SenderDies
  \/ \E to \in PermissionStates : UpdateMine(to) \/ UpdatePeer(to)
  \/ \E c \in Calls :
       \/ AcceptInvitation(c) \/ (\E expected \in BOOLEAN : PeerEnrolls(c, expected))
       \/ PeerRefusesEnrolment(c) \/ FinishEnrolment(c)
       \/ BeginRefresh(c) \/ PeerStatus(c) \/ TryPending(c) \/ PeerStatusNext(c)
       \/ AdoptMoved(c) \/ ClearMoved(c) \/ Contact(c)
       \/ BeginRotate(c) \/ PendingRotation(c) \/ PeerRotates(c)
       \/ AdoptGranted(c) \/ ClearGranted(c) \/ LoseCall(c)

CredentialsSpec == CredentialsInit /\ [][CredentialsNext]_cvars

\* The monitoring worker refreshes every route again and again, and a call
\* under way goes on; losses are finite by their bound.
CallSteps(c) ==
  \/ PeerStatus(c) \/ TryPending(c) \/ PeerStatusNext(c) \/ AdoptMoved(c) \/ ClearMoved(c)
  \/ Contact(c) \/ PendingRotation(c) \/ PeerRotates(c) \/ AdoptGranted(c) \/ ClearGranted(c)
  \/ (\E expected \in BOOLEAN : PeerEnrolls(c, expected)) \/ PeerRefusesEnrolment(c)
  \/ FinishEnrolment(c)
CredentialsFairness ==
  \A c \in Calls : WF_cvars(CallSteps(c)) /\ SF_cvars(BeginRefresh(c))

-----------------------------------------------------------------------------
(* Properties.                                                             *)

Peers == [state : PermissionStates \cup {"none"}, cred : 0 .. MaxCred]
Mines == [state : PermissionStates \cup {"none"}, enrolled : BOOLEAN,
          remote : PermissionStates \cup {"none"}, cred : 0 .. MaxCred]
CallRecords == [pc : {"idle", "enroll", "enrolled", "status", "answered", "refused", "retry",
                      "moved", "clear", "mint", "ask", "granted", "close"},
                old : 0 .. MaxCred, next : 0 .. MaxCred,
                reply : PermissionStates \cup {"none"}]

\* The type invariant of a route's two ends and of the calls between them.
CredentialsTypeOK ==
  /\ invite \in {"open", "redeemed", "gone"}
  /\ peer \in Peers /\ mine \in Mines /\ pending \in 0 .. MaxCred
  /\ call \in [Calls -> CallRecords]
  /\ minted \in 0 .. MaxCred /\ losses \in 0 .. MaxLosses /\ edits \in 0 .. MaxEdits
  /\ dropped \in BOOLEAN

\* refresh_route_inner, "A signed status for the next one finishes the rotation
\* here instead of failing until an admin presses Rotate again": whatever is
\* lost, the credential the receiver expects is one the sender still has,
\* current or pending, or learns from a reply on its way, so the route can be
\* used again without a new invitation.
CredentialRecoverable ==
  peer.state # "none" =>
    \/ peer.cred \in {mine.cred, pending}
    \/ \E c \in Calls : call[c].pc = "granted" /\ peer.cred = call[c].next /\ Rotates(c)

\* With the type invariant, by which no credential is used that was not minted.
CredentialsHold == CredentialsTypeOK /\ CredentialRecoverable

\* The monitoring worker brings an enrolled route's two ends back together
\* after every lost rotation reply.
RotationHeals == mine.enrolled ~> (mine.cred = peer.cred)
=============================================================================
