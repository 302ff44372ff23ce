---------------------------- MODULE ChangeControl ----------------------------
(***************************************************************************)
(* What change control promises of a candidate (app/models/ncm.py,         *)
(* NcmCandidate, and ALLOWED_TRANSITIONS in app/services/ncm_deploy.py):   *)
(* somebody else than the author approves it, only then are its commands   *)
(* sent to the device, they are sent once, and what came of it is final.   *)
(***************************************************************************)
EXTENDS Naturals

CONSTANTS Candidates, Admins, Nobody

VARIABLES status, author, approver, sent

vars == <<status, author, approver, sent>>

Init ==
  /\ status = [c \in Candidates |-> "none"]
  /\ author = [c \in Candidates |-> Nobody]
  /\ approver = [c \in Candidates |-> Nobody]
  /\ sent = {}

Propose(c) ==
  /\ status[c] = "none" /\ status' = [status EXCEPT ![c] = "draft"]
  /\ \E a \in Admins : author' = [author EXCEPT ![c] = a]
  /\ UNCHANGED <<approver, sent>>

Submit(c) ==
  /\ status[c] = "draft" /\ status' = [status EXCEPT ![c] = "pending_approval"]
  /\ UNCHANGED <<author, approver, sent>>

Approve(c) ==
  /\ status[c] = "pending_approval" /\ status' = [status EXCEPT ![c] = "approved"]
  /\ \E a \in Admins \ {author[c]} : approver' = [approver EXCEPT ![c] = a]
  /\ UNCHANGED <<author, sent>>

Reject(c) ==
  /\ status[c] = "pending_approval" /\ status' = [status EXCEPT ![c] = "rejected"]
  /\ UNCHANGED <<author, approver, sent>>

\* The device starts to receive the commands.
Send(c) ==
  /\ status[c] = "approved" /\ c \notin sent
  /\ sent' = sent \cup {c}
  /\ UNCHANGED <<status, author, approver>>

Conclude(c) ==
  /\ status[c] = "approved" /\ c \in sent
  /\ \E s \in {"deployed", "failed"} : status' = [status EXCEPT ![c] = s]
  /\ UNCHANGED <<author, approver, sent>>

\* Or it turns out that the device cannot be reached.
GiveUp(c) ==
  /\ status[c] = "approved" /\ c \notin sent
  /\ status' = [status EXCEPT ![c] = "failed"]
  /\ UNCHANGED <<author, approver, sent>>

Next == \E c \in Candidates :
  Propose(c) \/ Submit(c) \/ Approve(c) \/ Reject(c) \/ Send(c) \/ Conclude(c) \/ GiveUp(c)

Spec == Init /\ [][Next]_vars
=============================================================================
