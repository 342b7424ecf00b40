-------------------------- MODULE IntakeLifecycle --------------------------
(***************************************************************************)
(* What intake promises for a package revision, with no workers, leases or *)
(* retries: the transition table of lifecycle_transitions.py, each         *)
(* transition tied to the content that justifies it and the draft to the   *)
(* metadata of the revision.  IntakeQueue is shown to implement it.        *)
(***************************************************************************)
EXTENDS Naturals

CONSTANTS Revisions, Packages   \* the contents a package may hold

VARIABLES content,    \* [Revisions -> Packages], never changes
          status,     \* status of each package revision
          metadata,   \* how often a person changed its metadata
          draft       \* metadata the draft reflects: {} or a singleton

vars == <<content, status, metadata, draft>>

All(r, kind) == \A a \in DOMAIN content[r] : content[r][a] = kind
Some(r, kind) == \E a \in DOMAIN content[r] : content[r][a] = kind

Init ==
    /\ content \in [Revisions -> Packages]
    /\ status = [r \in Revisions |-> "uploading"]
    /\ metadata = [r \in Revisions |-> 0]
    /\ draft = [r \in Revisions |-> {}]

Move(r, from, to) ==
    /\ status[r] = from
    /\ status' = [status EXCEPT ![r] = to]
    /\ UNCHANGED <<content, metadata>>

Finalize(r) == Move(r, "uploading", "scanning") /\ UNCHANGED draft

(* Extraction starts only when every artifact really is clean.             *)
Pass(r) ==
    /\ All(r, "clean")
    /\ Move(r, "scanning", "extracting")
    /\ UNCHANGED draft

(* Only infected content quarantines; a scanner error never does.          *)
Quarantine(r) ==
    /\ Some(r, "infected")
    /\ Move(r, "scanning", "quarantined")
    /\ UNCHANGED draft

RejectType(r) ==
    /\ Some(r, "mistyped")
    /\ Move(r, "scanning", "invalid")
    /\ UNCHANGED draft

RejectContent(r) == Move(r, "extracting", "invalid") /\ UNCHANGED draft

(* The draft appears with the transition, built from today's metadata.     *)
Publish(r) ==
    /\ draft[r] = {}
    /\ Move(r, "extracting", "awaiting_confirmation")
    /\ draft' = [draft EXCEPT ![r] = {metadata[r]}]

(* A person changes the metadata; an existing draft follows.               *)
Patch(r) ==
    /\ status[r] \in {"uploading", "scanning", "extracting", "awaiting_confirmation"}
    /\ metadata' = [metadata EXCEPT ![r] = @ + 1]
    /\ draft' = [draft EXCEPT ![r] = {metadata[r] + 1 : m \in @}]
    /\ UNCHANGED <<content, status>>

Next == \E r \in Revisions :
    Finalize(r) \/ Pass(r) \/ Quarantine(r) \/ RejectType(r)
      \/ RejectContent(r) \/ Publish(r) \/ Patch(r)

Spec == Init /\ [][Next]_vars
=============================================================================
