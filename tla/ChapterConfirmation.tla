------------------------ MODULE ChapterConfirmation ------------------------
(***************************************************************************)
(* createChapterConfirmationSession (projects/cx-chapter-confirmation.ts): *)
(* submission attempts of several frames watch the same parent pages for   *)
(* the confirmation popup that the course site raises.  Each attempt holds *)
(* a lease in a registry kept on every window it watches; attempts whose   *)
(* leases overlap on a document become ambiguous there for good.           *)
(*                                                                         *)
(* The functions of a session are synchronous, so each is one action.  A   *)
(* window shows one popup; a released session may start over as a new one. *)
(* A registry is identified with the document it was made for: documents   *)
(* never come back, and an emptied registry is deleted before another is   *)
(* made for the same document.                                             *)
(***************************************************************************)
EXTENDS Naturals

CONSTANTS
    Sessions,      \* submission attempts
    Windows,       \* windows of the tab
    Above,         \* window -> the windows of its parent chain
    Frame,         \* session -> its answer frame
    Foreign,       \* session -> windows that carry another job's id
    Tagged,        \* session -> windows that carry this job's id
    MaxDoc         \* bound: navigations of one window

NoDoc == 0
Docs  == 1..MaxDoc

ASSUME ConfirmationAssumption ==
    /\ MaxDoc \in Nat \ {0}
    /\ Frame \in [Sessions -> Windows]
    /\ Above \in [Windows -> SUBSET Windows]
    /\ Foreign \in [Sessions -> SUBSET Windows]
    /\ Tagged \in [Sessions -> SUBSET Windows]

VARIABLES
    doc,           \* window -> its current document
    key,           \* window -> the document of the registry kept on it
    popup,         \* window -> a confirmation is visible in its document
    taskOk,        \* session -> options.isCurrent() answers true
    sessionPhase,  \* session -> "idle" or "open"
    actor,         \* session -> window that provides the submit action
    frameDoc,      \* session -> document of its frame at creation
    lease,         \* session -> window -> document of the registry of its lease
    ambiguous,     \* session -> windows on which its lease is ambiguous
    initial,       \* session -> windows whose popup was visible at creation
    bound,         \* session -> the windows it is bound to: none or one
    overlap,       \* history: session -> windows where another lease overlapped
    raisedUnder    \* history: window -> sessions watching when the popup appeared

page    == <<doc, popup, raisedUnder>>
session == <<sessionPhase, actor, frameDoc, initial>>
leases  == <<key, lease, ambiguous, overlap>>
confirmationVars == <<page, taskOk, session, leases, bound>>

\* A session is bound to no window or to one.
AtMostOne == {{}} \cup {{w} : w \in Windows}

ConfirmationTypeOK ==
    /\ doc \in [Windows -> Docs]
    /\ key \in [Windows -> Docs \cup {NoDoc}]
    /\ popup \in [Windows -> BOOLEAN]
    /\ taskOk \in [Sessions -> BOOLEAN]
    /\ sessionPhase \in [Sessions -> {"idle", "open"}]
    /\ actor \in [Sessions -> Windows]
    /\ frameDoc \in [Sessions -> Docs \cup {NoDoc}]
    /\ lease \in [Sessions -> [Windows -> Docs \cup {NoDoc}]]
    /\ ambiguous \in [Sessions -> SUBSET Windows]
    /\ initial \in [Sessions -> SUBSET Windows]
    /\ bound \in [Sessions -> AtMostOne]
    /\ overlap \in [Sessions -> SUBSET Windows]
    /\ raisedUnder \in [Windows -> SUBSET Sessions]

ConfirmationInit ==
    /\ doc = [w \in Windows |-> 1]
    /\ key = [w \in Windows |-> NoDoc]
    /\ popup = [w \in Windows |-> FALSE]
    /\ taskOk = [s \in Sessions |-> TRUE]
    /\ sessionPhase = [s \in Sessions |-> "idle"]
    /\ actor = Frame
    /\ frameDoc = [s \in Sessions |-> NoDoc]
    /\ lease = [s \in Sessions |-> [w \in Windows |-> NoDoc]]
    /\ ambiguous = [s \in Sessions |-> {}]
    /\ initial = [s \in Sessions |-> {}]
    /\ bound = [s \in Sessions |-> {}]
    /\ overlap = [s \in Sessions |-> {}]
    /\ raisedUnder = [w \in Windows |-> {}]

-----------------------------------------------------------------------------
(* Scopes and ownership.                                                   *)

Owned(s, w)  == w \notin Foreign[s] /\ (w \in {Frame[s], actor[s]} \/ w \in Tagged[s])
Shared(s, w) == w \notin Foreign[s] /\ ~Owned(s, w)

TaskIsCurrent(s) == sessionPhase[s] = "open" /\ doc[Frame[s]] = frameDoc[s] /\ taskOk[s]

Leased(s, w) == sessionPhase[s] = "open" /\ lease[s][w] = doc[w]

OwnerIsCurrent(s, w) ==
    /\ lease[s][w] = doc[w]
    /\ key[w] = lease[s][w]
    /\ w \notin ambiguous[s]
    /\ w \notin Foreign[s]

\* current(): the window whose confirmation the session may still submit.
Current(s) == {w \in bound[s] : TaskIsCurrent(s) /\ OwnerIsCurrent(s, w) /\ popup[w]}

-----------------------------------------------------------------------------
(* The course site and the user.                                           *)

RaisePopup(w) ==
    /\ ~popup[w]
    /\ popup' = [popup EXCEPT ![w] = TRUE]
    /\ raisedUnder' = [raisedUnder EXCEPT ![w] = {s \in Sessions : Leased(s, w)}]
    /\ UNCHANGED <<doc, taskOk, session, leases, bound>>

HidePopup(w) ==
    /\ popup[w]
    /\ popup' = [popup EXCEPT ![w] = FALSE]
    /\ UNCHANGED <<doc, raisedUnder, taskOk, session, leases, bound>>

\* A navigation replaces the documents of a window and of the frames in it;
\* the window object, and the registry kept on it, may survive (the first
\* navigation of a fresh frame).
Navigate(w) ==
    LET replaced == {u \in Windows : u = w \/ w \in Above[u]}
    IN  /\ \A u \in replaced : doc[u] < MaxDoc
        /\ doc' = [u \in Windows |-> IF u \in replaced THEN doc[u] + 1 ELSE doc[u]]
        /\ popup' = [u \in Windows |-> popup[u] /\ u \notin replaced]
        /\ key' \in {key, [u \in Windows |-> IF u \in replaced THEN NoDoc ELSE key[u]]}
        /\ UNCHANGED <<raisedUnder, taskOk, session, lease, ambiguous, overlap, bound>>

SwitchTask(s) ==
    /\ taskOk' = [taskOk EXCEPT ![s] = ~@]
    /\ UNCHANGED <<page, session, leases, bound>>

-----------------------------------------------------------------------------
(* The session.                                                            *)

\* Windows the constructor visits: the frame and the window of the submit
\* action with their parent chains, without those of another job.
Candidates(s, owner) ==
    ({Frame[s], owner} \cup Above[Frame[s]] \cup Above[owner]) \ Foreign[s]

\* A visible popup in a page that is not the task's own stops the attempt.
Blocked(s, owner) ==
    \E w \in Candidates(s, owner) :
        popup[w] /\ w \notin {Frame[s], owner} /\ w \notin Tagged[s]

\* Sessions whose leases are in the registry of the window's current document.
Holders(w) == {s \in Sessions : key[w] = doc[w] /\ lease[s][w] = doc[w]}

\* The constructor leases every candidate; leases that meet are ambiguous.
\* When the task is gone or a popup blocks it, it throws before any lease.
Create(s, owner) ==
    LET seen == Candidates(s, owner)
        busy == {w \in seen : Holders(w) # {}}
        joined(u) == {w \in seen : u \in Holders(w)}
    IN  /\ sessionPhase[s] = "idle" /\ taskOk[s]
        /\ ~Blocked(s, owner)
        /\ sessionPhase' = [sessionPhase EXCEPT ![s] = "open"]
        /\ actor' = [actor EXCEPT ![s] = owner]
        /\ frameDoc' = [frameDoc EXCEPT ![s] = doc[Frame[s]]]
        /\ initial' = [initial EXCEPT ![s] = {w \in seen : popup[w]}]
        /\ key' = [w \in Windows |-> IF w \in seen THEN doc[w] ELSE key[w]]
        /\ lease' = [lease EXCEPT ![s] = [w \in Windows |-> IF w \in seen THEN doc[w] ELSE NoDoc]]
        /\ ambiguous' = [u \in Sessions |-> IF u = s THEN busy ELSE ambiguous[u] \cup joined(u)]
        /\ overlap' = [u \in Sessions |-> IF u = s THEN busy ELSE overlap[u] \cup joined(u)]
        /\ UNCHANGED <<page, taskOk, bound>>

\* Pages of the session that show a confirmation and are still its documents.
Matching(s) ==
    {w \in Windows : Leased(s, w) /\ w \notin Foreign[s] /\ popup[w]}

\* find(): binds the one confirmation that belongs to this session.  It
\* throws, and binds nothing, when a matching page is not exclusively its own
\* or when several pages match.
Find(s) ==
    /\ TaskIsCurrent(s) /\ bound[s] = {}
    /\ \A w \in Matching(s) : OwnerIsCurrent(s, w)
    /\ LET fresh == {w \in Matching(s) : ~(Shared(s, w) /\ w \in initial[s])}
       IN  \E w \in Windows : fresh = {w} /\ bound' = [bound EXCEPT ![s] = {w}]
    /\ UNCHANGED <<page, taskOk, session, leases>>

\* The dialog was dismissed.
Clear(s) ==
    /\ sessionPhase[s] = "open" /\ bound[s] # {}
    /\ bound' = [bound EXCEPT ![s] = {}]
    /\ UNCHANGED <<page, taskOk, session, leases>>

\* The second sessionPhase of the submission clicks the bound confirmation.
Submit(s) ==
    /\ \E w \in Current(s) : popup' = [popup EXCEPT ![w] = FALSE]
    /\ UNCHANGED <<doc, raisedUnder, taskOk, session, leases, bound>>

Ended(s) ==
    /\ sessionPhase' = [sessionPhase EXCEPT ![s] = "idle"]
    /\ lease' = [lease EXCEPT ![s] = [w \in Windows |-> NoDoc]]
    /\ key' = [w \in Windows |->
          IF lease[s][w] = key[w] /\ \A u \in Sessions \ {s} : lease[u][w] # key[w]
          THEN NoDoc ELSE key[w]]
    /\ bound' = [bound EXCEPT ![s] = {}]
    /\ initial' = [initial EXCEPT ![s] = {}]
    /\ overlap' = [overlap EXCEPT ![s] = {}]
    /\ raisedUnder' = [w \in Windows |-> raisedUnder[w] \ {s}]
    /\ UNCHANGED <<doc, popup, taskOk, actor, frameDoc>>

\* Mutant: a release restores the leases it overlapped with.
ReleaseRestoringOthers(s) ==
    /\ sessionPhase[s] = "open"
    /\ Ended(s)
    /\ ambiguous' = [u \in Sessions |-> {}]

\* release(): the leases go, and with the last one the registry.  The leases
\* it overlapped with stay ambiguous.
Release(s) ==
    /\ sessionPhase[s] = "open"
    /\ Ended(s)
    /\ ambiguous' = [ambiguous EXCEPT ![s] = {}]

ConfirmationNext ==
    \/ \E w \in Windows : RaisePopup(w) \/ HidePopup(w) \/ Navigate(w)
    \/ \E s \in Sessions :
          \/ SwitchTask(s) \/ Find(s) \/ Clear(s) \/ Submit(s) \/ Release(s)
          \/ \E owner \in {Frame[s]} \cup Above[Frame[s]] : Create(s, owner)

ConfirmationSpec == ConfirmationInit /\ [][ConfirmationNext]_confirmationVars

-----------------------------------------------------------------------------
(* Properties.                                                             *)

\* A confirmation a session may submit is watched by no other open session:
\* two submissions never act on the same document's confirmation.
ExclusiveCurrent ==
    \A s \in Sessions : \A w \in Current(s) :
        \A u \in Sessions \ {s} : ~Leased(u, w)

\* "A late exit must not make an overlapping precheck appear uniquely owned
\* again": once two sessions overlapped on a document neither ever submits a
\* confirmation there, not even after the other one was released.
OverlapNeverSubmits ==
    \A s \in Sessions : Current(s) \cap overlap[s] = {}

\* A confirmation accepted in a shared parent page appeared while exactly
\* this session was watching that page.
SharedConfirmationAttributed ==
    \A s \in Sessions : \A w \in Current(s) :
        Shared(s, w) => raisedUnder[w] = {s}

\* A submission only ever clicks the confirmation that is its own: no other
\* session watches it, none did before, and it appeared under no other's watch.
ClicksItsOwn == ExclusiveCurrent /\ OverlapNeverSubmits /\ SharedConfirmationAttributed
=============================================================================
