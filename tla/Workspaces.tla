----------------------------- MODULE Workspaces -----------------------------
(***************************************************************************)
(* A tenant's workspace: one document that browsers load, edit and save    *)
(* whole, the public projection that every save rebuilds, and what the     *)
(* scan web console does about saves that fail or collide.                 *)
(*                                                                         *)
(* A workspace is the set of the edits it contains.  The row of the server *)
(* is the history of its saves: it is absent while there is none, and its  *)
(* version is the number of saves after the first.  A page has as its base *)
(* the saves that had been made when it loaded the workspace or saved it   *)
(* last, a history that no code keeps: before and after the first save the *)
(* version is 0.  A browser has one tab; its persistence queue is loaded   *)
(* with the page.  The dialog that offers to reload after a conflict is    *)
(* left out: persistNow overwrites it with the banner before it can be     *)
(* seen.                                                                   *)
(***************************************************************************)
EXTENDS Integers, SequencesExt

CONSTANTS Browsers, Edits, MaxSaves, MaxFaults   \* the last two are bounds

ASSUME WorkspacesAssumption == MaxSaves \in Nat /\ MaxFaults \in Nat

VARIABLES
  saves,     \* every save the server accepted, the last one is the workspace
  public,    \* admin_public_objects: an edit, and the member who owns the row
  page,      \* what a tab holds; not ready while it loads, or is closed
  sending,   \* the PUT of persistNow: "idle", "wire", or how it was answered
  queue,     \* whether createPersistenceQueue, and its snapshot in localStorage, is dirty
  kept,      \* the pending copy in localStorage: at most one workspace
  faults     \* how many requests and answers were lost and pages closed

clientVars == <<page, sending, queue, kept>>
workspaceVars == <<saves, public, clientVars, faults>>

Contents == SUBSET Edits
AnyVersion == -1      \* what a reset quotes
ClosedPage == [ready |-> FALSE, state |-> {}, version |-> 0, base |-> 0,
               dirty |-> FALSE, conflict |-> FALSE]
Idling == [at |-> "idle", content |-> {}, version |-> 0, base |-> 0,
           newer |-> FALSE, queued |-> FALSE]

WorkspaceTypeOK ==
  /\ saves \in Seq([content : Contents, by : Browsers, quoted : Int, base : Nat])
  /\ public \subseteq Edits \X Browsers
  /\ page \in [Browsers -> [ready : BOOLEAN, state : Contents, version : Nat, base : Nat,
                            dirty : BOOLEAN, conflict : BOOLEAN]]
  /\ sending \in [Browsers -> [at : {"idle", "wire", "saved", "conflict", "failed"},
       content : Contents, version : Nat, base : Nat, newer : BOOLEAN, queued : BOOLEAN]]
  /\ queue \in [Browsers -> BOOLEAN]
  /\ kept \in [Browsers -> SUBSET Contents]
  /\ faults \in 0..MaxFaults

WorkspaceInit ==
  /\ saves = <<>> /\ public = {}
  /\ page = [c \in Browsers |-> ClosedPage]
  /\ sending = [c \in Browsers |-> Idling]
  /\ queue = [c \in Browsers |-> FALSE]
  /\ kept = [c \in Browsers |-> {}]
  /\ faults = 0

-----------------------------------------------------------------------------
(* The server *)

Version == IF saves = <<>> THEN 0 ELSE Len(saves) - 1
Workspace == IF saves = <<>> THEN {} ELSE Last(saves).content

\* Mutant: the rows of the other members stay.
syncPublicProjectionOwn(c, content) ==
  public' = {row \in public : row[2] # c} \cup (content \X {c})

\* The rows of all members are deleted, and inserted for the one who saves.
syncPublicProjection(c, content) == public' = content \X {c}

\* Mutant: the version of the row is not compared.
AcceptableAnyway(version) == TRUE

\* The first save is accepted whatever version it quotes.
Acceptable(version) == saves = <<>> \/ version = Version

\* PUT /api/v1/workspace, one transaction
SaveWorkspace(c) ==
  /\ sending[c].at = "wire"
  /\ IF Acceptable(sending[c].version)
       THEN /\ Len(saves) < MaxSaves
            /\ saves' = Append(saves, [content |-> sending[c].content, by |-> c,
                                       quoted |-> sending[c].version,
                                       base |-> sending[c].base])
            /\ syncPublicProjection(c, sending[c].content)
            /\ sending' = [sending EXCEPT ![c].at = "saved", ![c].version = Len(saves)]
       ELSE /\ sending' = [sending EXCEPT ![c].at = "conflict"]
            /\ UNCHANGED <<saves, public>>
  /\ UNCHANGED <<page, queue, kept, faults>>

\* The request is lost, or its answer, or the server fails.
LoseSave(c) ==
  /\ sending[c].at \in {"wire", "saved", "conflict"} /\ faults < MaxFaults
  /\ sending' = [sending EXCEPT ![c].at = "failed"]
  /\ faults' = faults + 1
  /\ UNCHANGED <<saves, public, page, queue, kept>>

-----------------------------------------------------------------------------
(* The page *)

\* bootstrap: with a queue that is dirty the pending copy goes first, or last if the
\* queue loads after the answer; a workspace that is not there discards it if it went first.
OpenPage(c) ==
  LET dirty == queue[c]
      pending == IF dirty THEN kept[c] ELSE {}
  IN /\ ~page[c].ready
     /\ \E state \in IF pending = {} THEN {Workspace}
                     ELSE IF saves = <<>> THEN pending \cup {{}} ELSE pending :
          page' = [page EXCEPT ![c] = [ready |-> TRUE, state |-> state, version |-> Version,
                                       base |-> Len(saves), dirty |-> dirty,
                                       conflict |-> FALSE]]
     /\ UNCHANGED <<saves, public, sending, queue, kept, faults>>

\* Closed or reloaded at any time.
ClosePage(c) ==
  /\ page[c].ready /\ faults < MaxFaults
  /\ page' = [page EXCEPT ![c] = ClosedPage]
  /\ sending' = [sending EXCEPT ![c] = Idling]
  /\ faults' = faults + 1
  /\ UNCHANGED <<saves, public, queue, kept>>

MaySend(c) == /\ page[c].ready /\ page[c].dirty /\ ~page[c].conflict
              /\ sending[c].at = "idle"

Send(c, content, queued) ==
  sending' = [sending EXCEPT ![c] = [at |-> "wire", content |-> content,
    version |-> page[c].version, base |-> page[c].base, newer |-> FALSE, queued |-> queued]]

\* save, after an edit or an import of a whole workspace, which is sent at once.
Edit(c, state, imported) ==
  /\ page[c].ready /\ state # page[c].state
  /\ page' = [page EXCEPT ![c].state = state, ![c].dirty = TRUE]
  /\ kept' = [kept EXCEPT ![c] = {state}]
  /\ queue' = [queue EXCEPT ![c] = TRUE]
  /\ IF imported /\ ~page[c].conflict /\ sending[c].at = "idle" THEN Send(c, state, FALSE)
     ELSE sending' = [sending EXCEPT ![c].newer = sending[c].at # "idle"]
  /\ UNCHANGED <<saves, public, faults>>

\* The queue has called persistNow, which has not returned.
Running(c) == sending[c].at # "idle" /\ sending[c].queued

\* flush: persistNow never throws, so that the queue takes what it could not send, or
\* what failed, for saved.
Flush(c) ==
  /\ queue[c] /\ ~Running(c)
  /\ IF MaySend(c)
       THEN /\ Send(c, page[c].state, TRUE)
            /\ UNCHANGED queue
       ELSE /\ queue' = [queue EXCEPT ![c] = FALSE]
            /\ UNCHANGED sending
  /\ UNCHANGED <<saves, public, page, kept, faults>>

Answered(c) == sending[c].at \in {"saved", "conflict", "failed"}

\* Mutant: an edit that was made meanwhile is not noticed.
SettledAnyway(c) == sending[c].at = "saved"

\* Nothing was edited since what is saved now was sent.
Settled(c) == sending[c].at = "saved" /\ ~sending[c].newer

\* The end of persistNow, and of the flush or of the import that called it, which reloads
\* the page when it was saved.
ReceiveAnswer(c) ==
  LET x == sending[c]
      next == [page[c] EXCEPT !.version = IF x.at = "saved" THEN x.version ELSE @,
                              !.base = IF x.at = "saved" THEN x.version + 1 ELSE @,
                              !.dirty = ~Settled(c),
                              !.conflict = @ \/ x.at = "conflict"]
  IN
  /\ Answered(c)
  /\ \E after \in {next} \cup {p \in {ClosedPage} : Settled(c) /\ ~x.queued} :
       page' = [page EXCEPT ![c] = after]
  /\ kept' = IF Settled(c) THEN [kept EXCEPT ![c] = {}] ELSE kept
  /\ queue' = IF x.queued THEN [queue EXCEPT ![c] = x.newer] ELSE queue
  /\ sending' = [sending EXCEPT ![c] = Idling]
  /\ UNCHANGED <<saves, public, faults>>

\* retryPersistence: the conflict is forgotten, and the queue flushed if it is dirty and
\* the browser on line.
RetryPersistence(c) ==
  /\ page[c].ready /\ (page[c].dirty \/ page[c].conflict)
  /\ page' = [page EXCEPT ![c].conflict = FALSE]
  /\ \/ /\ queue[c] /\ ~Running(c)
        /\ IF page[c].dirty /\ sending[c].at = "idle"
             THEN Send(c, page[c].state, TRUE) /\ UNCHANGED queue
             ELSE queue' = [queue EXCEPT ![c] = FALSE] /\ UNCHANGED sending
     \/ UNCHANGED <<queue, sending>>
  /\ UNCHANGED <<saves, public, kept, faults>>

\* clearSavedPendingState
ClearKept(c) ==
  /\ page[c].ready /\ ~page[c].dirty /\ ~page[c].conflict /\ sending[c].at = "idle"
  /\ kept' = [kept EXCEPT ![c] = {}]
  /\ queue' = [queue EXCEPT ![c] = FALSE]
  /\ UNCHANGED <<saves, public, page, sending, faults>>

\* clearWorkspace quotes no version; the page is reloaded, its queue and copy stay.
ResetWorkspace(c) ==
  /\ page[c].ready /\ Len(saves) < MaxSaves
  /\ saves' = Append(saves, [content |-> {}, by |-> c, quoted |-> AnyVersion,
                               base |-> page[c].base])
  /\ public' = {}
  /\ page' = [page EXCEPT ![c] = ClosedPage]
  /\ sending' = [sending EXCEPT ![c] = Idling]
  /\ UNCHANGED <<queue, kept, faults>>

-----------------------------------------------------------------------------

\* Edits are told apart: each is made once, unless it was lost.
Used == UNION ({x.content : x \in Range(saves)} \cup UNION {kept[c] : c \in Browsers}
               \cup {page[c].state : c \in Browsers} \cup {sending[c].content : c \in Browsers})

WorkspaceNext == \E c \in Browsers :
  \/ SaveWorkspace(c) \/ LoseSave(c)
  \/ OpenPage(c) \/ ClosePage(c)
  \/ \E e \in Edits \ Used : \/ Edit(c, page[c].state \cup {e}, FALSE)
                             \/ Edit(c, {e}, TRUE)
  \/ Flush(c) \/ ReceiveAnswer(c) \/ RetryPersistence(c)
  \/ ClearKept(c) \/ ResetWorkspace(c)

\* Timers fire in the end, the browser being on line by then, and what is answered arrives.
WorkspaceFairness == \A c \in Browsers :
  WF_workspaceVars(Flush(c)) /\ WF_workspaceVars(ReceiveAnswer(c))

WorkspaceSpec == WorkspaceInit /\ [][WorkspaceNext]_workspaceVars /\ WorkspaceFairness

-----------------------------------------------------------------------------
(* Properties *)

\* The public sees the workspace that was saved last, and nothing of an older one,
\* whichever members saved and reset it in turn.
ProjectionIsWorkspace ==
  WorkspaceTypeOK /\ public = IF saves = <<>> THEN {} ELSE Workspace \X {Last(saves).by}

\* A save replaces the very workspace that its page had loaded or saved last, however
\* browsers interleave and answers are lost, but for resets, which quote no version, and for
\* the second save of all: it may come from a page that found no workspace, since the first
\* one is stored as version 0, which such a page quotes too.  What was loaded need not have
\* been shown: a page that opens with a pending copy shows that, and saves it.
ReplacedWasLoaded == \A i \in DOMAIN saves :
  \/ saves[i].quoted = AnyVersion
  \/ saves[i].base = i - 1
  \/ i = 2 /\ saves[i].base = 0

\* What a page shows beyond the version that it quotes is in the browser's storage,
\* over failed saves, conflicts, edits during a save, and pages that close.
UnsavedIsKept == \A c \in Browsers : page[c].ready =>
  LET known == IF saves = <<>> THEN {} ELSE saves[page[c].version + 1].content
  IN page[c].state \subseteq known \cup UNION kept[c]

-----------------------------------------------------------------------------
(* What the runbook and the banner say and the code does not do *)

\* docs/local-persistence-runbook.md: a conflict is reported when two browser sessions
\* save the same version.  So of two saves that quote one version and are both accepted,
\* the later one comes from a page that had loaded the other.
ConflictsAreReported == \A i, j \in DOMAIN saves :
  i < j /\ saves[i].quoted = saves[j].quoted /\ saves[i].quoted # AnyVersion =>
    i <= saves[j].base

\* "The save failed and is retried in a few seconds", without the user doing anything.
FailedSavesAreRetried == \A c \in Browsers :
  sending[c].at = "failed" ~> (sending[c].at = "wire" \/ ~page[c].ready)
=============================================================================
