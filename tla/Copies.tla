------------------------------- MODULE Copies -------------------------------
(***************************************************************************)
(* Projects that come in as copies: a local project that is imported       *)
(* (studio/project_import.py), and a project with the retained edits of a  *)
(* failed improvement, recovered under a new name (CandidateRecovery of    *)
(* persistence/candidate_archive.py).  A copier is a thread; the files it  *)
(* copies are edited meanwhile by somebody else, who may also undo his     *)
(* edit, and the name it asks for is wanted by others.  Limits, links and  *)
(* hashes of the archive are left out: a copier that they stop refuses.    *)
(***************************************************************************)
EXTENDS Naturals, FiniteSets

CONSTANTS
    Importer, Recoverer,
    File,           \* the files of the source
    Retained,       \* those that the archive has edits of
    Private,        \* those that are never copied
    MaxEdits        \* bound on edits of the source, and on deletions

Copier == Importer \cup Recoverer

VARIABLES
    text,           \* text[f]: the content of a source file, 0 as it was archived
    stamp,          \* stamp[f]: its identity, with the times of the last change
    name,           \* the folder all of them ask for: who has it, and whether files are in
    at,             \* at[c]: the step a copier is at
    listed,         \* listed[c]: the identities in its inventory
    copy,           \* copy[c]: its staging copy
    origin,         \* history: the source as it was when the inventory was taken
    placed,         \* history: who published and was not deleted since
    edits, deletions

source == <<text, stamp>>
bounds == <<edits, deletions>>
vars == <<text, stamp, name, at, listed, copy, origin, placed, edits, deletions>>

Free == <<"nobody", "empty">>
Nothing == [f \in {} |-> 0]
Edit0 == 9      \* the retained edit of a file

Init ==
    /\ text = [f \in File |-> 0] /\ stamp = [f \in File |-> 0]
    /\ name = Free /\ placed = {}
    /\ at = [c \in Copier |-> "start"] /\ listed = [c \in Copier |-> Nothing]
    /\ copy = [c \in Copier |-> Nothing] /\ origin = [c \in Copier |-> Nothing]
    /\ edits = 0 /\ deletions = 0

-----------------------------------------------------------------------------
Visible == File \ Private
Inventory == [f \in Visible |-> stamp[f]]
Snapshot == [f \in Visible |-> text[f]]

Go(c, step) == at' = [at EXCEPT ![c] = step]
\* The staging copy, and a reservation of the name, are given up.
GiveUp(c) ==
    /\ Go(c, "refused") /\ copy' = [copy EXCEPT ![c] = Nothing]
    /\ name' = IF name = <<c, "empty">> THEN Free ELSE name

\* inspect() compares the live source with the base of the archive; both look
\* whether the name is taken.
Matches(c) == c \in Importer \/ Snapshot = [f \in Visible |-> 0]
Begin(c) ==
    /\ at[c] = "start"
    /\ IF Matches(c) /\ name = Free THEN Go(c, "list") ELSE Go(c, "refused")
    /\ UNCHANGED <<source, name, listed, copy, origin, placed, bounds>>

List(c) ==
    /\ at[c] = "list" /\ Go(c, "copy")
    /\ listed' = [listed EXCEPT ![c] = Inventory]
    /\ origin' = [origin EXCEPT ![c] = Snapshot]
    /\ UNCHANGED <<source, name, copy, placed, bounds>>

\* A file is copied if it still is the one that was listed.
Copy(c, f) ==
    /\ at[c] = "copy" /\ f \in Visible \ DOMAIN copy[c]
    /\ IF stamp[f] = listed[c][f]
       THEN /\ copy' = [copy EXCEPT ![c] =
                  [g \in DOMAIN @ \cup {f} |-> IF g = f THEN text[f] ELSE @[g]]]
            /\ UNCHANGED <<at, name>>
       ELSE GiveUp(c)
    /\ UNCHANGED <<source, listed, origin, placed, bounds>>

\* Mutant of Unmoved: the hash alone, which an undone edit restores.
Unmoved_Hash(c) == Matches(c)
Unmoved(c) == Inventory = listed[c] /\ Matches(c)

Verify(c) ==
    /\ at[c] = "copy" /\ DOMAIN copy[c] = Visible
    /\ IF Unmoved(c) THEN Go(c, "overlay") /\ UNCHANGED <<copy, name>> ELSE GiveUp(c)
    /\ UNCHANGED <<source, listed, origin, placed, bounds>>

\* A recovery lays the retained edits over the copy and checks the source again.
Overlay(c) ==
    /\ at[c] = "overlay"
    /\ IF c \in Importer THEN Go(c, "reserve") /\ UNCHANGED <<copy, name>>
       ELSE IF Unmoved(c)
       THEN /\ Go(c, "reserve") /\ UNCHANGED name
            /\ copy' = [copy EXCEPT ![c] =
                  [f \in DOMAIN @ |-> IF f \in Retained THEN Edit0 ELSE @[f]]]
       ELSE GiveUp(c)
    /\ UNCHANGED <<source, listed, origin, placed, bounds>>

\* The name is reserved exclusively, then the copy is renamed onto it.
Reserve(c) ==
    /\ at[c] = "reserve"
    /\ IF name = Free THEN Go(c, "publish") /\ name' = <<c, "empty">> /\ UNCHANGED copy
                        ELSE GiveUp(c)
    /\ UNCHANGED <<source, listed, origin, placed, bounds>>
Publish(c) ==
    /\ at[c] = "publish" /\ name = <<c, "empty">>
    /\ Go(c, "published") /\ name' = <<c, "full">> /\ placed' = placed \cup {c}
    /\ UNCHANGED <<source, listed, copy, origin, bounds>>

\* A file operation fails before the rename, or the thread dies and cleans up nothing.
Fail(c) ==
    /\ at[c] \in {"copy", "overlay", "reserve", "publish"}
    /\ GiveUp(c)
    /\ UNCHANGED <<source, listed, origin, placed, bounds>>
Die(c) ==
    /\ at[c] \in {"list", "copy", "overlay", "reserve", "publish"} /\ Go(c, "dead")
    /\ UNCHANGED <<source, name, listed, copy, origin, placed, bounds>>

-----------------------------------------------------------------------------
(* The others: an editor of the source, a build that takes the name, and    *)
(* the deletion of a project that is listed.                                *)

EditSource(f, v) ==
    /\ edits < MaxEdits /\ edits' = edits + 1 /\ v # text[f]
    /\ text' = [text EXCEPT ![f] = v] /\ stamp' = [stamp EXCEPT ![f] = edits']
    /\ UNCHANGED <<name, at, listed, copy, origin, placed, deletions>>
NewBuild ==
    /\ name = Free /\ name' = <<"build", "full">> /\ placed' = placed \cup {"build"}
    /\ UNCHANGED <<source, at, listed, copy, origin, bounds>>
Delete ==
    /\ placed # {} /\ deletions < MaxEdits /\ deletions' = deletions + 1
    /\ name' = Free /\ placed' = {}
    /\ UNCHANGED <<source, at, listed, copy, origin, edits>>

Next ==
    \/ \E c \in Copier :
          \/ Begin(c) \/ List(c) \/ Verify(c) \/ Overlay(c) \/ Reserve(c) \/ Publish(c)
          \/ Fail(c) \/ Die(c) \/ \E f \in Visible : Copy(c, f)
    \/ \E f \in File, v \in {0, 1} : EditSource(f, v)
    \/ NewBuild \/ Delete

Spec == Init /\ [][Next]_vars

-----------------------------------------------------------------------------
(* Properties.                                                             *)

Partial == UNION {[F -> {0, 1, Edit0}] : F \in SUBSET Visible}
TypeOK ==
    /\ text \in [File -> {0, 1}] /\ stamp \in [File -> 0..MaxEdits]
    /\ name \in {Free} \cup (Copier \cup {"build"}) \X {"empty", "full"}
    /\ at \in [Copier -> {"start", "list", "copy", "overlay", "reserve", "publish",
                          "published", "refused", "dead"}]
    /\ \A c \in Copier : copy[c] \in Partial /\ origin[c] \in Partial
    /\ edits \in 0..MaxEdits /\ deletions \in 0..MaxEdits

\* What is published is one version of the source, the archived one for a
\* recovery, and with all the edits that were retained, however the source was
\* edited and edited back during the copy.
OneVersion ==
    \A c \in Copier : at[c] = "published" =>
        IF c \in Importer THEN copy[c] = origin[c]
        ELSE copy[c] = [f \in Visible |-> IF f \in Retained THEN Edit0 ELSE 0]

\* A project that was published, or is being built, keeps its folder until it is
\* deleted, whoever asks for the same name.
NothingOverwritten == \A c \in placed : name = <<c, "full">>
=============================================================================
