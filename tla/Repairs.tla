------------------------------- MODULE Repairs -------------------------------
(***************************************************************************)
(* Repairs of a worktree by the code improver (agents/code_improver.py):   *)
(* one session of an agent over the whole tree, judged by what is on disk  *)
(* before and after, and if that never ran, or changed nothing, one file   *)
(* after the other.  What a failed session wrote is retained as unverified *)
(* text (persistence/candidate_archive.py) and undone.  Contents stand for *)
(* what the validators tell apart; which model a repair is routed to, and  *)
(* how targets are found in diagnostics, are left out.                     *)
(***************************************************************************)
EXTENDS Naturals

CONSTANTS
    Kind,       \* Kind[f]: "page", "test", or "asset" (no text, or over 1 MB)
    Present,    \* the files that are there at first
    Junk,       \* paths that no session may create
    Private,    \* files that are never retained
    MaxRounds,  \* bound on repairs
    MaxFaults   \* bound on writes that fail, and on late writes of a child

File == DOMAIN Kind
Text == {f \in File : Kind[f] # "asset"}

\* What a model may leave in a file: a sound content, a broken one, chat prose,
\* a test that asserts less, a page that lost its script.
Written(f) ==
    CASE Kind[f] = "page" -> {"good", "broken", "prose", "bare"}
      [] Kind[f] = "test" -> {"good", "broken", "weak"}
      [] OTHER -> {"good"}

Asked == {a \in [agentic : BOOLEAN, locked : BOOLEAN, tests : BOOLEAN] :
              a.agentic \/ ~a.tests \/ ~a.locked}

VARIABLES
    tree,       \* tree[f]: its content, "none" when it is absent
    at,         \* where the repair stands
    asked,      \* an agentic session, a route locked to a provider, a repair of failing tests
    before,     \* the tree when the repair began
    after,      \* the tree when the session was found to have failed
    todo,       \* the targets that are left
    ran,        \* the session left evidence that it worked
    done,       \* the files reported as improved
    result,     \* "improved" by a session, "rewritten" file by file, "failure", "cancelled"
    archive,    \* retained texts, as a function on some files
    gone,       \* history: texts that a successful session deleted
    rounds, faults

aside == <<archive, gone, rounds, faults>>
vars == <<tree, at, asked, before, after, todo, ran, done, result, aside>>

Empty == [f \in {} |-> "none"]

Init ==
    /\ tree = [f \in File |-> IF f \in Present THEN "old" ELSE "none"]
    /\ at = "idle" /\ asked = [agentic |-> FALSE, locked |-> FALSE, tests |-> FALSE]
    /\ before = tree /\ after = tree
    /\ todo = {} /\ ran = FALSE /\ done = {} /\ result = "none"
    /\ archive = Empty /\ gone = {} /\ rounds = 0 /\ faults = 0

-----------------------------------------------------------------------------
(* What the validators see.                                                *)

Changed(t) == {f \in Text : t[f] \notin {before[f], "none"}}

\* A repair of failing tests may not make an existing one assert less.
Weakens(f) == asked.tests /\ tree[f] = "weak" /\ before[f] \notin {"none", "weak"}
\* A page keeps the scripts that it loaded.
DropsScript(f) == tree[f] = "bare" /\ before[f] \notin {"none", "bare"}

\* Mutant of Unfit: what the agent says about its work passes for code.
Unfit_Prose(f) == tree[f] = "broken" \/ Weakens(f) \/ DropsScript(f)
Unfit(f) == tree[f] \in {"broken", "prose"} \/ Weakens(f) \/ DropsScript(f)

-----------------------------------------------------------------------------
(* The agentic session.                                                    *)

Begin(a) ==
    /\ at \in {"idle", "done"} /\ rounds < MaxRounds /\ rounds' = rounds + 1
    /\ asked' = a /\ before' = tree /\ after' = tree
    /\ done' = {} /\ ran' = FALSE /\ gone' = {} /\ archive' = Empty
    /\ IF a.locked /\ ~a.agentic
       THEN at' = "done" /\ result' = "failure"
       ELSE at' = (IF a.agentic THEN "session" ELSE "targets") /\ result' = "none"
    /\ UNCHANGED <<tree, todo, faults>>

\* The session writes to the disk what it likes.
Write(f, c) ==
    /\ at = "session" /\ tree' = [tree EXCEPT ![f] = c]
    /\ UNCHANGED <<at, asked, before, after, todo, ran, done, result, aside>>

\* It returns; one that says it failed, or raised, may leave no evidence of work.
Succeed ==
    /\ at = "session" /\ at' = "judge" /\ ran' = TRUE
    /\ UNCHANGED <<tree, asked, before, after, todo, done, result, aside>>
Fail(evidence) ==
    /\ at = "session" /\ at' = "save" /\ after' = tree
    /\ ran' = (evidence \/ \E f \in Text : tree[f] # before[f])
    /\ UNCHANGED <<tree, asked, before, todo, done, result, aside>>

\* What the tree changed into is retained, a file that changes meanwhile is not;
\* the archive may be unavailable.
Save ==
    /\ at = "save" /\ at' = "restore"
    /\ \/ archive' = [f \in {g \in Changed(after) \ Private : tree[g] = after[g]} |-> tree[f]]
       \/ archive' = Empty
    /\ UNCHANGED <<tree, asked, before, after, todo, ran, done, result, gone, rounds, faults>>

\* Texts are put back; one that cannot be written stays.
Undone(kept) == [f \in File |-> IF f \in Text \ kept THEN before[f] ELSE tree[f]]
Restore ==
    /\ at = "restore"
    /\ \/ tree' = Undone({}) /\ faults' = faults
       \/ \E f \in Text : tree' = Undone({f}) /\ faults < MaxFaults /\ faults' = faults + 1
    /\ IF ran \/ asked.locked THEN at' = "done" /\ result' = "failure"
                              ELSE at' = "targets" /\ result' = result
    /\ UNCHANGED <<asked, before, after, todo, ran, done, archive, gone, rounds>>

\* A child of the session writes while its texts are retained and put back.
Linger(f, c) ==
    /\ at \in {"save", "restore"} /\ faults < MaxFaults /\ faults' = faults + 1
    /\ tree' = [tree EXCEPT ![f] = c]
    /\ UNCHANGED <<at, asked, before, after, todo, ran, done, result, archive, gone, rounds>>

\* A session that succeeded: new junk is removed, an unfit text put back, and
\* what is left of the changes is reported.  Removals may fail.
Judge ==
    /\ at = "judge"
    /\ LET junk == {f \in Junk : before[f] = "none" /\ tree[f] # "none"}
           unfit == {f \in Changed(tree) \ junk : Unfit(f)}
           back(stuck) == [f \in File |-> IF f \in (junk \cup unfit) \ stuck
                                          THEN before[f] ELSE tree[f]]
           Report(stuck) ==
               /\ tree' = back(stuck)
               /\ done' = {f \in Changed(tree) \ (junk \ stuck) : ~Unfit(f)}
       IN  \/ Report({}) /\ faults' = faults
           \/ \E f \in junk \cup unfit :
                 Report({f}) /\ faults < MaxFaults /\ faults' = faults + 1
    /\ gone' = {f \in Text : tree[f] = "none" /\ before[f] # "none"}
    /\ IF done' # {} THEN at' = "done" /\ result' = "improved"
       ELSE IF asked.locked THEN at' = "done" /\ result' = "failure"
       ELSE at' = "targets" /\ result' = result
    /\ UNCHANGED <<asked, before, after, todo, ran, archive, rounds>>

-----------------------------------------------------------------------------
(* File by file.                                                           *)

\* The files named by the diagnostics, or by the model over a map of the tree.
Locate(files) ==
    /\ at = "targets" /\ todo' = files
    /\ IF files = {} THEN at' = "done" /\ result' = "failure"
                     ELSE at' = "files" /\ result' = result
    /\ UNCHANGED <<tree, asked, before, after, ran, done, aside>>

\* A target is rewritten, or created, unless that breaks it; here prose passes.
\* Without a change it is skipped.
Accepted(f, c) ==
    /\ c # "broken"
    /\ ~(asked.tests /\ c = "weak" /\ tree[f] \notin {"none", "weak"})
    /\ ~(c = "bare" /\ tree[f] \notin {"none", "bare"})
Rewrite(f, c) ==
    /\ at = "files" /\ f \in todo
    /\ todo' = todo \ {f} /\ at' = (IF todo' = {} THEN "done" ELSE "files")
    /\ result' = (IF todo' = {} THEN "rewritten" ELSE result)
    /\ IF Accepted(f, c) /\ c # tree[f]
       THEN tree' = [tree EXCEPT ![f] = c] /\ done' = done \cup {f}
       ELSE UNCHANGED <<tree, done>>
    /\ UNCHANGED <<asked, before, after, ran, aside>>

\* The task is cancelled at one of its awaits: no handler undoes anything.
Cancel ==
    /\ at \in {"session", "targets", "files"} /\ at' = "done" /\ result' = "cancelled"
    /\ todo' = {}
    /\ UNCHANGED <<tree, asked, before, after, ran, done, aside>>

Next ==
    \/ \E a \in Asked : Begin(a)
    \/ \E f \in File : \E c \in Written(f) \cup {"none"} : Write(f, c) \/ Linger(f, c)
    \/ Succeed \/ \E e \in BOOLEAN : Fail(e)
    \/ Save \/ Restore \/ Judge
    \/ \E files \in SUBSET Text : Locate(files)
    \/ \E f \in Text : \E c \in Written(f) \cup {tree[f]} : Rewrite(f, c)
    \/ Cancel

Spec == Init /\ [][Next]_vars

-----------------------------------------------------------------------------
(* Properties.                                                             *)

Contents == {"none", "old", "good", "broken", "prose", "weak", "bare"}
TypeOK ==
    /\ {tree, before, after} \subseteq [File -> Contents] /\ asked \in Asked
    /\ at \in {"idle", "session", "judge", "save", "restore", "targets", "files", "done"}
    /\ todo \cup done \cup gone \subseteq Text /\ ran \in BOOLEAN
    /\ result \in {"none", "improved", "rewritten", "failure", "cancelled"}
    /\ DOMAIN archive \subseteq Text \ Private
    /\ rounds \in 0..MaxRounds /\ faults \in 0..MaxFaults

Over == at = "done" /\ result # "cancelled"

\* A repair that is over has changed no text but those it reports, except that
\* texts deleted by a successful session are gone; a repair that failed has
\* changed none; and an agentic session leaves no junk.  Writes that fail, and
\* children that write late, are excepted.
ChangesAreReported ==
    Over /\ faults = 0 =>
        /\ \A f \in Text \ gone : tree[f] # before[f] => f \in done
        /\ result = "failure" => done = {}

\* What a session reports as improved is fit to be kept, whatever failed: no
\* broken file, no prose, no test that asserts less, no page without its script.
ReportIsFit ==
    result = "improved" =>
        \A f \in done : /\ tree[f] \notin {"broken", "prose", "none", before[f]}
                        /\ ~Weakens(f) /\ ~DropsScript(f)

\* What is retained of a failed session is what it left when it failed.
RetainedIsWhole == \A f \in DOMAIN archive : archive[f] = after[f]

\* A repair of failing tests removes no test.  Not so: a file that an agentic
\* session deleted is in no snapshot after it, and is neither put back nor reported.
TestsStay ==
    Over /\ asked.tests => \A f \in Text :
        Kind[f] = "test" /\ before[f] # "none" => tree[f] # "none"
=============================================================================
