---------------------------- MODULE ProductSpec -----------------------------
(***************************************************************************)
(* The product contract of a delivered project and the research that may   *)
(* add optional ideas to it: optimistic revisions under a lock in the      *)
(* project's folder (skyn3t/studio/product_spec.py), similar projects      *)
(* found on GitHub (skyn3t/studio/similarity_scout.py), the dashboard's    *)
(* handlers (skyn3t/web/routes.py), and the re-verification that replaces  *)
(* the folder, lock and all, by the copy it made earlier.                  *)
(***************************************************************************)
EXTENDS Naturals, Sequences, FiniteSets, SequencesExt, TLC

CONSTANTS Client,       \* people at the dashboard, one request each
          Repo,         \* similar projects
          Licence,      \* [Repo -> licence]
          Active,       \* the projects that are alive
          Score,        \* [Repo -> how similar]
          MaxCards,     \* source cards of a report
          MaxPromotions \* bound on re-verifications

VARIABLES
  spec,      \* the contract in the project's folder
  cache,     \* reports of earlier research, by what was asked
  client,    \* [Client -> its request]
  lock,      \* who holds the lock of which folder
  folder,    \* folders there were: a promotion brings a new one
  copy,      \* the contract a re-verification copied, and how far that is
  accepted,  \* revisions answered with success
  lost       \* revisions a promotion, or a save across one, dropped

vars == <<spec, cache, client, lock, folder, copy, accepted, lost>>

-----------------------------------------------------------------------------
(* The contract and its revisions.                                         *)

Patchable == {"goal", "requirements", "backlog", "sources"}

\* What the build's preflight writes: the brief as the only requirement.
FirstSpec ==
  [version |-> 1, goal |-> "brief", requirements |-> <<"brief">>, backlog |-> <<>>,
   sources |-> <<>>, history |-> <<>>]

\* Ids are unique in each list, and revisions are numbered upwards.
Valid(s) ==
  /\ IsInjective(s.requirements)
  /\ \A f \in {"backlog", "sources"} :
       \A i, j \in DOMAIN s[f] : i # j => s[f][i].id # s[f][j].id
  /\ \A i \in DOMAIN s.history :
       /\ s.history[i].version <= s.version
       /\ \A j \in 1..(i - 1) : s.history[j].version < s.history[i].version

Answer(a, s) == [answer |-> a, spec |-> s]

Improve(s, patch, base, actor) ==
  LET changed == {f \in DOMAIN patch : s[f] # patch[f]}
      revision == [version |-> s.version + 1, base |-> s.version, actor |-> actor,
                   previous |-> [f \in changed |-> s[f]], to |-> [f \in changed |-> patch[f]]]
      next == [f \in DOMAIN s |-> CASE f \in changed -> patch[f]
                                    [] f = "version" -> s.version + 1
                                    [] f = "history" -> Append(s.history, revision)
                                    [] OTHER -> s[f]]
  IN  CASE base # s.version -> Answer("conflict", s)
        [] ~(DOMAIN patch \subseteq Patchable) -> Answer("invalid", s)
        [] DOMAIN patch \subseteq Patchable /\ changed = {} -> Answer("invalid", s)
        [] ~Valid(next) -> Answer("invalid", s)
        [] OTHER -> Answer("ok", next)

\* What is there already by that id stays as it is.
Added(old, new) ==
  old \o SelectSeq(new, LAMBDA x : \A i \in DOMAIN old : old[i].id # x.id)

Research(s, report, base) ==
  LET sources == Added(s.sources, report.sources)
      ideas == Added(s.backlog, report.backlog)
      patch == [f \in {g \in {"sources", "backlog"} :
                        (IF g = "sources" THEN sources ELSE ideas) # s[g]}
                  |-> IF f = "sources" THEN sources ELSE ideas]
  IN  IF DOMAIN patch # {} THEN Improve(s, patch, base, "scout")
      ELSE Answer(IF base # s.version THEN "conflict" ELSE "ok", s)

\* The contract in a prompt: what binds comes first, and the limit cuts the end.
Prompt(s, limit) ==
  LET lines == <<"goal">> \o s.requirements \o [i \in DOMAIN s.backlog |-> s.backlog[i].id]
  IN  SubSeq(lines, 1, IF limit < Len(lines) THEN limit ELSE Len(lines))

-----------------------------------------------------------------------------
(* Research.                                                               *)

Permissive == {"mit"}

\* The inspection of a repository pins a commit, or fails.
Card(r, inspected) ==
  [id |-> <<r, IF inspected = "verified" THEN "pinned" ELSE "unknown">>, repo |-> r,
   verified |-> inspected = "verified",
   policy |-> IF Licence[r] \in Permissive /\ inspected = "verified" THEN "patterns_allowed"
              ELSE "idea_only"]

Idea(card) == [id |-> card.repo, from |-> card.id, verified |-> card.verified,
               policy |-> card.policy]

\* The most similar of the active ones, ties by name.
Ranked(found) ==
  SetToSortSeq(found \cap Active, LAMBDA a, b : Score[a] > Score[b])

Key(s) == <<s.goal, s.requirements>>

NoReport == [status |-> "unavailable", sources |-> <<>>, backlog |-> <<>>]

ReportOf(found, inspected) ==
  LET ranked == Ranked(found)
      cards == [i \in 1..(IF Len(ranked) < MaxCards THEN Len(ranked) ELSE MaxCards) |->
                  Card(ranked[i], inspected[ranked[i]])]
  IN  [status |-> IF \E r \in found \cap Active : inspected[r] = "failed" THEN "unavailable" ELSE "ok",
       sources |-> cards, backlog |-> [i \in DOMAIN cards |-> Idea(cards[i])]]

\* A cached answer, unless it is refused and a search succeeds.  Only a report
\* whose every inspection succeeded is kept.
Scouted(s, force, search, found, inspected) ==
  LET cached == {e \in cache : e.key = Key(s)}
      old == (CHOOSE e \in cached : TRUE).report
  IN  CASE cached # {} /\ ~force -> old
        [] search = "down" -> IF cached # {} THEN old ELSE NoReport
        [] OTHER -> ReportOf(found, inspected)

Kept(s, force, search, report) ==
  IF search = "up" /\ report.status = "ok" /\ (force \/ \A e \in cache : e.key # Key(s))
  THEN {e \in cache : e.key # Key(s)} \cup {[key |-> Key(s), report |-> report]}
  ELSE cache

-----------------------------------------------------------------------------
(* Requests.                                                               *)

Patches == {("goal" :> "other"), ("requirements" :> <<"brief", "more">>),
            ("requirements" :> <<"more", "more">>), ("backlog" :> <<>>),
            ("goal" :> "other" @@ "owner" :> "me"), <<>>}

Idle == [pc |-> "idle", seen |-> FirstSpec, patch |-> <<>>, report |-> NoReport,
         mine |-> 0, found |-> FirstSpec]

Init ==
  /\ spec \in {FirstSpec, Research(FirstSpec, ReportOf(Repo, [r \in Repo |-> "verified"]), 1).spec}
  /\ cache = {}
  /\ client = [c \in Client |-> Idle]
  /\ lock = {}
  /\ folder = 1
  /\ copy = [at |-> "none", spec |-> FirstSpec]
  /\ accepted = {}
  /\ lost = {}

Gone(a, b) == ToSet(a.history) \ ToSet(b.history)

\* Somebody looks at the contract, and asks for a change of it,
AskPatch(c) ==
  /\ client[c].pc = "idle"
  /\ \E p \in Patches : client' = [client EXCEPT ![c].pc = "patch", ![c].seen = spec, ![c].patch = p]
  /\ UNCHANGED <<spec, cache, lock, folder, copy, accepted, lost>>

\* or for research,
AskResearch(c) ==
  /\ client[c].pc = "idle"
  /\ client' = [client EXCEPT ![c].pc = "asked", ![c].seen = spec]
  /\ UNCHANGED <<spec, cache, lock, folder, copy, accepted, lost>>

\* which checks the version before it starts
Start(c) ==
  /\ client[c].pc = "asked"
  /\ client' = [client EXCEPT ![c] = IF spec.version # client[c].seen.version
                                     THEN [Idle EXCEPT !.pc = "conflict"]
                                     ELSE [@ EXCEPT !.pc = "searching", !.seen = spec]]
  /\ UNCHANGED <<spec, cache, lock, folder, copy, accepted, lost>>

\* and waits for GitHub.
Search(c) ==
  /\ client[c].pc = "searching"
  /\ \E force \in BOOLEAN, search \in {"up", "down"}, found \in SUBSET Repo :
     \E inspected \in [found -> {"verified", "failed"}] :
       LET report == Scouted(client[c].seen, force, search, found, inspected)
       IN  /\ client' = [client EXCEPT ![c].pc = "found", ![c].report = report]
           /\ cache' = Kept(client[c].seen, force, search, report)
  /\ UNCHANGED <<spec, lock, folder, copy, accepted, lost>>

\* The lock is a file of the folder that has the project's name now.
Enter(c) ==
  /\ client[c].pc \in {"patch", "found"}
  /\ \A d \in Client : <<d, folder>> \notin lock
  /\ lock' = lock \cup {<<c, folder>>}
  /\ client' = [client EXCEPT ![c].pc = IF @ = "patch" THEN "patching" ELSE "recording",
                              ![c].mine = folder]
  /\ UNCHANGED <<spec, cache, folder, copy, accepted, lost>>

Load(c) ==
  /\ client[c].pc \in {"patching", "recording"}
  /\ LET base == client[c].seen.version
         result == IF client[c].pc = "patching" THEN Improve(spec, client[c].patch, base, "gui")
                   ELSE Research(spec, client[c].report, base)
     IN  IF result.answer = "ok" /\ result.spec # spec
         THEN /\ client' = [client EXCEPT ![c].pc = "saving", ![c].found = result.spec]
              /\ UNCHANGED lock
         ELSE /\ client' = [client EXCEPT ![c] = [Idle EXCEPT !.pc = result.answer]]
              /\ lock' = lock \ {<<c, client[c].mine>>}
  /\ UNCHANGED <<spec, cache, folder, copy, accepted, lost>>

\* The file is replaced by name, whatever folder has that name by now.
Save(c) ==
  LET made == client[c].found
      across == client[c].mine # folder
      strayed == {a.revision : a \in {b \in accepted : b.across}}
  IN  /\ client[c].pc = "saving"
      /\ \/ /\ spec' = made
            /\ accepted' = accepted \cup {[by |-> c, seen |-> client[c].seen, over |-> spec,
                                           revision |-> Last(made.history),
                                           across |-> across]}
            /\ lost' = lost \cup {r \in Gone(spec, made) : across \/ r \in strayed}
            /\ client' = [client EXCEPT ![c] = [Idle EXCEPT !.pc = "ok"]]
         \/ /\ client' = [client EXCEPT ![c] = [Idle EXCEPT !.pc = "failed"]]
            /\ UNCHANGED <<spec, accepted, lost>>
      /\ lock' = lock \ {<<c, client[c].mine>>}
      /\ UNCHANGED <<cache, folder, copy>>

\* A report is forgotten after its time.
Expire ==
  /\ cache # {}
  /\ cache' = {}
  /\ UNCHANGED <<spec, client, lock, folder, copy, accepted, lost>>

\* A re-verification copies the project, the contract with it; when its proofs
\* are done it compares the project with the copy, waits for a review, and puts
\* the candidate in the project's place.
Copy ==
  /\ folder <= MaxPromotions /\ copy.at = "none"
  /\ copy' = [at |-> "copied", spec |-> spec]
  /\ UNCHANGED <<spec, cache, client, lock, folder, accepted, lost>>

Compare ==
  /\ copy.at = "copied"
  /\ copy' = [copy EXCEPT !.at = IF spec = copy.spec THEN "compared" ELSE "none"]
  /\ UNCHANGED <<spec, cache, client, lock, folder, accepted, lost>>

Promote ==
  /\ copy.at = "compared"
  /\ copy' = [copy EXCEPT !.at = "none"]
  /\ folder' = folder + 1
  /\ spec' = copy.spec
  /\ lost' = lost \cup Gone(spec, copy.spec)
  /\ UNCHANGED <<cache, client, lock, accepted>>

Step(c) == AskPatch(c) \/ AskResearch(c) \/ Start(c) \/ Search(c) \/ Enter(c) \/ Load(c) \/ Save(c)
Next == Expire \/ Copy \/ Compare \/ Promote \/ \E c \in Client : Step(c)
Spec == Init /\ [][Next]_vars /\ \A c \in Client : WF_vars(Enter(c) \/ Load(c) \/ Save(c))

-----------------------------------------------------------------------------
(* What is promised.                                                       *)

\* The records of the lists: a requirement is named by its text, an idea by its
\* project, a source by its project and the commit that was looked at.
Requirements == {"brief", "more"}
Sources == [id : Repo \X {"pinned", "unknown"}, repo : Repo, verified : BOOLEAN,
            policy : {"patterns_allowed", "idea_only"}]
Ideas == [id : Repo, from : Repo \X {"pinned", "unknown"}, verified : BOOLEAN,
          policy : {"patterns_allowed", "idea_only"}]
Revision(r) == /\ r.base + 1 = r.version /\ r.actor \in {"gui", "scout"}
               /\ DOMAIN r.previous = DOMAIN r.to /\ DOMAIN r.to \in SUBSET Patchable \ {{}}

TypeOK ==
  /\ ToSet(spec.requirements) \subseteq Requirements
  /\ ToSet(spec.sources) \subseteq Sources
  /\ ToSet(spec.backlog) \subseteq Ideas
  /\ \A i \in DOMAIN spec.history : Revision(spec.history[i])
  /\ spec.version \in Nat \ {0}
  /\ \A c \in Client : client[c].pc \in
       {"idle", "patch", "asked", "searching", "found", "patching", "recording", "saving", "ok",
        "conflict", "invalid", "failed"}
  /\ folder \in 1..(MaxPromotions + 1)

\* Every accepted revision is in the history for ever, and one version is one
\* revision: nothing but a promotion, or a save that straddles one, loses it.
RevisionsKept ==
  /\ \A a \in accepted : a.revision \in ToSet(spec.history) \cup lost
  /\ \A i \in DOMAIN spec.history : spec.history[i].version = i + 1
  /\ spec.version = Len(spec.history) + 1
  /\ folder = 1 => lost = {}

\* The previous values of the revisions take the contract back to the first one.
RevisionsUndo ==
  LET Back(s, r) == [f \in DOMAIN s |-> IF f \in DOMAIN r.previous THEN r.previous[f] ELSE s[f]]
      first == FoldLeft(Back, spec, Reverse(spec.history))
  IN  Valid(spec) /\ \A f \in Patchable : first[f] = FirstSpec[f]

\* A change is applied to the very contract its author saw, unless a promotion
\* brought a folder in which that version is another one's.
AcceptedAsSeen ==
  \A a \in accepted : a.over = a.seen \/ folder > 1

\* Research changes nothing that binds: the requirements are those of the brief
\* or of the last revision of a person that names them, and no idea of the
\* backlog is in a prompt that lacks a requirement.
ResearchIsOptional ==
  /\ \A i \in DOMAIN spec.history :
       spec.history[i].actor = "scout" => DOMAIN spec.history[i].to \subseteq {"backlog", "sources"}
  /\ \A limit \in 1..3 :
       LET shown == ToSet(Prompt(spec, limit))
       IN  (\E i \in DOMAIN spec.backlog : spec.backlog[i].id \in shown) =>
             ToSet(spec.requirements) \subseteq shown

\* An idea whose pattern may be reused comes from a commit that was inspected
\* and from a project whose licence allows it, whatever was cached before.
PatternsAreVerified ==
  \A i \in DOMAIN spec.backlog :
    spec.backlog[i].policy = "patterns_allowed" =>
      /\ spec.backlog[i].verified
      /\ Licence[spec.backlog[i].id] \in Permissive
      /\ spec.backlog[i].id \in Active

\* A request leaves no lock behind.
LocksReleased ==
  \A l \in lock : client[l[1]].pc \in {"patching", "recording", "saving"} /\ client[l[1]].mine = l[2]

ContractHolds == RevisionsKept /\ RevisionsUndo /\ AcceptedAsSeen /\ ResearchIsOptional
                 /\ PatternsAreVerified /\ LocksReleased
=============================================================================
