---------------------------- MODULE VisualEditor ----------------------------
(***************************************************************************)
(* The visual editor of a delivered project: it ranks the source           *)
(* occurrences of an element seen in the browser, rewrites the text or the *)
(* image of one of them, and keeps a stylesheet of its own for tokens and  *)
(* layout (skyn3t/studio/visual_editor.py).                                *)
(*                                                                         *)
(* A source file is the sequence of its elements, and its digest is the    *)
(* file itself: digests are assumed not to collide.  Every request names   *)
(* the content it was made against.  Editors share a lock; people who edit *)
(* the files by hand do not take it.                                       *)
(***************************************************************************)
EXTENDS Naturals, Sequences, FiniteSets, SequencesExt

CONSTANTS Editor,      \* requests being served
          Page,        \* the elements of the source file
          Suffix,      \* "html" or "jsx"
          Limit,       \* occurrences an inspection returns
          MaxOutside   \* bound on edits by hand

NoOne == "nobody"

VARIABLES
  source,   \* the elements of the file
  sheet,    \* the managed stylesheet
  holder,   \* who holds the editor's lock
  ed,       \* [Editor -> the request it serves]
  written,  \* what replaced a file, in order
  outside   \* edits made by hand

vars == <<source, sheet, holder, ed, written, outside>>

-----------------------------------------------------------------------------
(* Elements, and what of them a browser sees.                              *)

El(tag, id, cls, text, src, line) ==
  [tag |-> tag, id |-> id, cls |-> cls, text |-> text, src |-> src, line |-> line]

\* The texts, one of which is a template expression.
Texts == {"Buy", "Buy now", "{price}"}

Within(a, b) == a = b \/ (a = "Buy" /\ b = "Buy now")
Dynamic(t) == t = "{price}"

\* The text span: an element whose text has braces has none, nor has one
\* without a text of its own.
Static(el) == el.text # "" /\ ~Dynamic(el.text)

\* One path ends with the other.
SameImage(a, b) == a = b \/ {a, b} = {"a.png", "/img/a.png"}

Signature(el) == [tag |-> el.tag, id |-> el.id, cls |-> el.cls, text |-> el.text, src |-> el.src]

NoScore == 0

Score(sig, el) ==
  LET shared == sig.cls \cap el.cls
      image == sig.src # "" /\ el.src # "" /\ SameImage(sig.src, el.src)
      exact == sig.text # "" /\ sig.text = el.text
      part == sig.text # "" /\ el.text # "" /\ ~exact
              /\ (Within(sig.text, el.text) \/ Within(el.text, sig.text))
      onlyTag == sig.id = "" /\ sig.cls = {} /\ sig.text = "" /\ sig.src = ""
      other == (sig.tag # "" /\ sig.tag # el.tag) \/ (sig.id # "" /\ sig.id # el.id)
      P(holds, n) == IF holds THEN n ELSE 0
  IN  IF other \/ ~(sig.id # "" \/ image \/ exact \/ part \/ shared # {} \/ onlyTag)
      THEN NoScore
      ELSE P(sig.tag # "", 10) + P(sig.id # "", 120) + P(image, 90) + P(exact, 75)
           + P(part, 45) + 12 * Cardinality(shared)
           + P(shared # {} /\ shared = sig.cls, 8)

Matching(sig, file) == {i \in DOMAIN file : Score(sig, file[i]) # NoScore}

\* Best first, then in the order of the file.
Inspect(sig, file) ==
  LET ranked == SetToSortSeq(Matching(sig, file), LAMBDA i, j :
                  \/ Score(sig, file[i]) > Score(sig, file[j])
                  \/ Score(sig, file[i]) = Score(sig, file[j]) /\ i < j)
  IN  SubSeq(ranked, 1, IF Len(ranked) < Limit THEN Len(ranked) ELSE Limit)

\* The candidates an edit may mean; its occurrence and its line narrow them.
Selected(sig, file, occurrence, line) ==
  {i \in Matching(sig, file) : (occurrence = 0 \/ i = occurrence)
                               /\ (line = 0 \/ file[i].line = line)}

-----------------------------------------------------------------------------
(* The managed stylesheet: tokens and rules, or a text that does not       *)
(* decode to the same text again.                                          *)

Tokens == {"--accent"}
Contract == [t \in Tokens |-> "teal"]
Unset == "unset"

Groups == [margin |-> "spacing", padding |-> "spacing", width |-> "sizing", overflow |-> "sizing",
           justify |-> "alignment", display |-> "flex", grow |-> "flex", flow |-> "grid",
           color |-> "other"]

\* What a value is: a length, one below zero, a keyword, a number.
Accepts(prop, value) ==
  CASE Groups[prop] = "spacing" ->
         value \in {"8px"} \cup IF prop = "margin" THEN {"-8px", "auto"} ELSE {}
    [] Groups[prop] = "sizing" -> value \in IF prop = "overflow" THEN {"auto", "hidden"}
                                            ELSE {"8px", "-8px", "auto"}
    [] Groups[prop] = "alignment" -> value \in {"center", "auto"}
    [] Groups[prop] = "flex" -> value \in IF prop = "display" THEN {"grid", "flex"} ELSE {"2"}
    [] Groups[prop] = "grid" -> value \in {"row", "column"}
    [] OTHER -> FALSE

Rules == {<<"base", "margin">>, <<"md", "padding">>}

Absent == [by |-> "absent", tokens |-> [t \in Tokens |-> Unset], rules |-> [r \in Rules |-> Unset]]
ByHand == [Absent EXCEPT !.by = "hand"]

\* An absent sheet starts with the tokens of the design contract.
Starting == IF sheet.by = "absent" THEN [Absent EXCEPT !.tokens = Contract] ELSE sheet

\* The narrowest selector there is for an element; none without an id or class.
SelectorFor(sig) ==
  CASE sig.id # "" -> "#" \o sig.id [] sig.cls # {} -> ".class" [] OTHER -> "none"

SheetAfter(job) ==
  CASE job.kind = "token" -> [Starting EXCEPT !.by = "editor", !.tokens["--accent"] = job.value]
    [] job.kind = "layout" -> [Starting EXCEPT !.by = "editor", !.rules[job.rule] = job.value]

-----------------------------------------------------------------------------
(* Requests.                                                               *)

Signatures(file) ==
  UNION {{Signature(file[i]), [Signature(file[i]) EXCEPT !.text = "", !.cls = {}, !.src = ""]} :
         i \in DOMAIN file}

Markup == {"text", "image"}
Idle(pc) == [pc |-> pc, job |-> [kind |-> "none"], base |-> <<>>, after |-> <<>>]

Jobs(base, styles) ==
  LET Shown(sig) == ToSet(Inspect(sig, base)) \cup {0}
  IN  UNION {{[kind |-> "text", sig |-> s, at |-> i, line |-> 0, value |-> v] :
                i \in Shown(s), v \in {"Buy", "{price}"}} : s \in Signatures(base)}
      \cup UNION {{[kind |-> "image", sig |-> s, at |-> 0, line |-> base[i].line, value |-> "b.png"] :
                     i \in Matching(s, base)} : s \in Signatures(base)}
      \cup {[kind |-> "token", value |-> v] : v \in {"red", Unset}}
      \cup UNION {{[kind |-> "layout", rule |-> r, value |-> v] :
                     v \in {x \in {"auto", Unset} : x = Unset \/ Accepts(r[2], x)}} : r \in Rules}

\* What an element becomes.
Put(el, job) == IF job.kind = "text" THEN [el EXCEPT !.text = job.value]
                ELSE [el EXCEPT !.src = job.value]

\* A template expression may be written into plain HTML only.
Refused(job) == job.kind = "text" /\ Suffix # "html" /\ Dynamic(job.value)

Editable(el, job) == IF job.kind = "text" THEN Static(el) ELSE el.src # ""

File(job) == IF job.kind \in Markup THEN "source" ELSE "sheet"
Content(job) == IF job.kind \in Markup THEN source ELSE sheet

-----------------------------------------------------------------------------

Init ==
  /\ source = Page
  /\ sheet = Absent
  /\ holder = NoOne
  /\ ed = [e \in Editor |-> Idle("idle")]
  /\ written = <<>>
  /\ outside = 0

\* A request that changed nothing leaves its answer only.
End(e, how) ==
  /\ ed' = [ed EXCEPT ![e] = IF how = "changed" THEN [@ EXCEPT !.pc = how] ELSE Idle(how)]
  /\ holder' = IF holder = e THEN NoOne ELSE holder

\* The browser shows the project as it is now; a request is made from it.
Ask(e) ==
  /\ ed[e].pc = "idle"
  /\ \E job \in Jobs(source, sheet) :
       ed' = [ed EXCEPT ![e] = [pc |-> "asked", job |-> job, base |-> Content(job), after |-> <<>>]]
  /\ UNCHANGED <<source, sheet, holder, written, outside>>

\* Mutant of Enter: an edit does not wait for the other that holds the lock.
Enter_Unlocked(e) ==
  /\ ed[e].pc = "asked"
  /\ IF Refused(ed[e].job) THEN End(e, "unsafe")
     ELSE holder' = e /\ ed' = [ed EXCEPT ![e].pc = "locked"]
  /\ UNCHANGED <<source, sheet, written, outside>>

Enter(e) ==
  /\ ed[e].pc = "asked"
  /\ \/ Refused(ed[e].job) /\ End(e, "unsafe")
     \/ /\ ~Refused(ed[e].job) /\ holder = NoOne
        /\ holder' = e /\ ed' = [ed EXCEPT ![e].pc = "locked"]
  /\ UNCHANGED <<source, sheet, written, outside>>

\* Under the lock the file is read, compared with what the request was made
\* against, and the change is worked out.
Read(e) ==
  LET job == ed[e].job
      base == ed[e].base
      cand == Selected(job.sig, source, job.at, job.line)
      pick == CHOOSE i \in cand : TRUE
      changed == IF job.kind \in Markup THEN [source EXCEPT ![pick] = Put(@, job)]
                 ELSE SheetAfter(job)
      markup == job.kind \in Markup
  IN  /\ ed[e].pc = "locked"
      /\ CASE ~markup /\ sheet.by = "hand" -> End(e, "unsafe")
           [] Content(job) # base -> End(e, "stale")
           [] markup /\ cand = {} -> End(e, "missing")
           [] markup /\ Cardinality(cand) > 1 -> End(e, "ambiguous")
           [] markup /\ ~Editable(source[pick], job) -> End(e, "unsafe")
           [] changed = Content(job) -> End(e, "unchanged")
           [] OTHER -> ed' = [ed EXCEPT ![e].pc = "ready", ![e].after = changed]
                       /\ UNCHANGED holder
      /\ UNCHANGED <<source, sheet, written, outside>>

\* The file is read and compared again before a temporary file is written,
\* which may fail,
Prepare(e) ==
  /\ ed[e].pc = "ready"
  /\ \/ Content(ed[e].job) # ed[e].base /\ End(e, "stale")
     \/ Content(ed[e].job) = ed[e].base /\ ed' = [ed EXCEPT ![e].pc = "durable"] /\ UNCHANGED holder
     \/ Content(ed[e].job) = ed[e].base /\ End(e, "failed")
  /\ UNCHANGED <<source, sheet, written, outside>>

\* and once more when that file is durable.
Recheck(e) ==
  /\ ed[e].pc = "durable"
  /\ \/ Content(ed[e].job) # ed[e].base /\ End(e, "stale")
     \/ Content(ed[e].job) = ed[e].base /\ ed' = [ed EXCEPT ![e].pc = "sure"] /\ UNCHANGED holder
  /\ UNCHANGED <<source, sheet, written, outside>>

Replace(e) ==
  LET job == ed[e].job
  IN  /\ ed[e].pc = "sure"
      /\ IF job.kind \in Markup THEN source' = ed[e].after /\ UNCHANGED sheet
         ELSE sheet' = ed[e].after /\ UNCHANGED source
      /\ written' = Append(written, [by |-> e, file |-> File(job), from |-> ed[e].base,
                                     to |-> ed[e].after, over |-> Content(job)])
      /\ End(e, "changed")
      /\ UNCHANGED outside

\* Somebody edits by hand: a new first element, another text, or the sheet.
ByOthers ==
  /\ outside < MaxOutside
  /\ outside' = outside + 1
  /\ \/ /\ \/ source' = <<El("a", "", {}, "Buy", "", 1)>> \o source
           \/ \E i \in DOMAIN source, t \in Texts :
                source[i].text \notin {"", t} /\ source' = [source EXCEPT ![i].text = t]
        /\ UNCHANGED sheet
        /\ written' = Append(written, [by |-> NoOne, file |-> "source", from |-> source,
                                       to |-> source', over |-> source])
     \/ /\ sheet' \in {ByHand, Absent} \ {sheet}
        /\ UNCHANGED source
        /\ written' = Append(written, [by |-> NoOne, file |-> "sheet", from |-> sheet,
                                       to |-> sheet', over |-> sheet])
  /\ UNCHANGED <<holder, ed>>

Step(e) == Ask(e) \/ Enter(e) \/ Read(e) \/ Prepare(e) \/ Recheck(e) \/ Replace(e)
Next == ByOthers \/ \E e \in Editor : Step(e)
Spec == Init /\ [][Next]_vars /\ \A e \in Editor : WF_vars(Step(e))

-----------------------------------------------------------------------------
(* What is promised.                                                       *)

Endings == {"unsafe", "stale", "missing", "ambiguous", "unchanged", "failed", "changed"}

TypeOK ==
  /\ holder \in Editor \cup {NoOne}
  /\ \A e \in Editor : ed[e].pc \in Endings \cup {"idle", "asked", "locked", "ready", "durable", "sure"}
  /\ sheet.by \in {"absent", "editor", "hand"}
  /\ outside \in 0..MaxOutside

\* An accepted edit never replaces another accepted edit it did not start from:
\* what it wrote over is what it was made against, unless somebody wrote the file
\* by hand, without the lock, after the last comparison
\* (_atomic_compare_and_swap).
NothingOverwritten ==
  \A n \in DOMAIN written :
    written[n].by # NoOne /\ written[n].over # written[n].from =>
      \E m \in 1..(n - 1) : /\ written[m].by = NoOne /\ written[m].file = written[n].file
                            /\ \A k \in (m + 1)..(n - 1) : written[k].file # written[n].file
                                                           \/ written[k].by = NoOne

\* An accepted edit of the markup changes one element: the very one its
\* occurrence named when the page was inspected, or else the only one that the
\* signature fits; every other stays as it was inspected (_select_candidate).
EditsWhatWasShown ==
  \A e \in Editor :
    LET job == ed[e].job
        base == ed[e].base
    IN  ed[e].pc = "changed" /\ job.kind \in Markup =>
          \E i \in DOMAIN base :
            /\ Len(ed[e].after) = Len(base)
            /\ \A j \in DOMAIN base \ {i} : ed[e].after[j] = base[j]
            /\ job.at # 0 => i = job.at
            /\ job.at = 0 => \A j \in Matching(job.sig, base) :
                               j = i \/ (job.line # 0 /\ base[j].line # job.line)

\* Nothing dynamic is replaced by a text, and in a template language no edit
\* makes a text dynamic.
TemplatesStay ==
  \A n \in DOMAIN written :
    written[n].by # NoOne /\ written[n].file = "source" =>
      \A i \in DOMAIN written[n].from :
        written[n].from[i].text # written[n].to[i].text =>
          /\ ~Dynamic(written[n].from[i].text)
          /\ Suffix # "html" => ~Dynamic(written[n].to[i].text)

\* A stylesheet changed by hand is not written by the editor, and what the
\* editor wrote holds the contract's tokens until an edit changed them.
SheetIsManaged ==
  \A n \in DOMAIN written :
    LET w == written[n]
    IN  w.by # NoOne /\ w.file = "sheet" =>
          /\ w.from.by # "hand"
          /\ ed[w.by].job.kind = "layout" =>
               w.to.tokens = IF w.from.by = "absent" THEN Contract ELSE w.from.tokens

\* Who reads and writes the project holds the editor's lock, and lets it go with the request.
LockIsReleased ==
  \A e \in Editor : holder = e <=> ed[e].pc \in {"locked", "ready", "durable", "sure"}

EditorsAgree == NothingOverwritten /\ EditsWhatWasShown /\ TemplatesStay /\ SheetIsManaged
                /\ LockIsReleased
=============================================================================
