----------------------------- MODULE BuildFixes -----------------------------
(***************************************************************************)
(* The deterministic repairs of a generated tree (apply_deterministic_     *)
(* repairs): a fixed list of rewrites that the runner, its fix loop and    *)
(* improve() apply over and over, each reading the files as the earlier    *)
(* ones left them, each giving up in silence when its write fails.         *)
(*                                                                         *)
(* The list is run over projects of several kinds.  A project is a record  *)
(* of what the repairs look at: the wrappers a model left around a file,   *)
(* the state of a local import, the packages imported and declared, the    *)
(* directives of a Next.js page, the form of a test script.  A repair that *)
(* finds nothing of its kind is left out of that kind's list.              *)
(*                                                                         *)
(* `start` is the project before the first pass, kept for the properties.  *)
(***************************************************************************)
EXTENDS Naturals, Sequences, SequencesExt, FiniteSets

CONSTANTS FixKinds,    \* the kinds of project to look at
          MaxPasses,   \* bound on passes of the list over one project
          MaxWrites    \* bound on writes that fail

VARIABLES kind, p, start,
          at,       \* the next repair of this pass
          pass,     \* passes begun
          quiet,    \* nothing was changed, and no write failed, in this pass
          failures  \* writes that failed

vars == <<kind, p, start, at, pass, quiet, failures>>

-----------------------------------------------------------------------------
(* A source file wrapped in markdown, or with TypeScript in plain          *)
(* JavaScript; index.html loads it, and there may be a .tsx twin.          *)

Wrappers == {"fence", "bullet", "marker"}

Texts == [wraps : SeqOf(Wrappers, 3), types : {"none", "line", "block"},
          entry : {"jsx"}, twin : BOOLEAN]

Peeled(q, w) == IF q.wraps # <<>> /\ Head(q.wraps) = w
                THEN [q EXCEPT !.wraps = Tail(@)] ELSE q

Fences(q) == Peeled(q, "fence")

Bullets(q) == Peeled(q, "bullet")

(* Every marker of the prologue goes at once. *)
Markers(q) ==
    LET leading == {i \in DOMAIN q.wraps : \A j \in 1..i : q.wraps[j] = "marker"}
    IN  [q EXCEPT !.wraps = SubSeq(@, Cardinality(leading) + 1, Len(@))]

(* Only statements of one line are removed. *)
StripTypes(q) == [q EXCEPT !.types = IF @ = "line" THEN "none" ELSE @]

Contaminated(q) == "fence" \in ToSet(q.wraps) \/ q.types # "none"

TsxEntry(q) == IF q.entry = "jsx" /\ q.twin /\ Contaminated(q)
               THEN [q EXCEPT !.entry = "tsx"] ELSE q

-----------------------------------------------------------------------------
(* Imports and packages.  `rel` is a relative import: to a file, to a name *)
(* that one other file has, or several, or none, or out of the project.    *)

Webs == [rel : {"fine", "elsewhere", "ambiguous", "missing", "outside"},
         aliased : BOOLEAN, target : {"there", "missing"},
         cfg : {"none", "strict", "commented", "unreadable"}, maps : BOOLEAN,
         imported : {{}}, declared : SUBSET {"vitest"},
         typed : BOOLEAN, aliasTest : BOOLEAN, runner : BOOLEAN,
         viteCfg : {FALSE}, reactish : BOOLEAN]

(* An import is either relative or of the alias; and to say that Vitest     *)
(* runs is either to declare it or to call it.                             *)
UsualWeb(q) ==
    /\ q.cfg = "none" => ~q.maps
    /\ q.aliased => q.rel = "fine"
    /\ ~q.aliased => q.target = "there" /\ ~q.aliasTest
    /\ "vitest" \in q.declared => ~q.runner

(* What _unresolved_local_imports of the proof reports. *)
Unresolved(q) == q.rel # "fine"

Relink(q) == IF q.rel = "elsewhere" THEN [q EXCEPT !.rel = "fine"] ELSE q

(* _alias_map reads strict JSON only. *)
KnownAlias(q) == q.cfg = "strict" /\ q.maps

(* A stub of a component imports React where the stack is of that kind. *)
StubImports(q) == IF q.reactish THEN {"react"} ELSE {}

(* A stub at every local target that is missing. *)
Scaffold(q) ==
    LET rel    == q.rel \in {"elsewhere", "ambiguous", "missing"}
        target == q.aliased /\ KnownAlias(q) /\ q.target = "missing"
    IN  [q EXCEPT !.rel = IF rel THEN "fine" ELSE @,
                  !.target = IF target THEN "there" ELSE @,
                  !.imported = IF rel \/ target
                               THEN @ \union StubImports(q) ELSE @]

NpmDeps(q) == [q EXCEPT !.declared = @ \union q.imported]

TypeChecked(q) == q.cfg # "none" \/ "typescript" \in q.declared

NodeTypes(q) == IF q.typed /\ TypeChecked(q)
                THEN [q EXCEPT !.declared = @ \union {"@types/node"}] ELSE q

(* A configuration that cannot be parsed is never overwritten. *)
AliasConfig(q) ==
    IF q.aliased /\ ~q.maps /\ q.cfg # "unreadable"
    THEN [q EXCEPT !.cfg = "strict", !.maps = TRUE] ELSE q

UsesVitest(q) == "vitest" \in q.declared \/ q.runner

VitestConfig(q) ==
    IF UsesVitest(q) /\ q.aliasTest /\ ~q.viteCfg
    THEN [q EXCEPT !.viteCfg = TRUE, !.imported = @ \union {"vitest"}] ELSE q

-----------------------------------------------------------------------------
(* The package file itself: names npm rejects, the pin of Astro, scripts   *)
(* that run a file nobody wrote, and peers that a flag implies.            *)

Packages == [bad : SUBSET {"spaced astro", "prose"},
             imported : SUBSET {"astro"}, declared : SUBSET {"astro"},
             pin : {"none", "2", "3"}, script : {"none", "right", "dangling", "chained"},
             flag : BOOLEAN]

Sanitize(q) ==
    [q EXCEPT !.bad = {},
              !.declared = IF "spaced astro" \in q.bad THEN @ \union {"astro"} ELSE @]

AstroPin(q) == IF "astro" \in q.declared THEN [q EXCEPT !.pin = "3"] ELSE q

(* Only `node file` without arguments is understood. *)
DropScripts(q) == IF q.script = "dangling" THEN [q EXCEPT !.script = "none"] ELSE q

ConfigPeers(q) == IF q.flag THEN [q EXCEPT !.declared = @ \union {"critters"}] ELSE q

-----------------------------------------------------------------------------
(* Next.js: the layout and a page.  A directive is at the top, below a     *)
(* long comment (which is still the top), or buried under code.            *)

Sources == [directive : {"none", "top", "below", "buried"},
            signal : BOOLEAN, metadata : BOOLEAN]

Sites == [layout : Sources, page : Sources, head : {"none", "bare", "titled"},
          wordy : BOOLEAN]      \* the description reads like browser code

(* add_use_client_directives: a buried directive is moved and nothing else *)
(* is looked at; otherwise one is added and the metadata removed.          *)
Directed(f) ==
    IF f.directive = "buried" THEN [f EXCEPT !.directive = "top"]
    ELSE IF f.signal /\ f.directive = "none"
    THEN [f EXCEPT !.directive = "top", !.metadata = FALSE]
    ELSE f

UseClient(q) == [q EXCEPT !.layout = Directed(@), !.page = Directed(@)]

(* The first 300 characters show no directive. *)
LooksServer(f) == f.directive \in {"none", "below"}

(* The export goes above whatever is there. *)
Titled(f, wordy) ==
    [f EXCEPT !.metadata = TRUE, !.signal = @ \/ wordy,
              !.directive = IF @ = "below" THEN "buried" ELSE @]

NextMetadata(q) ==
    IF q.layout.metadata \/ q.page.metadata THEN q
    ELSE IF LooksServer(q.layout) THEN [q EXCEPT !.layout = Titled(@, q.wordy)]
    ELSE IF LooksServer(q.page)   THEN [q EXCEPT !.page = Titled(@, q.wordy)]
    ELSE [q EXCEPT !.head = IF @ = "bare" THEN "titled" ELSE @]

-----------------------------------------------------------------------------
(* Icons, and the shell of a Tauri application.                            *)

Exported == {"Common", "Rare", "Circle"}

Icons == [names : SeqOf({"Common", "Rare", "CommonIcon", "RareIcon", "Invented"}, 2),
          installed : BOOLEAN]

(* Without the package only a built-in list of names is taken to exist. *)
Real(q) == IF q.installed THEN Exported ELSE Exported \ {"Rare"}

Renamed(q, n) == LET base == CASE n = "CommonIcon" -> "Common"
                               [] n = "RareIcon" -> "Rare"
                               [] OTHER -> "Circle"
                 IN  IF n \in Real(q) THEN n
                     ELSE IF base \in Real(q) THEN base ELSE "Circle"

LucideIcons(q) ==
    LET new == [i \in DOMAIN q.names |-> Renamed(q, q.names[i])]
    IN  IF \A i \in DOMAIN q.names : q.names[i] \in Real(q) THEN q
        ELSE [q EXCEPT !.names =
                 IF Len(new) = 2 /\ new[1] = new[2] THEN <<new[1]>> ELSE new]

Shells == [features : {"valid", "invented"}, allowlist : {"own"},
           conf : {"fine", "unreadable"}]

(* Cargo.toml, then the allowlist that has to match it. *)
TauriHalf(q) == IF q.features = "invented" THEN [q EXCEPT !.features = "api-all"] ELSE q

TauriCargo(q) ==
    IF q.features = "invented"
    THEN [TauriHalf(q) EXCEPT !.allowlist = IF q.conf = "fine" THEN "all" ELSE @]
    ELSE q

-----------------------------------------------------------------------------
(* A game: what its page boots, an image it loads, a texture it draws.     *)

Games == [html : {"game", "shell", "bare"}, boot : BOOLEAN,
          image : {"none", "nowhere", "root", "public"}, fake : {{}},
          public : BOOLEAN, texture : {"loaded", "unloaded"}, file : {FALSE},
          computed : BOOLEAN, anchor : BOOLEAN]

PhaserEntry(q) == IF q.boot /\ q.html # "game" THEN [q EXCEPT !.html = "game"] ELSE q

(* public/ if there is one, else the root. *)
AssetBase(q) == IF q.public THEN "public" ELSE "root"

Assets(q) ==
    IF q.image \in {"none", AssetBase(q)} THEN q
    ELSE [q EXCEPT !.fake = @ \union {AssetBase(q)}]

(* The placeholder, which makes public/, then the call that loads it. *)
TexturesHalf(q) ==
    IF q.texture = "unloaded" /\ ~q.computed
    THEN [q EXCEPT !.file = TRUE, !.public = TRUE] ELSE q

Textures(q) ==
    [TexturesHalf(q) EXCEPT !.texture = IF ~q.computed /\ q.anchor THEN "loaded" ELSE @]

-----------------------------------------------------------------------------
(* Python: a service with a stale root main.py, and Ruff.                  *)

Services == [ruff : {"none", "format", "sort"}, sorted : BOOLEAN, formatted : BOOLEAN,
             contract : {"none", "signed"}, main : {"none", "own", "stale"}, packages : 0..2]

(* The one package that the project declares and that has an application. *)
Packaged(q) == q.packages = 1

FastApi(q) == IF q.main = "stale" /\ Packaged(q)
              THEN [q EXCEPT !.main = "launcher"] ELSE q

(* Signed acceptance contracts are not among the files given to Ruff. *)
Repairable(q) == {"source"}

Rewritten(q) == [q EXCEPT !.contract = IF "contract" \in Repairable(q) /\ @ = "signed"
                                       THEN "broken" ELSE @]

Sorts(q) == q.ruff = "sort"

Formats(q) == q.ruff # "none"

RuffSort(q) == IF Sorts(q) THEN [Rewritten(q) EXCEPT !.sorted = TRUE] ELSE q

RuffFormat(q) == IF Formats(q) THEN [Rewritten(q) EXCEPT !.formatted = TRUE] ELSE q

-----------------------------------------------------------------------------
(* Tests of Node: one file, and the script that runs it.                   *)

Suites == [module : BOOLEAN, syntax : {"cjs", "esm", "mixed"}, ext : {"js"},
           taken : BOOLEAN, form : {"dir", "file", "run", "glob", "bare"}, exts : {{"js"}}]

(* The file, then the mention of it by path in the scripts. *)
CjsHalf(q) ==
    IF q.module /\ q.syntax = "cjs" /\ q.ext = "js" /\ ~q.taken
    THEN [q EXCEPT !.ext = "cjs"] ELSE q

CjsTests(q) ==
    LET r == CjsHalf(q)
    IN  IF r # q /\ q.form \in {"file", "run"} THEN [r EXCEPT !.exts = {"cjs"}] ELSE r

(* `node --test dir` becomes globs for the extensions that are there. *)
NodeTestScript(q) ==
    IF q.form = "dir"
    THEN [q EXCEPT !.form = "glob",
                   !.exts = {q.ext} \union (IF q.taken THEN {"cjs"} ELSE {})]
    ELSE q

(* `node tests/a.test.js` is a script that runs a file like any other. *)
DropTestScript(q) ==
    IF q.form = "run" /\ q.ext \notin q.exts THEN [q EXCEPT !.form = "none"] ELSE q

-----------------------------------------------------------------------------
(* The list, in the order of the code, and what of it concerns a kind.     *)

Order == <<"fences", "bullets", "markers", "sanitize", "relink", "scaffold", "deps",
           "astro", "scripts", "drop", "types", "peers", "client", "alias", "vitest",
           "metadata", "strip", "entry", "icons", "tauri", "phaser", "fastapi",
           "assets", "textures", "sort", "format", "cjs", "node">>

Concerns ==
    [text    |-> {"fences", "bullets", "markers", "strip", "entry"},
     web     |-> {"relink", "scaffold", "deps", "types", "alias", "vitest"},
     package |-> {"sanitize", "deps", "astro", "scripts", "peers"},
     site    |-> {"client", "metadata"},
     icons   |-> {"icons"},
     shell   |-> {"tauri"},
     game    |-> {"phaser", "assets", "textures"},
     service |-> {"fastapi", "sort", "format"},
     suite   |-> {"drop", "cjs", "node"}]

List == SelectSeq(Order, LAMBDA s : s \in Concerns[kind])

Projects ==
    [text |-> Texts, web |-> {q \in Webs : UsualWeb(q)},
     package |-> Packages, site |-> Sites, icons |-> Icons, shell |-> Shells,
     game |-> Games, service |-> Services, suite |-> Suites]

Repaired(s, q) ==
    CASE s = "fences"   -> Fences(q)       [] s = "bullets"  -> Bullets(q)
      [] s = "markers"  -> Markers(q)      [] s = "sanitize" -> Sanitize(q)
      [] s = "relink"   -> Relink(q)       [] s = "scaffold" -> Scaffold(q)
      [] s = "deps"     -> NpmDeps(q)      [] s = "astro"    -> AstroPin(q)
      [] s = "scripts"  -> DropScripts(q)  [] s = "drop"     -> DropTestScript(q)
      [] s = "types"    -> NodeTypes(q)    [] s = "peers"    -> ConfigPeers(q)
      [] s = "client"   -> UseClient(q)    [] s = "alias"    -> AliasConfig(q)
      [] s = "vitest"   -> VitestConfig(q) [] s = "metadata" -> NextMetadata(q)
      [] s = "strip"    -> StripTypes(q)   [] s = "entry"    -> TsxEntry(q)
      [] s = "icons"    -> LucideIcons(q)  [] s = "tauri"    -> TauriCargo(q)
      [] s = "phaser"   -> PhaserEntry(q)  [] s = "fastapi"  -> FastApi(q)
      [] s = "assets"   -> Assets(q)       [] s = "textures" -> Textures(q)
      [] s = "sort"     -> RuffSort(q)     [] s = "format"   -> RuffFormat(q)
      [] s = "cjs"      -> CjsTests(q)     [] s = "node"     -> NodeTestScript(q)

(* What is there when the last write of a repair fails: nothing of it,     *)
(* unless it writes two files or, as use client does, a file of several.   *)
HalfRepaired(s, q) ==
    CASE s = "tauri"    -> {q, TauriHalf(q)}
      [] s = "textures" -> {q, TexturesHalf(q)}
      [] s = "cjs"      -> {q, CjsHalf(q)}
      [] s = "client"   -> {[q EXCEPT !.layout = Directed(@)], [q EXCEPT !.page = Directed(@)]}
      [] OTHER          -> {q}

-----------------------------------------------------------------------------

Init == /\ kind \in FixKinds
        /\ p \in Projects[kind] /\ start = p
        /\ at = 1 /\ pass = 1 /\ quiet = TRUE /\ failures = 0

Repair ==
    /\ at <= Len(List)
    /\ p' = Repaired(List[at], p)
    /\ quiet' = (quiet /\ p' = p)
    /\ at' = at + 1
    /\ UNCHANGED <<kind, start, pass, failures>>

WriteFails ==
    /\ at <= Len(List) /\ failures < MaxWrites
    /\ Repaired(List[at], p) # p
    /\ p' \in HalfRepaired(List[at], p)
    /\ quiet' = FALSE /\ failures' = failures + 1 /\ at' = at + 1
    /\ UNCHANGED <<kind, start, pass>>

Again ==
    /\ at > Len(List) /\ ~quiet /\ pass < MaxPasses
    /\ at' = 1 /\ pass' = pass + 1 /\ quiet' = TRUE
    /\ UNCHANGED <<kind, p, start, failures>>

Next == Repair \/ WriteFails \/ Again

Spec == Init /\ [][Next]_vars

-----------------------------------------------------------------------------
(* The properties.                                                         *)

TypeOK ==
    /\ kind \in FixKinds /\ DOMAIN p = DOMAIN start
    /\ at \in 1..Len(List) + 1 /\ pass \in 1..MaxPasses
    /\ quiet \in BOOLEAN /\ failures \in 0..MaxWrites

PassEnded == at > Len(List)

AtRest == PassEnded /\ quiet

Clashes(f) == f.metadata /\ f.directive \in {"top", "below"}

Broken(f) == f.directive = "buried" \/ (f.signal /\ f.directive = "none")

(* The script runs a pattern that no test matches: it reports success. *)
EmptySuite(q) == q.form = "glob" /\ q.ext \notin q.exts /\ ~(q.taken /\ "cjs" \in q.exts)

Files == {p.layout, p.page}

(* The defects that the repairs are there to remove. *)
Defects ==
    CASE kind = "text"    -> {d \in {"wrapped", "typed", "entry"} :
                                CASE d = "wrapped" -> p.wraps # <<>>
                                  [] d = "typed"   -> p.types = "line"
                                  [] d = "entry"   -> p.entry = "jsx" /\ p.twin /\ Contaminated(p)}
      [] kind = "web"     -> {d \in {"import", "alias", "deps", "types", "vitest"} :
                                CASE d = "import" -> Unresolved(p)
                                  [] d = "alias"  -> p.aliased /\ (~p.maps \/ p.target = "missing")
                                  [] d = "deps"   -> ~(p.imported \subseteq p.declared)
                                  [] d = "types"  -> p.typed /\ TypeChecked(p) /\ "@types/node" \notin p.declared
                                  [] d = "vitest" -> UsesVitest(p) /\ p.aliasTest /\ ~p.viteCfg}
      [] kind = "package" -> {d \in {"names", "script", "pin", "deps", "peers"} :
                                CASE d = "names"  -> p.bad # {}
                                  [] d = "script" -> p.script = "dangling"
                                  [] d = "pin"    -> "astro" \in p.declared /\ p.pin # "3"
                                  [] d = "deps"   -> ~(p.imported \subseteq p.declared)
                                  [] d = "peers"  -> p.flag /\ "critters" \notin p.declared}
      [] kind = "site"    -> {d \in {"broken", "clash", "untitled"} :
                                CASE d = "broken"   -> \E f \in Files : Broken(f)
                                  [] d = "clash"    -> \E f \in Files : Clashes(f)
                                  [] d = "untitled" -> /\ \A f \in Files : ~f.metadata
                                                       /\ p.head # "titled"}
      [] kind = "icons"   -> ToSet(p.names) \ Exported
      [] kind = "shell"   -> {d \in {"features", "allowlist"} :
                                CASE d = "features"  -> p.features = "invented"
                                  [] d = "allowlist" -> p.features = "api-all" /\ p.allowlist # "all"}
      [] kind = "game"    -> {d \in {"entry", "image", "texture"} :
                                CASE d = "entry"   -> p.boot /\ p.html # "game"
                                  [] d = "image"   -> /\ p.image # "none"
                                                      /\ AssetBase(p) \notin p.fake \union {p.image}
                                  [] d = "texture" -> p.texture = "unloaded"}
      [] kind = "service" -> {d \in {"entry", "sorted", "formatted"} :
                                CASE d = "entry"     -> p.main = "stale" /\ Packaged(p)
                                  [] d = "sorted"    -> Sorts(p) /\ ~p.sorted
                                  [] d = "formatted" -> Formats(p) /\ ~p.formatted}
      [] kind = "suite"   -> {d \in {"refused", "dir", "empty"} :
                                CASE d = "refused" -> p.module /\ p.ext = "js" /\ p.syntax = "cjs"
                                  [] d = "dir"     -> p.form = "dir"
                                  [] d = "empty"   -> EmptySuite(p)}

Moved(f) == f.directive \in {"buried", "below"}

(* What the repairs refuse to guess, and leave as it was.                  *)
Refused ==
    CASE kind = "web"     -> (IF start.rel = "outside" THEN {"import"} ELSE {})
                             \union (IF start.cfg \in {"unreadable", "commented"} THEN {"alias"} ELSE {})
      [] kind = "site"    -> (IF start.head = "none" THEN {"untitled"} ELSE {})
                             \union (IF Clashes(start.layout) \/ Clashes(start.page)
                                     THEN {"clash"} ELSE {})
      [] kind = "shell"   -> IF start.conf = "unreadable" THEN {"allowlist"} ELSE {}
      [] kind = "game"    -> IF start.computed \/ ~start.anchor THEN {"texture"} ELSE {}
      [] kind = "suite"   -> IF start.taken THEN {"refused"} ELSE {}
      [] OTHER            -> {}

(* What they leave though it is their own doing: a directive moved up over *)
(* metadata, the first of two files written and the second not, tests that *)
(* are renamed under a glob.                                               *)
Caused ==
    CASE kind = "site"    -> IF Moved(start.layout) \/ Moved(start.page) THEN {"clash"} ELSE {}
      [] kind = "shell"   -> IF failures > 0 THEN {"allowlist"} ELSE {}
      [] kind = "suite"   -> IF \/ start.form = "glob"
                                \/ start.form = "dir" /\ failures > 0
                             THEN {"empty"} ELSE {}
      [] OTHER            -> {}

(* Nothing that worked is taken away: a resolved import, a script that     *)
(* finds its tests, real art, an icon that exists, a signed contract, a    *)
(* server page that exports its own metadata and needs no client.          *)
Harmed ==
    CASE kind = "web"     -> start.rel = "fine" /\ p.rel # "fine"
      [] kind = "package" -> start.script \in {"right", "chained"} /\ p.script # start.script
      [] kind = "site"    -> \E f \in {"layout", "page"} :
                                /\ start[f].directive = "none" /\ ~start[f].signal
                                /\ p[f].directive # "none"
      [] kind = "icons"   -> "Rare" \in ToSet(start.names) /\ "Rare" \notin ToSet(p.names)
      [] kind = "shell"   -> start.features = "valid" /\ p # start
      [] kind = "game"    -> start.image = "root" /\ "public" \in p.fake
      [] kind = "service" -> p.contract = "broken" \/ (start.main = "own" /\ p.main # "own")
      [] kind = "suite"   -> start.form \in {"run", "file", "glob"} /\ PassEnded
                                /\ (p.form = "none" \/ p.ext \notin p.exts)
      [] OTHER            -> FALSE

(* Where they do take it away: a page that speaks of the signals of a      *)
(* client without using them is made one; the icons of a package that is   *)
(* not installed are replaced by guesses; a placeholder in public/, which  *)
(* was there or appears, hides the art at the root; tests are renamed      *)
(* under the glob that ran them, or beside a script that a failed write    *)
(* left.                                                                   *)
Spoilt ==
    CASE kind = "site"    -> start.wordy
      [] kind = "icons"   -> ~start.installed
      [] kind = "game"    -> start.public \/ start.texture = "unloaded"
      [] kind = "suite"   -> start.form = "glob" \/ failures > 0
      [] OTHER            -> FALSE

(* Whatever a model wrote, and whichever write failed, the passes come to  *)
(* rest.  What they leave then is none of the defects they are there for,  *)
(* except what they refuse to guess and what they cause; and at no point   *)
(* do they take away what was right, except where they spoil it.           *)
FixesSound ==
    /\ PassEnded /\ pass = MaxPasses => quiet
    /\ AtRest => Defects \subseteq Refused \union Caused
    /\ Harmed => Spoilt

(* "making the whole repair converge in one call" (apply_deterministic_    *)
(* repairs): a second call has nothing left to repair.  Not so: a late     *)
(* repair writes a configuration that brings imports of its own, and       *)
(* wrappers come off one per call.                                         *)
OneCallConverges == PassEnded /\ pass = 2 => quiet
=============================================================================
