------------------------------- MODULE Floor -------------------------------
(***************************************************************************)
(* From a brief to a tree that runs.  The planner, the architect, the code *)
(* agent, the runner's back-fill and the proof each decide for themselves  *)
(* which starter a build stands on: the planner by its signatures, the     *)
(* code agent and the back-fill by normalising the planner's word, the     *)
(* proof by handing that word to the builders as it is                     *)
(* (skyn3t/studio/planner.py, agents/architect.py, agents/_common.py,      *)
(* agents/code_agent.py, studio/runner.py, studio/proof_run.py).           *)
(*                                                                         *)
(* A brief is a set of at most two signals, a tree a function from paths   *)
(* to where the text there comes from: the session's own, the starter, the *)
(* back-fill, or a shim written by an entry-point repair.                  *)
(***************************************************************************)
EXTENDS TLC, Sequences, FiniteSets, SequencesExt

VARIABLES
  brief,   \* the signals the brief carries
  plan,    \* what the planner and the architect decided
  tree,    \* [path -> origin of its text]
  step     \* how far the build is, and what the session did

vars == <<brief, plan, tree, step>>

-----------------------------------------------------------------------------
(***************************************************************************)
(* The deterministic starters every build rests on (agents/_scaffold.py    *)
(* and its two Swift companions).  A starter is a function from the paths  *)
(* it writes to what the text at that path refers to: other files of the   *)
(* project (imports, script and style links, entry points named by a       *)
(* manifest, files a README describes as present) and packages.            *)
(* FloorStands and ChecklistMet read every one of them: a reference that   *)
(* nothing answers is a starter that does not run. What else the texts say *)
(* (markup, styling, wording) tells no property apart and is left out.     *)
(***************************************************************************)
Leaves(P) == [p \in P |-> {}]

-----------------------------------------------------------------------------
(* The texts, builder by builder.                                          *)

ReactViteShell ==
     "package.json" :> {"index.html"}
  @@ "vite.config.js" :> {"@vitejs/plugin-react", "vite"}
  @@ "index.html" :> {"src/main.jsx"}
  @@ "src/main.jsx" :> {"src/App.jsx", "src/design-tokens.css", "src/styles.css",
        "react", "react-dom"}

ReactViteUi ==
     "src/components/ui.jsx" :> {"react"}
  @@ Leaves({"src/design-tokens.css"})

ReactViteApp ==
     "src/App.jsx" :> {"src/components/ui.jsx", "react"}
  @@ "README.md" :> {"index.html", "package.json", "src/App.jsx",
        "src/components/ui.jsx", "src/design-tokens.css", "src/main.jsx", "src/styles.css",
        "vite.config.js"}
  @@ Leaves({"src/styles.css", ".gitignore"})

WeatherFiles ==
     "index.html" :> {"src/main.jsx"}
  @@ "src/App.jsx" :> {"react"}
  @@ "README.md" :> {"index.html", "package.json", "src/App.jsx", "src/main.jsx",
        "src/styles.css"}
  @@ Leaves({"src/styles.css"})

StaticFiles ==
     "index.html" :> {"main.js", "styles.css"}
  @@ "package.json" :> {"index.html"}
  @@ "README.md" :> {"index.html", "main.js", "package.json", "styles.css"}
  @@ Leaves({"styles.css", "main.js"})

PythonCliFiles ==
     "pyproject.toml" :> {"pkg/cli.py"}
  @@ "main.py" :> {"pkg/cli.py"}
  @@ "pkg/cli.py" :> {"pkg/core.py"}
  @@ "tests/test_core.py" :> {"pkg/core.py"}
  @@ "README.md" :> {"main.py", "pkg/__init__.py", "pkg/cli.py", "pkg/core.py",
        "pyproject.toml", "tests/test_core.py"}
  @@ Leaves({"requirements.txt", "pkg/__init__.py", "pkg/core.py", ".gitignore"})

FastapiFiles ==
     "main.py" :> {"fastapi"}
  @@ "test_main.py" :> {"main.py", "fastapi"}
  @@ "README.md" :> {"main.py", "requirements.txt", "test_main.py"}
  @@ Leaves({"requirements.txt"})

ExpressFiles ==
     "package.json" :> {"server.js", "test.js"}
  @@ "server.js" :> {"express"}
  @@ "test.js" :> {"server.js"}
  @@ "README.md" :> {"package.json", "server.js", "test.js"}
  @@ Leaves({".gitignore"})

ExpoProject ==
     "package.json" :> {"App.tsx", "app.json"}
  @@ Leaves({"app.json", "tsconfig.json", "babel.config.js"})

ExpoScreens ==
     "App.tsx" :> {"src/components/Counter.tsx", "expo-status-bar", "react",
        "react-native"}
  @@ "src/components/Counter.tsx" :> {"react-native"}
  @@ "README.md" :> {"App.tsx", "app.json", "babel.config.js", "package.json",
        "src/components/Counter.tsx", "tsconfig.json"}
  @@ Leaves({".gitignore"})

NextShell ==
     "next.config.js" :> {"next"}
  @@ "app/layout.jsx" :> {"app/globals.css"}
  @@ Leaves({"package.json", "jsconfig.json"})

NextPages ==
     "app/page.jsx" :> {"components/ui.jsx", "react"}
  @@ "README.md" :> {"app/globals.css", "app/layout.jsx", "app/page.jsx",
        "components/ui.jsx", "next.config.js", "package.json"}
  @@ Leaves({"components/ui.jsx", "app/globals.css", ".gitignore"})

SupabaseShell ==
     "next.config.js" :> {"next"}
  @@ "lib/supabaseClient.js" :> {"@supabase/supabase-js"}
  @@ "app/layout.jsx" :> {"app/globals.css"}
  @@ Leaves({"package.json", "jsconfig.json", ".env.example"})

SupabasePages ==
     "app/page.jsx" :> {"lib/supabaseClient.js"}
  @@ "README.md" :> {".env.example", "app/globals.css", "app/layout.jsx", "app/page.jsx",
        "lib/supabaseClient.js", "next.config.js", "package.json"}
  @@ Leaves({"app/globals.css", ".gitignore"})

LocalBackendFiles ==
     "skyn3t-backend.json" :> {"app/api/auth/login/route.js",
        "app/api/auth/register/route.js", "app/api/items/route.js"}
  @@ "app/api/auth/register/route.js" :> {"lib/localBackend.js", "next"}
  @@ "app/api/auth/login/route.js" :> {"lib/localBackend.js", "next"}
  @@ "app/api/items/route.js" :> {"lib/localBackend.js", "next"}
  @@ "README.md" :> {".env.example", "app/api/auth/login/route.js",
        "app/api/auth/register/route.js", "app/api/items/route.js", "app/page.jsx",
        "lib/localBackend.js", "package.json", "skyn3t-backend.json"}
  @@ Leaves({".env.example", "lib/localBackend.js"})

AstroFiles ==
     "astro.config.mjs" :> {"astro"}
  @@ "src/pages/index.astro" :> {"src/layouts/Layout.astro"}
  @@ "README.md" :> {"astro.config.mjs", "package.json", "src/layouts/Layout.astro",
        "src/pages/index.astro"}
  @@ Leaves({"package.json", "src/layouts/Layout.astro", ".gitignore"})

DocsSiteFiles ==
     "src/pages/index.astro" :> {"src/layouts/Layout.astro"}
  @@ "README.md" :> {"astro.config.mjs", "package.json", "src/layouts/Layout.astro",
        "src/pages/index.astro"}

RemixFiles ==
     "vite.config.ts" :> {"@remix-run/dev", "vite", "vite-tsconfig-paths"}
  @@ "app/root.tsx" :> {"@remix-run/react"}
  @@ "app/routes/_index.tsx" :> {"@remix-run/node"}
  @@ "README.md" :> {"app/root.tsx", "app/routes/_index.tsx", "package.json",
        "tsconfig.json", "vite.config.ts"}
  @@ Leaves({"package.json", "tsconfig.json", ".gitignore"})

StorefrontFiles ==
     "app/routes/_index.tsx" :> {"@remix-run/node", "@remix-run/react"}
  @@ "README.md" :> {"app/root.tsx", "app/routes/_index.tsx", "app/routes/cart.tsx",
        "package.json", "tsconfig.json", "vite.config.ts"}
  @@ "app/routes/cart.tsx" :> {"@remix-run/node", "@remix-run/react"}

ReactThreeFiles ==
     "src/App.jsx" :> {"react", "three"}
  @@ Leaves({"package.json", "src/styles.css"})

StaticThreeFiles ==
     "index.html" :> {"main.js", "styles.css"}
  @@ "main.js" :> {"index.html"}
  @@ Leaves({"styles.css"})

TauriFiles ==
     "package.json" :> {"index.html", "src-tauri/Cargo.toml"}
  @@ "vite.config.js" :> {"@vitejs/plugin-react", "vite"}
  @@ "src-tauri/Cargo.toml" :> {"src-tauri/build.rs", "src-tauri/src/main.rs"}
  @@ "src-tauri/build.rs" :> {"src-tauri/tauri.conf.json"}
  @@ "src-tauri/tauri.conf.json" :> {"package.json"}
  @@ Leaves({"src-tauri/src/main.rs", "src-tauri/.gitignore"})

PhaserScene ==
     "src/main.js" :> {"src/sim.js", "src/styles.css", "phaser"}

DinoScene ==
     "src/main.js" :> {"src/sim.js", "src/styles.css", "phaser"}
  @@ Leaves({"src/sim.js"})

PhaserShell ==
     "package.json" :> {"index.html"}
  @@ "vite.config.js" :> {"vite"}
  @@ "index.html" :> {"src/main.js"}

PhaserGame ==
     "README.md" :> {"index.html", "package.json", "src/main.js", "src/sim.js",
        "src/styles.css", "vite.config.js"}
  @@ Leaves({"src/sim.js", "src/styles.css", ".gitignore"})

DinoShell ==
     "index.html" :> {"src/main.js"}
  @@ "README.md" :> {"index.html", "package.json", "src/main.js", "src/sim.js",
        "src/styles.css"}
  @@ Leaves({"src/styles.css"})

SwiftPackage ==
     "Package.swift" :> {"Sources/App/MainApp.swift", "Sources/AppCLI/main.swift",
        "Sources/AppCore/AppModel.swift", "Tests/AppCoreTests/AppCoreTests.swift"}
  @@ Leaves({"Sources/AppCore/AppModel.swift"})

SwiftSources ==
     "Sources/App/ContentView.swift" :> {"Sources/AppCore/AppModel.swift"}
  @@ "Sources/App/MainApp.swift" :> {"Sources/App/ContentView.swift"}
  @@ "Sources/AppCLI/main.swift" :> {"Sources/AppCore/AppModel.swift"}

SwiftTests ==
     "Tests/AppCoreTests/AppCoreTests.swift" :> {"Sources/AppCore/AppModel.swift"}
  @@ ".skyn3t-cli-playtest.json" :> {"Sources/AppCLI/main.swift"}
  @@ "README.md" :> {".skyn3t-cli-playtest.json", "Package.swift",
        "Sources/App/ContentView.swift", "Sources/App/MainApp.swift",
        "Sources/AppCLI/main.swift", "Sources/AppCore/AppModel.swift",
        "Tests/AppCoreTests/AppCoreTests.swift"}
  @@ Leaves({".gitignore"})

IosFiles ==
     "App.xcodeproj/project.pbxproj" :> {"App/App.swift",
        "App/Assets.xcassets/Contents.json", "App/Info.plist", "AppTests/AppTests.swift"}
  @@ "App/App.swift" :> {"App/ContentView.swift"}
  @@ "App/ContentView.swift" :> {"App/BottleScannerView.swift",
        "App/BottleTextParser.swift", "App/ReviewProvider.swift"}
  @@ "AppTests/AppTests.swift" :> {"App/BottleTextParser.swift",
        "App/ReviewProvider.swift"}
  @@ "README.md" :> {"App.xcodeproj/project.pbxproj", "App/App.swift",
        "App/BottleScannerView.swift", "App/BottleTextParser.swift",
        "App/ContentView.swift", "App/Info.plist", "AppTests/AppTests.swift"}
  @@ Leaves({"App/BottleTextParser.swift", "App/BottleScannerView.swift",
        "App/ReviewProvider.swift", "App/Info.plist", "App/Assets.xcassets/Contents.json",
        ".gitignore"})

CellarModels ==
     "App/App.swift" :> {"App/ContentView.swift", "App/Models.swift"}
  @@ "App/Providers.swift" :> {"App/Models.swift"}
  @@ Leaves({"App/Models.swift"})

CellarScanner ==
     "App/BottleScannerView.swift" :> {"App/Models.swift"}

CellarContent ==
     "App/ContentView.swift" :> {"App/BottleDetailView.swift",
        "App/BottleEditorView.swift", "App/Models.swift", "App/SampleData.swift"}

CellarDetail ==
     "App/BottleDetailView.swift" :> {"App/BottleEditorView.swift",
        "App/ContentView.swift", "App/Models.swift", "App/Providers.swift"}

CellarEditor ==
     "App/BottleEditorView.swift" :> {"App/BottleScannerView.swift", "App/Models.swift",
        "App/Providers.swift"}

CellarRest ==
     "App/SampleData.swift" :> {"App/Models.swift"}
  @@ "AppTests/AppTests.swift" :> {"App/Models.swift", "App/Providers.swift"}
  @@ "App.xcodeproj/project.pbxproj" :> {"App/App.swift",
        "App/Assets.xcassets/Contents.json", "App/Info.plist", "AppTests/AppTests.swift"}
  @@ Leaves({"App/Info.plist", "App/Assets.xcassets/Contents.json", ".gitignore",
        "README.md"})

VendorFiles ==
     "main.py" :> {"vendors.py", "fastapi", "uvicorn"}
  @@ "test_main.py" :> {"main.py", "vendors.py", "fastapi"}
  @@ "README.md" :> {"main.py", "requirements.txt", "test_main.py", "vendors.py"}
  @@ Leaves({"vendors.py", "requirements.txt"})

FinanceFiles ==
     "main.py" :> {"ledger.py", "market.py", "strategy.py", "fastapi", "pydantic",
        "uvicorn"}
  @@ "test_main.py" :> {"ledger.py", "main.py", "market.py", "strategy.py", "fastapi",
        "pytest"}
  @@ "README.md" :> {"ledger.py", "main.py", "market.py", "strategy.py", "test_main.py"}
  @@ Leaves({"market.py", "strategy.py", "ledger.py", "requirements.txt"})

GatewayCore == "providers.py" :> {"httpx"} @@ Leaves({"router_core.py"})
GatewayService ==
     "main.py" :> {"providers.py", "router_core.py", "fastapi", "pydantic", "uvicorn"}
  @@ "test_main.py" :> {"main.py", "providers.py", "router_core.py", "fastapi"}
GatewayFiles ==
     GatewayCore @@ GatewayService @@ Leaves({"requirements.txt"})
  @@ "README.md" :> {"main.py", "providers.py", "requirements.txt", "router_core.py",
        "test_main.py"}

CliAgentCore == Leaves({"cli_core.py"})
CliAgentMain == "main.py" :> {"cli_core.py", "scenarios.json"}
CliAgentFiles ==
     CliAgentCore @@ CliAgentMain
  @@ ".skyn3t-cli-playtest.json" :> {"main.py"}
  @@ "test_cli_agent.py" :> {"cli_core.py"}
  @@ "pyproject.toml" :> {"main.py", "scenarios.json"}
  @@ "README.md" :> {".skyn3t-cli-playtest.json", "cli_core.py", "main.py",
        "scenarios.json", "test_cli_agent.py"}
  @@ Leaves({"scenarios.json", ".gitignore"})

McpFiles ==
     "server.py" :> {"tools.py", "mcp"}
  @@ "tests/test_tools.py" :> {"tools.py"}
  @@ "README.md" :> {"requirements.txt", "server.py", "tests/test_tools.py", "tools.py"}
  @@ Leaves({"tools.py", "requirements.txt", ".gitignore"})

RagCore == Leaves({"rag_core.py"})
RagService == "main.py" :> {"rag_core.py", "fastapi", "httpx", "pydantic", "uvicorn"}
RagFiles ==
     RagCore @@ RagService
  @@ "test_rag_core.py" :> {"rag_core.py"}
  @@ "README.md" :> {"corpus/seed.md", "main.py", "rag_core.py", "requirements.txt",
        "test_rag_core.py"}
  @@ Leaves({"corpus/seed.md", "requirements.txt", ".gitignore"})

MemoryChatFiles ==
     "test_memory_store.py" :> {"memory_store.py", "rag_core.py"}
  @@ "main.py" :> {"memory_store.py", "rag_core.py", "fastapi", "httpx", "pydantic",
        "uvicorn"}
  @@ Leaves({"memory_store.py", ".gitignore"})

WorkflowCore == Leaves({"workflow_core.py"})
WorkflowService == "main.py" :> {"workflow_core.py", "fastapi", "pydantic", "uvicorn"}
WorkflowFiles ==
     WorkflowCore @@ WorkflowService
  @@ "test_workflow_core.py" :> {"workflow_core.py"}
  @@ "README.md" :> {"main.py", "requirements.txt", "test_workflow_core.py",
        "workflow_core.py"}
  @@ Leaves({"requirements.txt", ".gitignore"})

PackTools == "pack_tools.py" :> {"catalog.json"} @@ "main.py" :> {"pack_tools.py"}
Personas == {"agents/research/analyst.md", "agents/research/writer.md",
  "agents/ops/coordinator.md"}
PackFiles ==
     PackTools
  @@ "catalog.json" :> Personas
  @@ "test_agent_pack.py" :> {"pack_tools.py"}
  @@ "README.md" :> Personas \cup {"catalog.json", "main.py", "pack_tools.py", "test_agent_pack.py"}
  @@ Leaves(Personas \cup {".gitignore"})

VueFiles ==
     "package.json" :> {"index.html"}
  @@ "vite.config.ts" :> {"@vitejs/plugin-vue", "vite"}
  @@ "index.html" :> {"src/main.ts"}
  @@ "src/main.ts" :> {"src/App.vue", "src/styles.css", "vue"}
  @@ "src/App.vue" :> {"vue"}
  @@ "README.md" :> {"package.json", "src/App.vue", "src/main.ts", "tsconfig.json",
        "vite.config.ts"}
  @@ Leaves({"tsconfig.json", "src/styles.css", ".gitignore"})

SvelteFiles ==
     "svelte.config.js" :> {"@sveltejs/adapter-auto", "@sveltejs/vite-plugin-svelte"}
  @@ "vite.config.ts" :> {"@sveltejs/kit", "vite"}
  @@ "README.md" :> {"package.json", "src/app.html", "src/routes/+page.svelte",
        "svelte.config.js", "vite.config.ts"}
  @@ Leaves({"package.json", "tsconfig.json", "src/routes/+page.svelte", "src/app.html",
        ".gitignore"})

ReactTsFiles ==
     "package.json" :> {"index.html"}
  @@ "vite.config.ts" :> {"@vitejs/plugin-react", "vite"}
  @@ "index.html" :> {"src/main.tsx"}
  @@ "src/main.tsx" :> {"src/App.tsx", "src/styles.css", "react", "react-dom"}
  @@ "src/App.tsx" :> {"react"}
  @@ "README.md" :> {"package.json", "src/App.tsx", "src/main.tsx", "tsconfig.json",
        "vite.config.ts"}
  @@ Leaves({"tsconfig.json", "src/styles.css", ".gitignore"})
-----------------------------------------------------------------------------
(* The starters, each built over the one it varies: the left operand of @@ *)
(* replaces what the right one wrote.                                      *)

React == ReactViteShell @@ ReactViteUi @@ ReactViteApp
Weather == WeatherFiles @@ React
ReactThree == ReactThreeFiles @@ React
StaticThree == StaticThreeFiles @@ StaticFiles
Tauri == TauriFiles @@ React
Expo == ExpoProject @@ ExpoScreens
NextJs == NextShell @@ NextPages
Supabase == SupabaseShell @@ SupabasePages
LocalBackend == LocalBackendFiles @@ NextJs
DocsSite == DocsSiteFiles @@ AstroFiles
Storefront == StorefrontFiles @@ RemixFiles
Phaser == PhaserShell @@ PhaserScene @@ PhaserGame
Dino == DinoScene @@ DinoShell @@ Phaser
Swift == SwiftPackage @@ SwiftSources @@ SwiftTests
Cellar == CellarModels @@ CellarScanner @@ CellarContent @@ CellarDetail @@ CellarEditor @@ CellarRest
MemoryChat == MemoryChatFiles @@ RagFiles

Starter ==
  [react_vite |-> React, weather |-> Weather, react_three |-> ReactThree,
   react_ts |-> ReactTsFiles, tauri |-> Tauri, phaser |-> Phaser, dino |-> Dino,
   swift |-> Swift, swift_ios |-> IosFiles, cellar |-> Cellar, mcp |-> McpFiles,
   rag |-> RagFiles, memory_chat |-> MemoryChat, workflow |-> WorkflowFiles,
   agent_pack |-> PackFiles, react_native |-> Expo, nextjs |-> NextJs,
   supabase |-> Supabase, local_backend |-> LocalBackend, astro |-> AstroFiles,
   docs_site |-> DocsSite, remix |-> RemixFiles, storefront |-> Storefront,
   vue |-> VueFiles, sveltekit |-> SvelteFiles, static_html |-> StaticFiles,
   static_three |-> StaticThree, python_cli |-> PythonCliFiles,
   cli_agent |-> CliAgentFiles, fastapi |-> FastapiFiles, finance |-> FinanceFiles,
   market_data |-> VendorFiles, gateway |-> GatewayFiles, node_express |-> ExpressFiles]

ReactPackages == {"react", "react-dom", "@vitejs/plugin-react", "vite"}
NextPackages == {"next", "react", "react-dom"}

\* What the manifest of a starter installs; pydantic arrives with fastapi and
\* pytest is the runner that executes the tests.
Declares(v) ==
  CASE v \in {"react_vite", "weather"} -> ReactPackages
    [] v = "react_three" -> ReactPackages \cup {"three"}
    [] v = "react_ts" -> ReactPackages \cup {"typescript", "@types/react", "@types/react-dom"}
    [] v = "tauri" -> ReactPackages \cup {"@tauri-apps/api", "@tauri-apps/cli"}
    [] v \in {"phaser", "dino"} -> {"phaser", "vite"}
    [] v = "react_native" ->
         {"expo", "expo-status-bar", "react", "react-native", "typescript", "@types/react"}
    [] v \in {"nextjs", "local_backend"} -> NextPackages
    [] v = "supabase" -> NextPackages \cup {"@supabase/supabase-js"}
    [] v \in {"astro", "docs_site"} -> {"astro"}
    [] v \in {"remix", "storefront"} ->
         {"@remix-run/node", "@remix-run/react", "@remix-run/serve", "@remix-run/dev",
          "isbot", "react", "react-dom", "typescript", "vite", "vite-tsconfig-paths"}
    [] v = "vue" -> {"vue", "@vitejs/plugin-vue", "vite", "typescript", "vue-tsc"}
    [] v = "sveltekit" -> {"@sveltejs/adapter-auto", "@sveltejs/kit", "vite",
                           "@sveltejs/vite-plugin-svelte", "svelte", "typescript"}
    [] v \in {"static_html", "static_three"} -> {"serve"}
    [] v = "node_express" -> {"express"}
    [] v = "mcp" -> {"mcp"}
    [] v \in {"fastapi", "finance", "market_data", "gateway", "rag", "memory_chat"} ->
         {"fastapi", "uvicorn", "httpx", "pydantic", "pytest"}
    [] v = "workflow" -> {"fastapi", "uvicorn", "pydantic"}
    [] OTHER -> {}

\* The file a page's module script loads, where the page of a starter has one.
Entry(v) ==
  CASE v \in {"react_vite", "weather", "react_three", "tauri"} -> "src/main.jsx"
    [] v = "react_ts" -> "src/main.tsx"
    [] v = "vue" -> "src/main.ts"
    [] v \in {"phaser", "dino"} -> "src/main.js"
    [] v = "static_three" -> "main.js"
    [] OTHER -> "none"

-----------------------------------------------------------------------------
(* A brief is the set of the signals it carries.                           *)

Finance(B) == "paper trading" \in B \/ {"portfolio dashboard", "stock"} \subseteq B
Supabased(B) == "supabase auth" \in B
LocallyBacked(B) == "login" \in B /\ ~Supabased(B)

\* The tests on the brief by which a builder takes another branch.
ImpliesWeather(B) == "weather forecast" \in B
ImpliesDocsSite(B) == "docs with a sidebar" \in B
ImpliesStorefront(B) == "shop with a cart" \in B
ImpliesDino(B) == "dino runner" \in B
ImpliesCellar(B) == "wine" \in B

\* The branch of the builder that is called.
Branch(stack, B) ==
  CASE stack = "react_vite" /\ ImpliesWeather(B) -> "weather"
    [] stack = "astro" /\ ImpliesDocsSite(B) -> "docs_site"
    [] stack = "remix" /\ ImpliesStorefront(B) -> "storefront"
    [] stack = "phaser" /\ ImpliesDino(B) -> "dino"
    [] stack = "swift_ios" /\ ImpliesCellar(B) -> "cellar"
    [] OTHER -> stack

Builders ==
  {"react_vite", "react_ts", "tauri", "phaser", "swift", "swift_ios", "mcp", "rag",
   "workflow", "agent_pack", "react_native", "nextjs", "astro", "remix", "vue", "sveltekit",
   "static_html", "python_cli", "fastapi", "node_express"}

\* scaffold_for: the first variant that fits, else the stack's own builder, else
\* React for a stack nobody builds.
ScaffoldFor(stack, B) ==
  CASE stack = "react_vite" /\ "3d" \in B -> "react_three"
    [] stack = "static_html" /\ "3d" \in B -> "static_three"
    [] stack = "fastapi" /\ Finance(B) -> "finance"
    [] stack = "fastapi" /\ "market data" \in B -> "market_data"
    [] stack = "rag" /\ "remembers me" \in B -> "memory_chat"
    [] stack = "fastapi" /\ "llm gateway" \in B -> "gateway"
    [] stack = "python_cli" /\ "agent cli" \in B -> "cli_agent"
    [] stack = "nextjs" /\ Supabased(B) -> "supabase"
    [] stack = "nextjs" /\ LocallyBacked(B) -> "local_backend"
    [] OTHER -> Branch(IF stack \in Builders THEN stack ELSE "react_vite", B)

-----------------------------------------------------------------------------
(* The planner.                                                            *)

\* The signatures, the first that a signal of the brief matches wins.
Signatures ==
  << <<"nextjs", {"next.js"}>>, <<"astro", {"astro"}>>, <<"remix", {"remix"}>>,
     <<"sveltekit", {"svelte"}>>, <<"vue", {"vue"}>>, <<"react_ts", {"react typescript"}>>,
     <<"mcp", {"mcp"}>>, <<"rag", {"knowledge base", "remembers me"}>>,
     <<"fastapi", {"paper trading"}>>, <<"agent_pack", {"agent pack"}>>,
     <<"workflow", {"agent workflow"}>>, <<"swift_ios", {"native ios"}>>,
     <<"react_native", {"expo", "ios"}>>, <<"swift", {"swiftui"}>>,
     <<"tauri", {"mac app", "desktop"}>>, <<"phaser", {"browser game"}>>,
     <<"react", {"react", "portfolio dashboard", "gui"}>>, <<"fastapi", {"rest api"}>>,
     <<"flask", {"flask"}>>, <<"django", {"django"}>>, <<"express", {"express"}>>,
     <<"cli", {"cli", "agent cli"}>>, <<"python", {"script", "data", "market data"}>>,
     <<"static", {"landing page", "website"}>> >>

GuiDefault == {"app", "rebuild"}
LlmSignals == {"ai", "llm gateway"}

First(sigs, B, default) ==
  LET hit == {i \in DOMAIN sigs : sigs[i][2] \cap B # {}}
  IN  IF hit = {} THEN default ELSE sigs[CHOOSE i \in hit : \A j \in hit : i <= j][1]

\* A brief that wants a model behind a page without a server gets one.
PlannerStack(B) ==
  LET named == First(Signatures, B, IF B \cap GuiDefault # {} THEN "react" ELSE "python")
  IN  IF named \in {"react", "static"} /\ B \cap LlmSignals # {} THEN "nextjs" ELSE named

Checklist(stack) ==
  {"README.md"} \cup
  CASE stack = "fastapi" -> {"requirements.txt", "main.py", "test_main.py"}
    [] stack = "flask" -> {"requirements.txt", "app.py", "tests/test_app.py"}
    [] stack = "django" -> {"requirements.txt", "manage.py", "project/settings.py"}
    [] stack = "react" -> {"package.json", "src/App.jsx", "src/main.jsx", "index.html"}
    [] stack = "tauri" -> {"package.json", "index.html", "src/main.jsx",
                           "src-tauri/tauri.conf.json"}
    [] stack = "phaser" -> {"package.json", "index.html", "src/main.js"}
    [] stack = "swift" -> {"Package.swift"}
    \* the directories App and AppTests stand as one file of each
    [] stack = "swift_ios" -> {"App.xcodeproj/project.pbxproj", "App/App.swift",
                               "AppTests/AppTests.swift", "App/Info.plist"}
    [] stack = "mcp" -> {"server.py", "tools.py", "requirements.txt"}
    [] stack = "rag" -> {"main.py", "rag_core.py", "requirements.txt"}
    [] stack = "workflow" -> {"main.py", "workflow_core.py", "requirements.txt"}
    [] stack = "agent_pack" -> {"main.py", "catalog.json", "pack_tools.py"}
    [] stack = "nextjs" -> {"package.json", "app/page.jsx", "app/layout.jsx", "next.config.js"}
    [] stack = "astro" -> {"package.json", "src/pages/index.astro", "astro.config.mjs"}
    [] stack = "remix" -> {"package.json", "app/root.tsx", "app/routes/_index.tsx"}
    [] stack = "vue" -> {"package.json", "index.html", "vite.config.ts", "src/main.ts",
                         "src/App.vue"}
    [] stack = "sveltekit" -> {"package.json", "svelte.config.js", "vite.config.ts",
                               "src/routes/+page.svelte"}
    [] stack = "react_ts" -> {"package.json", "index.html", "vite.config.ts",
                              "tsconfig.json", "src/main.tsx", "src/App.tsx"}
    [] stack = "react_native" -> {"package.json", "app.json", "App.tsx"}
    [] stack = "express" -> {"package.json", "src/index.js", "test/app.test.js"}
    [] stack = "static" -> {"index.html", "styles.css", "main.js"}
    [] OTHER -> {"pyproject.toml", "main.py"}

Pipeline ==
  <<"brainstorm", "research", "architect", "design", "code", "verify_contract",
    "verify_build", "verify_boot", "critic", "review", "package">>

\* Planner.plan: the critic leaves the pipeline when it is off, the tests go in
\* right before the code, and only named stages are gated.
Stages(critic, testFirst) ==
  LET kept == IF critic THEN Pipeline ELSE Remove(Pipeline, "critic")
  IN  IF testFirst THEN InsertAt(kept, SelectInSeq(kept, LAMBDA s : s = "code"), "test_author")
      ELSE kept

TestFirst(fullApp, asked, bestOfN, stack) ==
  CASE fullApp -> TRUE
    [] asked # "unset" -> asked = "yes"
    [] OTHER -> bestOfN > 1 /\ stack \notin {"agent_pack", "mcp", "rag", "workflow"}

-----------------------------------------------------------------------------
(* The architect.                                                          *)

JsxStacks == {"react", "react_vite", "nextjs"}

F(s, e) == [stem |-> s, ext |-> e]

\* What a model may plan.
Menu == {F("src/App", "tsx"), F("src/App", "jsx"), F("src/app", "jsx"), F("src/util", "ts"),
         F("tsconfig", "json"), F("hero", "png"), F("src/pages/Contact", "astro"),
         F("src/pages/contact/index", "astro"), F("contact", "html")}

\* Paths are one when they differ in the case of letters only.
Folded(f) == IF f.stem = "src/app" THEN F("src/App", f.ext)
             ELSE IF f.stem = "src/pages/Contact" THEN F("src/pages/contact", f.ext) ELSE f

\* The first of every group of equal paths stays.
Merged(fs) ==
  FoldLeft(LAMBDA acc, f : IF \E i \in DOMAIN acc : Folded(acc[i]) = Folded(f)
                           THEN acc ELSE Append(acc, f), <<>>, fs)

NoMedia(fs) == SelectSeq(fs, LAMBDA f : f.ext \notin {"png"})

PlainJs(fs, react) ==
  LET code == SelectSeq(fs, LAMBDA f : f # F("tsconfig", "json"))
  IN  [i \in DOMAIN code |->
         CASE code[i].ext = "tsx" -> F(code[i].stem, IF react THEN "jsx" ELSE "js")
           [] code[i].ext = "ts" -> F(code[i].stem, "js")
           [] OTHER -> code[i]]

Url(f, stack) ==
  CASE stack = "astro" /\ f.ext = "astro" /\ f.stem \in {"src/pages/Contact",
            "src/pages/contact", "src/pages/contact/index"} -> "/contact"
    [] stack = "astro" /\ f = F("src/pages/404", "astro") -> "/404"
    [] stack = "static_html" /\ f.ext = "html" -> "/" \o f.stem
    [] OTHER -> "none"

Recovery(stack) ==
  CASE stack = "astro" -> <<F("src/data/site", "js"), F("src/pages/404", "astro"),
                            F("src/pages/contact", "astro")>>
    [] stack = "static_html" -> <<F("data/site", "js"), F("404", "html"), F("contact", "html")>>
    [] OTHER -> <<>>

\* Recovery files are added, but never a second page for a planned address.
Augmented(own, stack) ==
  LET primary == Merged(own)
      urls == {Url(primary[i], stack) : i \in DOMAIN primary} \ {"none"}
  IN  Merged(primary \o SelectSeq(Recovery(stack), LAMBDA f : Url(f, stack) \notin urls))

Designed(own, stack, fullApp) ==
  LET all == Merged(IF fullApp THEN Augmented(own, stack) ELSE own)
      floor == CASE stack \in JsxStacks -> PlainJs(all, TRUE)
                 [] stack = "phaser" -> PlainJs(all, FALSE)
                 [] OTHER -> all
  IN  Merged(NoMedia(floor))

-----------------------------------------------------------------------------
(* The starter a stage stands on.                                          *)

\* _normalize_stack, for the planner's words.
Normal(stack) ==
  CASE stack = "react" -> "react_vite"
    [] stack = "static" -> "static_html"
    [] stack = "express" -> "node_express"
    [] stack \in {"cli", "python"} -> "python_cli"
    [] stack \in {"flask", "django"} -> ""
    [] OTHER -> stack

CoderSignatures ==
  << <<"mcp", {"mcp"}>>, <<"rag", {"knowledge base", "remembers me"}>>,
     <<"agent_pack", {"agent pack"}>>, <<"workflow", {"agent workflow"}>>,
     <<"fastapi", {"rest api"}>>, <<"node_express", {"express"}>>,
     <<"phaser", {"browser game"}>>, <<"react_ts", {"react typescript"}>>,
     <<"python_cli", {"cli", "agent cli", "script"}>>, <<"swift_ios", {"native ios"}>>,
     <<"react_native", {"expo"}>>, <<"swift", {"swiftui"}>>, <<"tauri", {"mac app"}>>,
     <<"nextjs", {"next.js"}>>, <<"sveltekit", {"svelte"}>>, <<"vue", {"vue"}>>,
     <<"astro", {"astro"}>>, <<"remix", {"remix"}>>, <<"react_vite", {"react"}>>,
     <<"static_html", {"landing page"}>> >>

\* agents._common.detect_stack: the word given first, the brief after it.
CoderStack(word, B) ==
  IF Normal(word) # "" THEN Normal(word) ELSE First(CoderSignatures, B, "react_vite")

CoderStarter(word, B) == ScaffoldFor(CoderStack(word, B), B)

\* _runner_scaffold sees no brief when it looks for the stack.
FillStarter(word, B) == ScaffoldFor(CoderStack(word, {}), B)

\* The proof hands the planner's word to the builders unnormalised.
ProofStarter(word, B) == ScaffoldFor(word, B)

-----------------------------------------------------------------------------
(* The session and the merge.                                              *)

All(P, origin) == [p \in P |-> origin]

Paths(v) == DOMAIN Starter[v]

\* What a session can leave: the plan's files in full, some of the starter's
\* paths, the whole plan with one file that is prose and goes back to the
\* starter's text, or, where files are asked for one by one, all but one.
Sessions == {"offline", "complete", "partial", "prose", "per file"}

Own(kind, v, word, p) ==
  CASE kind = "offline" -> {}
    [] kind = "partial" -> {p}
    [] kind = "per file" -> (Paths(v) \cup Checklist(word)) \ {p}
    [] OTHER -> Checklist(word) \cup {"src/own.file"}

\* Complete work stands alone, everything less has the starter under it.
Merge(kind, v, word, p) ==
  LET own == All(Own(kind, v, word, p), "own")
  IN  CASE kind = "complete" -> own
        [] kind = "prose" -> IF p \in Paths(v) THEN (p :> "starter") @@ own ELSE own
        [] OTHER -> own @@ All(Paths(v), "starter")

\* A page whose script loads nothing that was delivered goes back to the
\* starter's, when the file that one loads is there.
PageRepaired(t, v, inline) ==
  IF /\ inline /\ "index.html" \in DOMAIN t /\ t["index.html"] = "own"
     /\ "index.html" \in Paths(v) /\ Entry(v) \in DOMAIN t
  THEN [t EXCEPT !["index.html"] = "starter"] ELSE t

PyEntries == {"main.py", "app.py", "manage.py", "pkg/cli.py"}

\* A Python tree gets a root that runs it and a manifest.
EntryRepaired(t, stack) ==
  IF stack # "python_cli" THEN t
  ELSE t @@ (IF DOMAIN t \cap PyEntries = {} THEN "main.py" :> "shim" ELSE <<>>)
         @@ (IF DOMAIN t \cap {"pyproject.toml", "requirements.txt"} = {}
             THEN "pyproject.toml" :> "shim" ELSE <<>>)

Stubbed == {"README.md", "pyproject.toml", "requirements.txt", ".gitignore",
            "test_main.py", "tests/test_app.py"}

\* _fill_missing: the starter's text where it has one, else a stub of its own.
Filled(t, v, missing) ==
  t @@ All({p \in missing \ DOMAIN t : p \in Paths(v) \cup Stubbed}, "fill")

-----------------------------------------------------------------------------
(* The proof's look for an untouched starter.                              *)

\* Code by its suffix; markup, styles, manifests and prose are not compared.
Code(P) ==
  P \ {"README.md", ".gitignore", "requirements.txt", "package.json", "tsconfig.json",
       "jsconfig.json", "app.json", "index.html", "styles.css", "src/styles.css",
       "src/design-tokens.css", "app/globals.css", "pyproject.toml", ".env.example",
       "scenarios.json", ".skyn3t-cli-playtest.json", "catalog.json", "corpus/seed.md",
       "agents/research/analyst.md", "agents/research/writer.md",
       "agents/ops/coordinator.md", "skyn3t-backend.json", "src/app.html",
       "src-tauri/Cargo.toml", "src-tauri/tauri.conf.json", "src-tauri/.gitignore",
       "App.xcodeproj/project.pbxproj", "App/Info.plist",
       "App/Assets.xcassets/Contents.json"}

\* No code beside the starter's, and that mostly the starter's own text.
Named(t, v) ==
  LET code == Code(DOMAIN t)
      kept == {p \in code \cap Paths(v) : t[p] \in {"starter", "fill"}}
  IN  /\ code # {} /\ code \subseteq Paths(v)
      /\ 10 * Cardinality(kept) >= 7 * Cardinality(code)

-----------------------------------------------------------------------------
Signals ==
  UNION {Signatures[i][2] : i \in DOMAIN Signatures} \cup GuiDefault \cup LlmSignals
  \cup {"3d", "stock", "supabase auth", "login", "weather forecast", "docs with a sidebar",
        "shop with a cart", "dino runner", "wine"}

Init ==
  /\ \E a, b \in Signals : brief = {a, b}
  /\ plan = [stack |-> "", files |-> <<>>, stages |-> <<>>]
  /\ tree = <<>>
  /\ step = [at |-> "brief"]

\* Planner.plan.
Plan ==
  /\ step.at = "brief"
  /\ step' = [at |-> "plan"]
  /\ \E critic, full \in BOOLEAN, asked \in {"yes", "no", "unset"}, n \in {1, 2} :
       /\ Cardinality(brief) = 1 \/ (critic /\ ~full /\ asked = "no" /\ n = 1)
       /\ LET s == PlannerStack(brief)
          IN  plan' = [stack |-> s, files |-> <<>>,
                       stages |-> Stages(critic, TestFirst(full, asked, n, s))]
  /\ UNCHANGED <<brief, tree>>

\* ArchitectAgent.execute, on a plan of the model's with up to two files.
Design ==
  /\ step.at = "plan" /\ Cardinality(brief) = 1 /\ plan.stages = Pipeline
  /\ step' = [at |-> "designed"]
  /\ \E a, b \in Menu, full \in BOOLEAN :
       plan' = [plan EXCEPT !.files = Designed(<<a, b>>, CoderStack(plan.stack, brief), full)]
  /\ UNCHANGED <<brief, tree>>

\* CodeAgent: the session, the merge and the entry repairs. What a session does with
\* a starter is looked at for briefs of one signal; a second one only chooses another.
Session ==
  /\ step.at = "plan" /\ plan.stages = Pipeline
  /\ LET v == CoderStarter(plan.stack, brief)
     IN  \E kind \in Sessions, p \in Paths(v) \cup Checklist(plan.stack), inline \in BOOLEAN :
           /\ Cardinality(brief) = 1 \/ kind = "offline"
           /\ kind \in {"offline", "complete"} => p = "README.md"
           /\ inline => kind \in {"complete", "partial"}
           /\ step' = [at |-> "built", kind |-> kind]
           /\ tree' = EntryRepaired(PageRepaired(Merge(kind, v, plan.stack, p), v, inline),
                                    CoderStack(plan.stack, brief))
  /\ UNCHANGED <<brief, plan>>

\* The runner fills what the checklist misses.
Fill ==
  /\ step.at = "built"
  /\ step' = [step EXCEPT !.at = "filled"]
  /\ tree' = Filled(tree, FillStarter(plan.stack, brief), Checklist(plan.stack))
  /\ UNCHANGED <<brief, plan>>

Done == (step.at \in {"designed", "filled"} \/ plan.stages \notin {<<>>, Pipeline}) /\ UNCHANGED vars

Next == Plan \/ Design \/ Session \/ Fill \/ Done

Spec == Init /\ [][Next]_vars

-----------------------------------------------------------------------------
Unbuilt == {"flask", "django", "express"}

TypeOK ==
  /\ Cardinality(brief) \in 1 .. 2
  /\ \A p \in DOMAIN tree : tree[p] \in {"own", "starter", "fill", "shim"}
  /\ step.at \in {"brief", "plan", "designed", "built", "filled"}

\* The floor stands: wherever the merge leaves a file with the starter's text,
\* every file that text refers to was delivered too, and every package is in the
\* manifest if that is the starter's.  Only the file a rejected reply went back
\* to may stand among strangers.
FloorStands ==
  step.at = "built" /\ step.kind # "prose" =>
    LET v == CoderStarter(plan.stack, brief)
        installed == IF \A m \in {"package.json", "requirements.txt"} \cap DOMAIN tree :
                          tree[m] = "starter" THEN Declares(v) ELSE UNION {Starter[v][p] : p \in Paths(v)}
    IN  \A p \in DOMAIN tree : tree[p] = "starter" =>
          Starter[v][p] \subseteq DOMAIN tree \cup installed

\* Whatever the session did, a build of a stack with a builder ends with every
\* file its checklist names.
ChecklistMet ==
  step.at = "filled" /\ plan.stack \notin Unbuilt => Checklist(plan.stack) \subseteq DOMAIN tree

\* The runner fills from the starter the code agent merged over, unless nobody
\* builds the planner's stack.
SameFill ==
  step.at = "plan" /\ plan.stack \notin {"flask", "django"} =>
    FillStarter(plan.stack, brief) = CoderStarter(plan.stack, brief)

\* An untouched starter is named by the proof wherever the planner's word is a
\* builder's.
StarterNamed ==
  step.at = "filled" /\ step.kind = "offline" /\ plan.stack \in Builders =>
    Named(tree, ProofStarter(plan.stack, brief))

\* The architect's plan names a path once, has one page per address it added,
\* no media, and nothing TypeScript where the starter's entry is plain.
PlanClean ==
  step.at = "designed" =>
    LET fs == plan.files
        stack == CoderStack(plan.stack, brief)
    IN  /\ \A i, j \in DOMAIN fs : Folded(fs[i]) = Folded(fs[j]) => i = j
        /\ \A i \in DOMAIN fs : fs[i].ext # "png"
        /\ stack \in JsxStacks => \A i \in DOMAIN fs : fs[i].ext \notin {"ts", "tsx"}
        /\ \A i, j \in DOMAIN fs :
             /\ Url(fs[i], stack) = Url(fs[j], stack) /\ Url(fs[i], stack) # "none"
             => i = j \/ {fs[i], fs[j]} \subseteq Menu

\* Tests come before the code they are for, whichever stages are left out.
TestsBeforeCode ==
  step.at = "plan" => \A i, j \in DOMAIN plan.stages :
    plan.stages[i] = "test_author" /\ plan.stages[j] = "code" => j = i + 1

FloorHolds ==
  FloorStands /\ ChecklistMet /\ SameFill /\ StarterNamed /\ PlanClean /\ TestsBeforeCode

=============================================================================
