------------------------------- MODULE Setup -------------------------------
(***************************************************************************)
(* create-watchup, which sets the SDK up in a project: it finds out the    *)
(* framework, writes the files of the integration one after the other,     *)
(* and installs the packages.  A run may fail or be interrupted between    *)
(* two writes, and the developer runs it again, with other arguments, in   *)
(* a project that has changed since.                                       *)
(*                                                                         *)
(* Abstractions.  A file is the developer's, or works with the SDK, which  *)
(* is what the templates of the installers and a developer who followed    *)
(* the notes write.  An entry of an environment file is what kind of key   *)
(* it holds.  `app` and `src/app` are one place, a single write does not   *)
(* tear, and the prompts are free choices.                                 *)
(***************************************************************************)
EXTENDS Naturals, Sequences, FiniteSetsExt

CONSTANTS
  Projects,  \* bound: what is found in the project, sets of facts
  Arguments, \* bound: frameworks named by the developer, "" for none
  MaxRuns,   \* bound: runs of the CLI
  MaxEdits   \* bound: changes by the developer

VARIABLES
  facts,    \* what detection finds
  files,    \* none, own: the developer's, or the framework it works with the SDK for
  layout,   \* the root layout: its shape and how many providers it has
  env,      \* the entries of a variable
  packages, \* the packages that are installed
  cli,      \* the run: framework, key, whether it installs, what it has left
  outcome,  \* how the last run stands: idle, running, stopped, complete
  notes,    \* what the run will tell the developer
  runs, edits

projectVars == <<facts, files, layout, env, packages>>
runVars     == <<cli, outcome, notes, runs>>
setupVars   == <<projectVars, runVars, edits>>

(***************************************************************************)
(* The installers: the writes in their order, the keys that go into each   *)
(* variable, the variables and packages their files use, the packages they *)
(* install, and their notes.  A secret key is refused where `refuses` says *)
(* so.                                                                     *)
(***************************************************************************)
Keys        == {"none", "public", "secret"}
Placeholder == {}
Public      == {"public"}
Secret      == {"secret"}

\* Variables, by name and by the file they are written to.  The first four are
\* bundled into client code.
ClientVariables == {"NEXT_PUBLIC", "VITE", "EXPO_PUBLIC", "PUBLIC"}
Variables       == ClientVariables \cup {"SERVER in .env.local", "SERVER in .env"}

InstallNext ==
  [writes   |-> <<"WatchupInit", "instrumentation", "layout", "env">>,
   keys     |-> [v \in {"NEXT_PUBLIC", "SERVER in .env.local"} |->
                   IF v = "NEXT_PUBLIC" THEN Public ELSE Secret],
   reads    |-> {"NEXT_PUBLIC", "SERVER in .env.local"},
   imports  |-> {"nextjs"},
   packages |-> {"nextjs", "browser", "react", "node"},
   refuses  |-> {},
   notes    |-> {<<k, <<"set", "SERVER in .env.local">>>> : k \in {"none", "public"}}
                \cup {<<k, <<"set", "NEXT_PUBLIC">>>> : k \in {"none", "secret"}}]

InstallReact ==
  [writes   |-> <<"src/watchup", "env">>,
   keys     |-> [v \in {"VITE"} |-> Public],
   reads    |-> {"VITE"}, imports |-> {"react"},
   packages |-> {"react", "browser"},
   refuses  |-> Secret, notes |-> {}]

InstallReactNative ==
  [writes   |-> <<"src/watchup", "env">>,
   keys     |-> [v \in {"EXPO_PUBLIC"} |-> Public],
   reads    |-> {"EXPO_PUBLIC"}, imports |-> {"react-native"},
   packages |-> {"react-native"},
   refuses  |-> Secret, notes |-> {}]

InstallSvelte ==
  [writes   |-> <<"hooks", "env">>,
   keys     |-> [v \in {"PUBLIC", "SERVER in .env"} |-> IF v = "PUBLIC" THEN Public ELSE Placeholder],
   reads    |-> {"SERVER in .env"}, imports |-> {"node", "svelte"},
   packages |-> {"svelte", "browser", "node"},
   refuses  |-> Secret,
   notes    |-> Keys \X {<<"use", "provider">>, <<"set", "SERVER in .env">>}]

InstallNode ==
  [writes   |-> <<"watchup", "env">>,
   keys     |-> [v \in {"SERVER in .env"} |-> Public \cup Secret],
   reads    |-> {"SERVER in .env"}, imports |-> {"node"},
   packages |-> {"node"},
   refuses  |-> {}, notes |-> {<<"public", <<"prefer", "secret">>>>}]

\* Its module has two functions, both to be called by the application.
InstallExpress ==
  [writes   |-> <<"watchup", "env">>,
   keys     |-> [v \in {"SERVER in .env"} |-> Public \cup Secret],
   reads    |-> {"SERVER in .env"}, imports |-> {"node"},
   packages |-> {"node"},
   refuses  |-> {}, notes |-> {<<"public", <<"prefer", "secret">>>>}]

\* FRAMEWORKS: what there is an installer for.
Frameworks == {"next", "react", "react-native", "svelte", "node", "express"}

Installers ==
  [f \in Frameworks |->
     CASE f = "next"         -> InstallNext
       [] f = "react"        -> InstallReact
       [] f = "react-native" -> InstallReactNative
       [] f = "svelte"       -> InstallSvelte
       [] f = "node"         -> InstallNode
       [] f = "express"      -> InstallExpress]

\* PACKAGE_MAP, what verifyPublished asks for.
PackageMap ==
  [f \in Frameworks |->
     CASE f = "next"   -> {"nextjs", "browser", "react", "node"}
       [] f = "react"  -> {"react", "browser"}
       [] f = "svelte" -> {"svelte", "browser", "node"}
       [] f = "react-native" -> {"react-native"}
       [] f \in {"node", "express"} -> {"node"}]

\* The module or component that starts the client (Next's, that of React and React
\* Native, that of Node and Express), and the server's hook files.
ModuleFiles == {"WatchupInit", "src/watchup", "watchup"}
HookFiles   == {"instrumentation", "hooks"}
Files       == ModuleFiles \cup HookFiles

\* The frameworks whose installer writes a file.
WrittenFor(x) == {f \in Frameworks : \E i \in DOMAIN Installers[f].writes : Installers[f].writes[i] = x}

(***************************************************************************)
(* Which framework                                                         *)
(***************************************************************************)

\* detectFramework: the framework of the first fact there is: dependencies,
\* configuration files, and the package.json itself.
Order == << <<"next", {"next", "next.config"}>>, <<"react-native", {"react-native"}>>,
            <<"svelte", {"@sveltejs/kit", "svelte.config"}>>, <<"express", {"express"}>>,
            <<"react", {"react"}>>, <<"node", {"package.json"}>> >>
Detected ==
  LET hits == {i \in DOMAIN Order : Order[i][2] \cap facts # {}}
  IN  IF hits = {} THEN "" ELSE Order[Min(hits)][1]

\* detectUnsupported: Python, Go and .NET without a package.json, and other
\* JavaScript frameworks with one, unless a supported one is a dependency too.
Unsupported ==
  IF "package.json" \in facts
  THEN "vue" \in facts /\ facts \cap {"next", "@sveltejs/kit", "react-native"} = {}
  ELSE "pyproject.toml" \in facts

\* main: the framework on the command line, the one found, or the answer.
Framework(named, answer) ==
  IF named # "" THEN named
  ELSE IF Unsupported THEN "" ELSE IF Detected # "" THEN Detected ELSE answer

(***************************************************************************)
(* A run                                                                   *)
(***************************************************************************)
Idle == [framework |-> "", key |-> "none", install |-> FALSE, left |-> <<>>]

\* The notes of an installer for a key.
NotesFor(f, key) == {note[2] : note \in {n \in Installers[f].notes : n[1] = key}}

Stops == outcome' = "stopped" /\ cli' = Idle /\ notes' = {}

\* verifyPublished, and assertPublicKey for the frameworks that run in a client.
Published(f, unpublished) == PackageMap[f] \cap unpublished = {}
PublicKey(f, key) == key \notin Installers[f].refuses

\* Everything that is asked and checked before a file is touched: the framework,
\* the developer's consent, whether the packages are published (which a flag
\* skips), and, by the installer itself, the key.
StartRun(named, answer, key, install, agreed, unpublished) ==
  /\ outcome # "running" /\ runs < MaxRuns
  /\ named = "" \/ answer = "" \* who names a framework is not asked for it
  /\ runs' = runs + 1
  /\ LET f == Framework(named, answer)
         passed == /\ f \in Frameworks /\ agreed
                   /\ install => Published(f, unpublished)
                   /\ PublicKey(f, key)
     IN
     \/ ~ passed /\ Stops
     \/ /\ passed
        /\ outcome' = "running"
        /\ cli' = [framework |-> f, key |-> key, install |-> install, left |-> Installers[f].writes]
        /\ notes' = NotesFor(f, key)
  /\ UNCHANGED <<projectVars, edits>>

Writing(what) == outcome = "running" /\ cli.left # <<>> /\ Head(cli.left) = what
Written == cli' = [cli EXCEPT !.left = Tail(@)] /\ UNCHANGED <<outcome, runs, edits, facts, packages>>

\* writeFileIfMissing
WriteIfMissing(x) == files' = [files EXCEPT ![x] = IF @ = "none" THEN cli.framework ELSE @]

\* The module of the client, and its note.  Next's component needs none: the layout
\* uses it.
WriteModule(x) ==
  /\ Writing(x) /\ Written /\ WriteIfMissing(x)
  /\ notes' = notes \cup
       (IF x = "WatchupInit" THEN {}
        ELSE IF files[x] = "none" THEN {<<"use", x>>} ELSE {<<"unchanged", x>>})
  /\ UNCHANGED <<layout, env>>

\* Mutant of HookNote: a file that is there is left without a word.
SaysNothing(x) == {}

\* The note about a hook file that is there already.  Svelte's installer does not
\* look into it, Next's does (alreadyMentions).
HookNote(x) ==
  IF files[x] = "own" \/ (files[x] # "none" /\ x = "hooks") THEN {<<"add", x>>} ELSE {}

\* The hook file of the server: instrumentation.js or hooks.server.js.
WriteHooks(x) ==
  /\ Writing(x) /\ Written /\ WriteIfMissing(x)
  /\ notes' = notes \cup HookNote(x)
  /\ UNCHANGED <<layout, env>>

\* Mutant of HasProvider: the layout is patched without a look for a provider.
NeverHas == FALSE
HasProvider == layout.providers > 0

\* patchLayout: a layout of the usual shape gets the provider, another is left.
PatchLayout ==
  /\ Writing("layout") /\ Written
  /\ layout' = IF layout.shape = "usual" /\ ~ HasProvider
               THEN [layout EXCEPT !.providers = @ + 1] ELSE layout
  /\ notes' = IF layout.shape = "none" THEN notes \cup {<<"add", "layout">>} ELSE notes
  /\ UNCHANGED <<files, env>>

\* Mutant of Entry: the key goes into every variable.
EntryOfAnyKey(f, key, v) == IF key # "none" THEN key ELSE "placeholder"

\* envEntries, and its counterparts in the other installers.
Entry(f, key, v) == IF key \in Installers[f].keys[v] THEN key ELSE "placeholder"

\* appendEnv: a variable that has an entry is never touched.
AppendEnv ==
  /\ Writing("env") /\ Written
  /\ env' = [v \in Variables |->
               IF v \in DOMAIN Installers[cli.framework].keys /\ env[v] = <<>>
               THEN <<Entry(cli.framework, cli.key, v)>> ELSE env[v]]
  /\ UNCHANGED <<files, layout, notes>>

\* installPackages: what the installer asked for, or nothing and an error.
InstallPackages(ok) ==
  /\ cli.install
  /\ packages' = IF ok THEN packages \cup Installers[cli.framework].packages ELSE packages

\* The packages are installed, unless that is not wanted; only then are the notes
\* printed.
FinishRun(ok) ==
  /\ outcome = "running" /\ cli.left = <<>>
  /\ InstallPackages(ok) \/ (ok /\ ~ cli.install /\ UNCHANGED packages)
  /\ IF ok THEN outcome' = "complete" /\ UNCHANGED <<cli, notes>> ELSE Stops
  /\ UNCHANGED <<facts, files, layout, env, runs, edits>>

\* Ctrl-C, or a write that is refused.
Interrupted ==
  /\ outcome = "running" /\ Stops
  /\ UNCHANGED <<projectVars, runs, edits>>

(***************************************************************************)
(* The developer, between two runs                                         *)
(***************************************************************************)
Edit ==
  /\ outcome # "running" /\ edits < MaxEdits
  /\ runs < MaxRuns \* bound: a change that no run comes after shows nothing
  /\ edits' = edits + 1
  /\ outcome' = "idle" /\ cli' = Idle /\ notes' = {}
  /\ UNCHANGED <<facts, packages, runs>>

\* A file of the developer's, without the SDK or as the notes ask.
WritesFile(x, content) ==
  /\ Edit /\ files[x] # content
  /\ files' = [files EXCEPT ![x] = content] /\ UNCHANGED <<layout, env>>

\* A layout, or a provider in the one there is.
WritesLayout(shape) ==
  /\ Edit /\ layout.shape = "none"
  /\ layout' = [layout EXCEPT !.shape = shape] /\ UNCHANGED <<files, env>>
WrapsLayout ==
  /\ Edit /\ layout.shape # "none" /\ layout.providers = 0
  /\ layout' = [layout EXCEPT !.providers = 1] /\ UNCHANGED <<files, env>>

\* A key of the developer's in the place of any other.
SetsVariable(v) ==
  /\ Edit /\ env[v] # <<"own">>
  /\ env' = [env EXCEPT ![v] = <<"own">>] /\ UNCHANGED <<files, layout>>

(***************************************************************************)
(* The specification                                                       *)
(***************************************************************************)
SetupInit ==
  /\ facts \in Projects
  /\ files = [x \in Files |-> "none"]
  /\ layout \in [shape : {"none", "usual", "odd"}, providers : {0}]
  /\ env = [v \in Variables |-> <<>>]
  /\ packages = {} /\ cli = Idle /\ outcome = "idle" /\ notes = {} /\ runs = 0 /\ edits = 0

SetupNext ==
  \/ \E named, answer \in Arguments, key \in Keys, install, agreed \in BOOLEAN, unpublished \in {{}, {"node"}} :
       StartRun(named, answer, key, install, agreed, unpublished)
  \/ \E x \in ModuleFiles : WriteModule(x)
  \/ \E x \in HookFiles : WriteHooks(x)
  \/ PatchLayout \/ AppendEnv \/ Interrupted
  \/ \E ok \in BOOLEAN : FinishRun(ok)
  \/ \E x \in Files : \E content \in {"own"} \cup WrittenFor(x) : WritesFile(x, content)
  \/ \E shape \in {"usual", "odd"} : WritesLayout(shape)
  \/ WrapsLayout
  \/ \E v \in Variables : SetsVariable(v)

SetupSpec == SetupInit /\ [][SetupNext]_setupVars

(***************************************************************************)
(* Properties                                                              *)
(***************************************************************************)

\* However often it runs, fails and is interrupted, for whatever frameworks, and
\* whatever the developer does in between: there is one provider, one entry of a
\* variable (create-watchup/README.md:11), a secret key in no variable that is bundled
\* into client code (README.md:24), and a public one not where Next's installer, which
\* has a variable for either, puts the secret one (next.js:52-59).
SetupOnce ==
  /\ layout.providers <= 1
  /\ \A v \in Variables : Len(env[v]) <= 1
  /\ \A v \in ClientVariables : env[v] # <<"secret">>
  /\ env["SERVER in .env.local"] # <<"public">>

\* "A public wup_pub_ key is written only to the browser variable"
\* (create-watchup/README.md:23), whatever installer writes it.
PublicKeysPlaced == \A v \in Variables \ ClientVariables : env[v] # <<"public">>

\* A file is there, and made for the framework or named in the notes; Next's component
\* need only be there.  A layout of the usual shape has its provider, and one that is
\* missing is named.
Told(x) == \E word \in {"use", "unchanged", "add"} : <<word, x>> \in notes
InPlace(x) ==
  IF x = "layout"
  THEN (layout.shape = "usual" => layout.providers = 1) /\ (layout.shape = "none" => Told(x))
  ELSE files[x] = cli.framework \/ (files[x] # "none" /\ (x = "WatchupInit" \/ Told(x)))

\* The developer is told to set a variable, or gave the key for it.
Noted(v) == <<"set", v>> \in notes \/ cli.key \in Installers[cli.framework].keys[v]

\* What a run that says "setup complete" leaves, also when an earlier one came only
\* half through or was for another framework: the files are in place, what they read
\* has an entry, which in Next and SvelteKit is a placeholder only if the notes say so
\* or an earlier run left it, and what they import is installed.
SetupCompletes ==
  outcome = "complete" =>
    LET installer == Installers[cli.framework] IN
    /\ \A i \in DOMAIN installer.writes : installer.writes[i] # "env" => InPlace(installer.writes[i])
    /\ \A v \in installer.reads :
         /\ env[v] # <<>>
         /\ cli.framework \in {"next", "svelte"} /\ env[v] = <<"placeholder">> => Noted(v)
    /\ cli.install => installer.imports \subseteq packages

\* Next gets its component "wired into your root layout" (create-watchup/README.md:15),
\* or the developer is told what is left to do.
NextWired ==
  outcome = "complete" /\ cli.framework = "next" =>
    /\ files["WatchupInit"] = "next" \/ Told("WatchupInit")
    /\ layout.providers = 1 \/ Told("layout")

\* "The variable you didn't provide gets a placeholder and a note"
\* (create-watchup/README.md:25).
PlaceholdersNoted ==
  outcome = "complete" =>
    \A v \in DOMAIN Installers[cli.framework].keys : env[v] = <<"placeholder">> => Noted(v)
=============================================================================
