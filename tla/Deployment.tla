----------------------------- MODULE Deployment -----------------------------
(* From the wizard to a running gateway: create-fibergate asks its questions   *)
(* and writes a deploy directory, docker compose starts what it describes, and *)
(* the admin logs in (AdminSession).  The contributor's tool, which only       *)
(* writes the .env of a checkout, is the same interview in another order.      *)
(* A directory may be scaffolded again over a deployment that has run, a       *)
(* wizard may be cancelled at any prompt, and a write may fail.                *)
(* The wizard's prompts touch nothing but the wizard, so no request of a       *)
(* browser is interleaved with them.                                           *)
EXTENDS AdminSession, Sequences

CONSTANTS
    Tools,          \* a subset of {"create", "local"}
    Names,          \* user and database names of postgres, taken as one answer
    OwnSecrets,     \* secrets the merchant may type
    Refused,        \* what the wizard's validator matches ("$", "@", ":", "/", newline)
    Mangled,        \* Mangled[v]: how docker compose reads a v of .env that it
                    \* does not keep ("$...", " #...", quotes)
    Splitting,      \* what breaks a postgres:// URL ("@", ":", "/", "#", "?", "%")
    KeyFiles,       \* key files the merchant has
    Initial,        \* admin passwords the merchant may choose
    MaxScaffolds, MaxStarts,   \* bounds
    WizardRequests  \* how many of MaxRequests a directory still to be made is left

\* What randomHex32() returns, each time something new: hex digits only.
HexSecrets == {<<"random", n>> : n \in 0..MaxScaffolds}
Values == Names \cup OwnSecrets \cup HexSecrets

\* What a write that fails leaves of a key.
CutKey == [raw |-> TRUE, good |-> FALSE, pass |-> None]

ASSUME ToolsAssumption == Tools \subseteq {"create", "local"}
ASSUME ScaffoldsAssumption == MaxScaffolds \in Nat \ {0}
ASSUME SecretsAssumption ==
    /\ HexSecrets \cap (Refused \cup Splitting \cup DOMAIN Mangled) = {}
    /\ \A v \in DOMAIN Mangled : Mangled[v] \in Values /\ (v \notin Refused => Mangled[v] \notin Refused)
ASSUME InitialAssumption == Initial \subseteq Passwords
\* "Nothing" is none of the things there could be.
ASSUME NoneAssumption ==
    /\ None \notin Values \cup (Values \X Values)
    /\ None \notin KeyFiles \cup {CutKey} \cup [raw : {FALSE}, good : {TRUE}, pass : Values]
    /\ None \notin [secret : HexSecrets, admin : Passwords]
    /\ None \notin [secret : HexSecrets, exp : Nat]
    /\ None \notin [names : Values, pg : Values, pass : Values, admin : Passwords, session : HexSecrets]

VARIABLES
    tool,
    wizard,         \* the interview: step, ans, and the directory it began with
    disk,           \* the deploy directory: env, key, compose
    torn,           \* history: .env and key are not of one making (see KeyOpens)
    stack,          \* docker: state, and the environment the containers were given
    volume,         \* postgres-data: the credentials it was created with, or None
    scaffolds, starts

deploy == <<tool, wizard, disk, torn, stack, volume, scaffolds, starts>>
vars == <<sessionVars, deploy>>

-----------------------------------------------------------------------------
(* Secrets.                                                                  *)

RandomHex32 == <<"random", scaffolds>>
\* What a container reads of a value in .env.
EnvRead(v) == IF v \in DOMAIN Mangled THEN Mangled[v] ELSE v

\* It knows "$", but not the comments and quotes of .env; "@", ":" and "/", but not
\* "#", "?" and "%" of a URL.
ValidateSecretChars(v) == v \notin Refused

\* A key file is [raw, good, pass]: raw hex (good: 64 digits and no prefix), or
\* encrypted under pass.
DecryptKeyFile(file, pass) == ~file.raw /\ file.pass = pass
ParseHexKeyFile(file) == file.raw /\ file.good
\* fiber-node (external) reads a raw key as it is and encrypts it itself.
Opens(file, pass) == ParseHexKeyFile(file) \/ DecryptKeyFile(file, pass)

-----------------------------------------------------------------------------
(* The interview.  A refused input leaves its prompt where it is.            *)

Prompts ==
    IF tool = "create"
    THEN <<"dir", "postgres", "admin", "key", "passphrase", "domain", "namespace">>
    ELSE <<"dir", "postgres", "admin", "domain", "passphrase">>
Writes == IF tool = "create" THEN <<"templates", "env", "key", "ignore">> ELSE <<"env">>

NoAnswers ==
    [names |-> None, pg |-> None, admin |-> None, key |-> None, fresh |-> TRUE, pass |-> None]
NoWizard == [step |-> 0, ans |-> NoAnswers, before |-> None]

At(prompt) == wizard.step \in 1..Len(Prompts) /\ Prompts[wizard.step] = prompt
Interview(ans) ==
    /\ wizard' = [wizard EXCEPT !.step = @ + 1, !.ans = ans]
    /\ UNCHANGED <<sessionVars, tool, disk, torn, stack, volume, scaffolds, starts>>
Given(field, v) == Interview([wizard.ans EXCEPT ![field] = v])

StartWizard ==
    /\ wizard.step = 0 /\ \A t \in Tabs : req[t].stage = "idle"
    /\ scaffolds < MaxScaffolds /\ scaffolds' = scaffolds + 1
    /\ wizard' = [NoWizard EXCEPT !.step = 1, !.before = disk]
    /\ UNCHANGED <<sessionVars, tool, disk, torn, stack, volume, starts>>

\* A directory that is not empty, or an .env that exists, has to be confirmed.
PromptTargetDir == At("dir") /\ Interview(wizard.ans)

AskSecretValue == {RandomHex32} \cup {v \in OwnSecrets : ValidateSecretChars(v)}

\* Nothing is asked of the two names.
PromptPostgres ==
    /\ At("postgres")
    /\ \E names \in Names, pg \in AskSecretValue :
          Interview([wizard.ans EXCEPT !.names = names, !.pg = pg])

PromptAdminPassword ==
    /\ At("admin")
    /\ \E pw \in Initial \ Long : Given("admin", pw)

\* A key from the merchant's disk, the directory's own one included.
PromptKeyPath ==
    /\ At("key")
    /\ \E file \in KeyFiles \cup ({disk.key} \ {None}), fresh \in BOOLEAN :
         /\ fresh => ParseHexKeyFile(file)
         /\ Interview([wizard.ans EXCEPT !.key = file, !.fresh = fresh])

\* Faulty variant: the passphrase of a reused key is not tried.
PromptPassphraseUntried ==
    At("passphrase") /\ \E v \in AskSecretValue : Given("pass", v)
PromptPassphrase ==
    /\ At("passphrase")
    /\ \/ wizard.ans.fresh /\ \E v \in AskSecretValue : Given("pass", v)
       \/ /\ ~wizard.ans.fresh
          /\ \E v \in OwnSecrets \cup {<<"random", n>> : n \in 1..MaxScaffolds} :
               /\ ValidateSecretChars(v)
               /\ DecryptKeyFile(wizard.ans.key, v)
               /\ Given("pass", v)

\* The domain, and for one behind a CDN proxy the node's own hostname.
PromptDomain == At("domain") /\ Interview(wizard.ans)
PromptNamespace == At("namespace") /\ Interview(wizard.ans)

\* Ctrl+C at any prompt, or a confirmation declined.
Cancel ==
    /\ wizard.step \in 1..Len(Prompts)
    /\ wizard' = NoWizard
    /\ UNCHANGED <<sessionVars, tool, disk, torn, stack, volume, scaffolds, starts>>

-----------------------------------------------------------------------------
(* writeScaffold(): one file after the other, over what is there.            *)

BuildEnvFile(a) ==
    [names |-> a.names, pg |-> a.pg, pass |-> a.pass, admin |-> a.admin, session |-> RandomHex32]

Writing == wizard.step > Len(Prompts)
File == Writes[wizard.step - Len(Prompts)]
Done == wizard.step = Len(Prompts) + Len(Writes)

WriteScaffold ==
    /\ Writing
    /\ disk' = CASE File = "templates" -> [disk EXCEPT !.compose = TRUE]
                 [] File = "env"       -> [disk EXCEPT !.env = BuildEnvFile(wizard.ans)]
                 [] File = "key"       -> [disk EXCEPT !.key = wizard.ans.key]
                 [] File = "ignore"    -> disk
    /\ torn' = (tool = "create" /\ CASE File = "env" -> TRUE [] File = "key" -> FALSE
                                     [] OTHER -> torn)
    /\ wizard' = IF Done THEN NoWizard ELSE [wizard EXCEPT !.step = @ + 1]
    /\ UNCHANGED <<sessionVars, tool, stack, volume, scaffolds, starts>>

\* A write empties the file before it fills it, and may fail after that: what is
\* left of a template or a key is of no use.  A cut .env counts as none: its last
\* lines name the image of the core, without which compose starts nothing.
WriteFails ==
    /\ Writing
    /\ Fault
    /\ wizard' = NoWizard
    /\ \/ UNCHANGED <<disk, torn>>
       \/ /\ disk' = CASE File = "templates" -> [disk EXCEPT !.compose = FALSE]
                       [] File = "env"       -> [disk EXCEPT !.env = None]
                       [] File = "key"       -> [disk EXCEPT !.key = CutKey]
                       [] File = "ignore"    -> disk
          /\ torn' = (tool = "create" /\ (torn \/ File \in {"env", "key"}))
    /\ UNCHANGED <<gateway, row, now, cookie, req, requests, hist>>
    /\ UNCHANGED <<tool, stack, volume, scaffolds, starts>>

\* The step the contributor's tool leaves to its reader.
PlaceKey ==
    /\ tool = "local" /\ wizard.step = 0 /\ stack.state = "down"
    /\ \E file \in KeyFiles : disk' = [disk EXCEPT !.key = file, !.compose = TRUE]
    /\ UNCHANGED <<sessionVars, tool, wizard, torn, stack, volume, scaffolds, starts>>

-----------------------------------------------------------------------------
(* docker compose.  A container keeps the environment it was created with.   *)

Down == [state |-> "down", env |-> None]
Containers(env) == [env EXCEPT !.names = EnvRead(@), !.pg = EnvRead(@), !.pass = EnvRead(@)]
Credentials(env) == <<env.names, env.pg>>
\* The containers run on what the .env says now.
OfThisEnv == disk.env # None /\ stack.env = Containers(disk.env)

\* postgres creates its data with the credentials it is given, and only then.
ComposeUp ==
    /\ stack.state = "down" /\ disk.compose /\ disk.env # None /\ disk.key # None
    /\ starts < MaxStarts /\ starts' = starts + 1
    /\ stack' = [state |-> "starting", env |-> Containers(disk.env)]
    /\ volume' = IF volume = None THEN Credentials(Containers(disk.env)) ELSE volume
    /\ UNCHANGED <<sessionVars, tool, wizard, disk, torn, scaffolds>>

\* fiber-node, after its preflight; it keeps the key encrypted from then on.
NodeStarts ==
    /\ stack.state = "starting" /\ Opens(disk.key, stack.env.pass)
    /\ disk' = [disk EXCEPT !.key = [raw |-> FALSE, good |-> TRUE, pass |-> stack.env.pass]]
    /\ stack' = [stack EXCEPT !.state = "node"]
    /\ wizard' = IF wizard.step = 0 THEN wizard
                 ELSE [wizard EXCEPT !.before.key = disk'.key]
    /\ torn' = (torn \/ ~OfThisEnv)
    /\ UNCHANGED <<sessionVars, tool, volume, scaffolds, starts>>

\* migrate.mjs and then the server; both connect with the URL made of the user, the
\* password and the database name, none of them escaped.
Connects ==
    Credentials(stack.env) = volume /\ {stack.env.names, stack.env.pg} \cap Splitting = {}
CoreStarts ==
    /\ stack.state = "node" /\ Connects
    /\ stack' = [stack EXCEPT !.state = "up"]
    /\ gateway' = [secret |-> stack.env.session, admin |-> stack.env.admin]
    /\ UNCHANGED <<row, session, tool, wizard, disk, torn, volume, scaffolds, starts>>

\* `down` keeps the volume, `down -v` drops it and the settings table with it.
ComposeDown ==
    /\ stack.state # "down"
    /\ stack' = Down /\ gateway' = None /\ DropRequests
    /\ \/ UNCHANGED <<row, volume>>
       \/ row' = None /\ volume' = None
    /\ UNCHANGED <<now, cookie, requests, faults, hist>>
    /\ UNCHANGED <<tool, wizard, disk, torn, scaffolds, starts>>

-----------------------------------------------------------------------------
\* An empty directory.
NothingYet ==
    /\ tool \in Tools
    /\ disk = [env |-> None, key |-> None, compose |-> FALSE]
    /\ stack = Down /\ volume = None /\ gateway = None
    /\ scaffolds = 0 /\ starts = 0 /\ requests = MaxRequests - WizardRequests

\* What one wizard and one `docker compose up` leave behind, with the suggested
\* answers: the state from which the requests of a gateway are followed further.
UpAndRunning ==
    /\ tool = "create" /\ scaffolds = MaxScaffolds /\ starts = 1 /\ requests = 0
    /\ \E admin \in Initial \ Long, names \in Names \ (Splitting \cup DOMAIN Mangled) :
         LET hex == <<"random", 1>>
             env == [names |-> names, pg |-> hex, pass |-> hex, admin |-> admin, session |-> hex]
         IN  /\ disk = [env |-> env, compose |-> TRUE,
                        key |-> [raw |-> FALSE, good |-> TRUE, pass |-> hex]]
             /\ stack = [state |-> "up", env |-> env] /\ volume = <<names, hex>>
             /\ gateway = [secret |-> hex, admin |-> admin]

Init ==
    /\ NothingYet \/ UpAndRunning
    /\ SessionInit
    /\ wizard = NoWizard /\ torn = FALSE

Next ==
    \/ wizard.step = 0 /\ SessionNext /\ UNCHANGED deploy
    \/ StartWizard
    \/ PromptTargetDir
    \/ PromptPostgres
    \/ PromptAdminPassword
    \/ PromptKeyPath
    \/ PromptPassphrase
    \/ PromptDomain
    \/ PromptNamespace
    \/ Cancel
    \/ WriteScaffold
    \/ WriteFails
    \/ PlaceKey
    \/ ComposeUp
    \/ NodeStarts
    \/ CoreStarts
    \/ ComposeDown

Spec == Init /\ [][Next]_vars

-----------------------------------------------------------------------------
(* Properties.                                                               *)

TypeOK ==
    /\ SessionTypeOK
    /\ wizard.step \in 0..(Len(Prompts) + Len(Writes))
    /\ disk.compose \in BOOLEAN /\ torn \in BOOLEAN
    /\ disk.env # None => disk.env.admin \in Passwords \ Long
    /\ stack.state \in {"down", "starting", "node", "up"}
    /\ stack.state # "down" => volume # None
    /\ (gateway # None) = (stack.state = "up")

\* "Cancelled - nothing was written": until its last prompt is answered the wizard
\* has changed no file of the directory, whatever was there.
NothingOnCancel == wizard.step \in 1..Len(Prompts) => disk = wizard.before

\* The key of a scaffolded directory opens with the passphrase the node will read
\* from its .env: after any number of scaffolds, cancelled ones, failed writes, and
\* starts of a node that encrypts the key in place.  A passphrase that .env does not
\* keep opens it as it was typed, which is of no use to the node: the wizard has
\* verified what the node will never read.  Two things part the files until the next
\* complete scaffold: a write that fails in .env or the key, and a stack of the older
\* .env that was still starting when the directory was scaffolded again.
KeyOpens ==
    (tool = "create" /\ ~torn /\ disk.env # None) =>
        LET pass == disk.env.pass
        IN  /\ disk.key # None
            /\ Opens(disk.key, EnvRead(pass)) \/ (pass \in DOMAIN Mangled /\ Opens(disk.key, pass))

\* A stack that is started from what the wizard wrote comes up, unless for an answer
\* the wizard should not have taken: the node's key opens, but for a passphrase that
\* .env does not keep; and the core reaches data made with its own credentials, but
\* for a user, a database or a password that breaks the connection string and that
\* the validator does not know or is not asked about.  A merchant who took what was
\* suggested gets a gateway, however often the directory was scaffolded.
FreshStackComesUp ==
    /\ (tool = "create" /\ stack.state = "starting" /\ ~torn /\ wizard.step = 0 /\ OfThisEnv
          /\ disk.env.pass \notin DOMAIN Mangled) => Opens(disk.key, stack.env.pass)
    /\ (stack.state # "down" /\ Credentials(stack.env) = volume /\ ~Connects) =>
          stack.env.names \in Splitting \/ stack.env.pg \in Splitting \ Refused

\* What the wizard leaves on the disk: nothing when it was cancelled, and what
\* starts when it was not.
DirectorySound == NothingOnCancel /\ KeyOpens /\ FreshStackComesUp
=============================================================================
