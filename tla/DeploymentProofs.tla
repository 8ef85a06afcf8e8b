-------------------------- MODULE DeploymentProofs --------------------------
(***************************************************************************)
(* What Deployment promises of the deploy directory, and AdminSession of   *)
(* the admin's session, for any number of scaffolds, starts, tabs and      *)
(* requests.                                                               *)
(***************************************************************************)
EXTENDS Deployment, TLAPS

-----------------------------------------------------------------------------
(* The inductive invariant: the directory                                  *)

\* Secrets with nothing the validator refuses.
Safe == {v \in Values : ValidateSecretChars(v)}
Env == [names : Values, pg : Safe, pass : Safe, admin : Initial \ Long, session : HexSecrets]
KeyFile == KeyFiles \cup {CutKey} \cup [raw : {FALSE}, good : {TRUE}, pass : Safe]
Gateway == [secret : HexSecrets, admin : Initial \ Long]

Disk == [env : Env \cup {None}, key : KeyFile \cup {None}, compose : BOOLEAN]
Answers == [names : Values \cup {None}, pg : Safe \cup {None}, admin : (Initial \ Long) \cup {None},
            key : KeyFile \cup {None}, fresh : BOOLEAN, pass : Safe \cup {None}]
Wizard == [step : Nat, ans : Answers, before : Disk \cup {None}]

\* The shape of what is on the disk and in docker.
DeployTyped ==
    /\ tool \in {"create", "local"}
    /\ wizard \in Wizard /\ wizard.step <= Len(Prompts) + Len(Writes)
    /\ wizard.step # 0 => wizard.before \in Disk
    /\ disk \in Disk
    /\ torn \in BOOLEAN
    /\ scaffolds \in 0..MaxScaffolds
    /\ stack \in [state : {"down", "starting", "node", "up"}, env : Env \cup {None}]
    /\ stack.state # "down" => stack.env # None /\ volume # None
    /\ gateway \in Gateway \cup {None}
    /\ gateway # None <=> stack.state = "up"

\* What the wizard has been told when it gets past a prompt.
AnswersInOrder ==
    /\ wizard.step > 2 => wizard.ans.pg \in Safe /\ wizard.ans.names \in Values
    /\ wizard.step > 3 => wizard.ans.admin \in Initial \ Long
    /\ wizard.step > 5 => wizard.ans.pass \in Safe
    /\ tool = "create" /\ wizard.step > 4 =>
         /\ wizard.ans.key \in KeyFile
         /\ wizard.ans.fresh => ParseHexKeyFile(wizard.ans.key)
    /\ tool = "create" /\ wizard.step > 5 => Opens(wizard.ans.key, wizard.ans.pass)

\* Between the two writes the .env has the passphrase of the key to come.
EnvOfThisWizard ==
    tool = "create" /\ wizard.step > Len(Prompts) + 2 => 
        disk.env # None /\ disk.env.pass = wizard.ans.pass

DeployInv ==
    /\ DeployTyped /\ AnswersInOrder /\ EnvOfThisWizard /\ NothingOnCancel /\ KeyOpens

-----------------------------------------------------------------------------
(* The inductive invariant: the session                                    *)

Token == [secret : HexSecrets, exp : Nat]
Request ==
    [stage : {"idle", "sent", "compare", "answered"},
     kind : {"page", "login", "logout", "change"},
     pw : Passwords \cup {None}, new : Passwords \cup {None},
     token : Token \cup {None},
     hash : Passwords \cup {None},
     ok : BOOLEAN, clear : BOOLEAN,
     set : Token \cup {None},
     seen : SUBSET Passwords, late : BOOLEAN]

SessionTyped ==
    /\ row \in Passwords \cup {None} /\ now \in Nat
    /\ cookie \in [token : Token, until : Nat] \cup {None}
    /\ req \in [Tabs -> Request]
    /\ hist \in [lastOk : Nat, newest : Nat, loggedOut : BOOLEAN]
    /\ hist.newest <= now + TTL /\ hist.lastOk <= now

\* A token is no younger than the newest, and as long as there is one the last
\* page was granted THRESHOLD or more before the newest ends.
Aged(token) ==
    token # None => token.exp <= hist.newest /\ hist.lastOk + THRESHOLD <= hist.newest

\* Under way a request is neither granted nor told to drop the cookie, its
\* server runs, and it has seen the password in force; what it will compare
\* with is one it has seen, and a granted one gave one it has seen.  A request
\* sent after the logout carries no token, and is given none.
RequestSound(r) ==
    /\ r.stage \in {"idle", "sent", "compare"} => ~r.ok /\ ~r.clear
    /\ r.stage \in {"sent", "compare"} => gateway # None /\ GetAdminPasswordHash \in r.seen
    /\ r.stage = "compare" => r.hash \in r.seen
    /\ r.kind = "change" => r.new \in Passwords
    /\ r.kind = "logout" /\ r.ok => r.clear
    /\ r.kind \in {"login", "change"} /\ r.ok => r.pw \in r.seen
    /\ hist.loggedOut /\ r.stage # "idle" /\ ~r.late /\ r.kind # "login" =>
         r.token = None /\ r.set = None
    /\ Aged(r.token) /\ Aged(r.set)

SessionInv ==
    /\ SessionTyped
    /\ \A t \in Tabs : RequestSound(req[t])
    /\ cookie # None => Aged(cookie.token)
    /\ LoggedOutStays

-----------------------------------------------------------------------------
(* Lemmas about the interview and the secrets                              *)

LEMMA PromptsAre ==
    /\ tool = "create" => Len(Prompts) = 7 /\ Len(Writes) = 4
    /\ tool # "create" => Len(Prompts) = 5 /\ Len(Writes) = 1
BY DEF Prompts, Writes

\* Which question is asked when; the two interviews agree on three of them.
LEMMA PromptAt ==
    ASSUME wizard.step \in Nat
    PROVE  /\ \A p : At(p) => wizard.step \in 1..Len(Prompts)
           /\ At("dir") => wizard.step = 1
           /\ At("postgres") => wizard.step = 2
           /\ At("admin") => wizard.step = 3
           /\ At("key") => wizard.step = 4
           /\ At("passphrase") => wizard.step = 5
           /\ At("domain") => wizard.step = IF tool = "create" THEN 6 ELSE 4
           /\ At("namespace") => wizard.step = 7 /\ tool = "create"
<1>1. CASE tool = "create"
  <2>1. Prompts = <<"dir", "postgres", "admin", "key", "passphrase", "domain", "namespace">>
    BY <1>1 DEF Prompts
  <2> QED
    BY <1>1, <2>1 DEF At
<1>2. CASE tool # "create"
  <2>1. Prompts = <<"dir", "postgres", "admin", "domain", "passphrase">>
    BY <1>2 DEF Prompts
  <2> QED
    BY <1>2, <2>1 DEF At
<1> QED
  BY <1>1, <1>2

\* Which file is written when.
LEMMA FileIs ==
    ASSUME DeployTyped, Writing
    PROVE  /\ tool = "create" => \/ wizard.step = 8 /\ File = "templates"
                                 \/ wizard.step = 9 /\ File = "env"
                                 \/ wizard.step = 10 /\ File = "key"
                                 \/ wizard.step = 11 /\ File = "ignore"
           /\ tool # "create" => wizard.step = 6 /\ File = "env"
<1>1. wizard.step \in Nat /\ wizard.step <= Len(Prompts) + Len(Writes)
  BY DEF DeployTyped, Wizard
<1> DEFINE p == Len(Prompts)
           w == Len(Writes)
<1>2. wizard.step \in Nat /\ wizard.step > p /\ wizard.step <= p + w
  BY <1>1 DEF Writing
<1>3. CASE tool = "create"
  <2>1. p = 7 /\ w = 4
    BY <1>3, PromptsAre
  <2>2. wizard.step \in {8, 9, 10, 11} /\ Len(Prompts) = 7
    <3> HIDE DEF p, w
    <3>1. wizard.step \in {8, 9, 10, 11}
      BY <1>2, <2>1
    <3> QED
      BY <3>1, <2>1 DEF p
  <2>3. Writes = <<"templates", "env", "key", "ignore">>
    BY <1>3 DEF Writes
  <2>4. File = Writes[wizard.step - 7]
    BY <2>2 DEF File
  <2> QED
    BY <1>3, <2>2, <2>3, <2>4
<1>4. CASE tool # "create"
  <2>1. p = 5 /\ w = 1
    BY <1>4, PromptsAre
  <2>2. wizard.step = 6 /\ Len(Prompts) = 5
    <3> HIDE DEF p, w
    <3>1. wizard.step = 6
      BY <1>2, <2>1
    <3> QED
      BY <3>1, <2>1 DEF p
  <2>3. Writes = <<"env">>
    BY <1>4 DEF Writes
  <2>4. File = Writes[1]
    BY <2>2 DEF File
  <2> QED
    BY <1>4, <2>2, <2>3, <2>4
<1> QED
  BY <1>3, <1>4

\* What .env is read as: still nothing the validator refuses.
LEMMA SafeReads ==
    /\ HexSecrets \subseteq Safe
    /\ \A v \in Values : EnvRead(v) \in Values /\ v # None
    /\ \A v \in Safe : EnvRead(v) \in Safe /\ v \in Values
    /\ \A e \in Env : /\ Containers(e) \in Env /\ Containers(e).pass = EnvRead(e.pass)
                      /\ Credentials(e) # None
<1>1. HexSecrets \subseteq Safe
  BY SecretsAssumption DEF Safe, ValidateSecretChars, Values
<1>2. \A v \in Values : EnvRead(v) \in Values /\ v # None
  BY NoneAssumption, SecretsAssumption DEF EnvRead
<1>3. \A v \in Safe : EnvRead(v) \in Safe /\ v \in Values
  BY SecretsAssumption DEF Safe, ValidateSecretChars, EnvRead
<1>4. ASSUME NEW e \in Env
      PROVE  /\ Containers(e) \in Env /\ Containers(e).pass = EnvRead(e.pass)
             /\ Credentials(e) # None
  <2>1. EnvRead(e.names) \in Values /\ EnvRead(e.pg) \in Safe /\ EnvRead(e.pass) \in Safe
    BY <1>2, <1>3 DEF Env
  <2>2. Containers(e) = [e EXCEPT !.names = EnvRead(e.names), !.pg = EnvRead(e.pg),
                                  !.pass = EnvRead(e.pass)]
    BY DEF Containers
  <2>3. e.names \in Values /\ e.pg \in Values
    BY <1>3 DEF Env
  <2>4. Credentials(e) \in Values \X Values
    BY <2>3 DEF Credentials
  <2> QED
    BY <2>1, <2>2, <2>4, NoneAssumption DEF Env
<1> QED
  BY <1>1, <1>2, <1>3, <1>4

LEMMA HexIsSafe == DeployTyped => RandomHex32 \in HexSecrets /\ RandomHex32 \in Safe
<1> SUFFICES ASSUME DeployTyped PROVE RandomHex32 \in HexSecrets
  BY SafeReads
<1> QED
  BY DEF DeployTyped, RandomHex32, HexSecrets

LEMMA AskedIsSafe == DeployTyped => AskSecretValue \subseteq Safe
BY HexIsSafe DEF AskSecretValue, Safe, Values

LEMMA NotNone ==
    None \notin Safe /\ None \notin Env /\ None \notin KeyFile /\ None \notin Gateway /\ None \notin Token
<1>1. None \notin Safe
  BY NoneAssumption DEF Safe
<1>2. Env \subseteq [names : Values, pg : Values, pass : Values, admin : Passwords, session : HexSecrets]
  BY InitialAssumption DEF Env, Safe
<1>3. KeyFile \subseteq KeyFiles \cup {CutKey} \cup [raw : {FALSE}, good : {TRUE}, pass : Values]
  BY DEF KeyFile, Safe
<1>4. Gateway \subseteq [secret : HexSecrets, admin : Passwords]
  BY InitialAssumption DEF Gateway
<1>5. None \notin Token
  BY NoneAssumption DEF Token
<1> QED
  BY <1>1, <1>2, <1>3, <1>4, <1>5, NoneAssumption

-----------------------------------------------------------------------------
(* The directory: every step keeps the invariant                           *)

LEMMA DeployInvInit == Init => DeployInv
<1> SUFFICES ASSUME Init PROVE DeployInv
  OBVIOUS
<1>1. wizard = NoWizard /\ NoWizard \in Wizard /\ wizard.step = 0
  BY DEF Init, NoWizard, NoAnswers, Wizard, Answers
<1>2. tool \in {"create", "local"}
  BY ToolsAssumption DEF Init, NothingYet, UpAndRunning
<1>3. /\ disk \in Disk /\ torn = FALSE /\ scaffolds \in 0..MaxScaffolds
      /\ stack \in [state : {"down", "starting", "node", "up"}, env : Env \cup {None}]
      /\ stack.state # "down" => stack.env # None /\ volume # None
      /\ gateway \in Gateway \cup {None}
      /\ gateway # None <=> stack.state = "up"
      /\ KeyOpens
  <2>1. CASE NothingYet
    <3>1. disk = [env |-> None, key |-> None, compose |-> FALSE] /\ stack = [state |-> "down", env |-> None]
      BY <2>1 DEF NothingYet, Down
    <3>2. gateway = None /\ scaffolds = 0 /\ torn = FALSE
      BY <2>1 DEF NothingYet, Init
    <3> QED
      BY <3>1, <3>2, ScaffoldsAssumption DEF Disk, KeyOpens
  <2>2. CASE UpAndRunning
    <3> DEFINE hex == <<"random", 1>>
    <3>1. hex \in HexSecrets /\ hex \in Safe
      BY SafeReads, ScaffoldsAssumption DEF HexSecrets
    <3> HIDE DEF hex
    <3>2. PICK admin \in Initial \ Long, names \in Names \ (Splitting \cup DOMAIN Mangled) :
            LET env == [names |-> names, pg |-> hex, pass |-> hex, admin |-> admin, session |-> hex]
            IN  /\ disk = [env |-> env, compose |-> TRUE,
                           key |-> [raw |-> FALSE, good |-> TRUE, pass |-> hex]]
                /\ stack = [state |-> "up", env |-> env] /\ volume = <<names, hex>>
                /\ gateway = [secret |-> hex, admin |-> admin]
      BY <2>2 DEF UpAndRunning, hex
    <3> DEFINE env == [names |-> names, pg |-> hex, pass |-> hex, admin |-> admin, session |-> hex]
               key == [raw |-> FALSE, good |-> TRUE, pass |-> hex]
    <3>3. env \in Env /\ key \in KeyFile /\ gateway \in Gateway
      BY <3>1, <3>2 DEF Env, KeyFile, Gateway, Values
    <3>4. env # None /\ key # None /\ gateway # None /\ volume # None
      <4>1. Credentials(env) = volume
        BY <3>2 DEF Credentials
      <4> QED
        BY <4>1, <3>3, NotNone, SafeReads
    <3>5. Opens(key, EnvRead(env.pass))
      BY <3>1, SecretsAssumption DEF Opens, DecryptKeyFile, EnvRead
    <3>6. disk.env = env /\ disk.key = key /\ disk \in Disk
      BY <3>2, <3>3 DEF Disk
    <3>7. stack.state = "up" /\ stack.env = env
          /\ stack \in [state : {"down", "starting", "node", "up"}, env : Env \cup {None}]
      BY <3>2, <3>3
    <3>8. torn = FALSE /\ scaffolds \in 0..MaxScaffolds
      BY <2>2, ScaffoldsAssumption DEF UpAndRunning, Init
    <3>9. KeyOpens
      BY <3>4, <3>5, <3>6 DEF KeyOpens
    <3> QED
      BY <3>2, <3>3, <3>4, <3>6, <3>7, <3>8, <3>9
  <2> QED
    BY <2>1, <2>2 DEF Init
<1>4. DeployTyped
  <2>1. wizard.step <= Len(Prompts) + Len(Writes)
    BY <1>1 DEF Prompts, Writes
  <2>2. torn \in BOOLEAN
    BY <1>3
  <2>3. wizard \in Wizard
    BY <1>1
  <2> QED
    BY <1>1, <1>2, <1>3, <2>1, <2>2, <2>3 DEF DeployTyped
<1>5. AnswersInOrder /\ NothingOnCancel
  BY <1>1 DEF AnswersInOrder, NothingOnCancel
<1>6. EnvOfThisWizard
  BY <1>1, PromptsAre DEF EnvOfThisWizard
<1> QED
  BY <1>3, <1>4, <1>5, <1>6 DEF DeployInv

\* The facts of the invariant the steps of the wizard start from.
LEMMA DeployFacts ==
    ASSUME DeployInv
    PROVE  /\ tool \in {"create", "local"} /\ wizard \in Wizard /\ disk \in Disk
           /\ wizard.step \in Nat /\ wizard.ans \in Answers /\ wizard.before \in Disk \cup {None}
           /\ wizard = [step |-> wizard.step, ans |-> wizard.ans, before |-> wizard.before]
           /\ wizard.step <= Len(Prompts) + Len(Writes)
           /\ wizard.step # 0 => wizard.before \in Disk
BY DEF DeployInv, DeployTyped, Wizard

\* The next question: it touches nothing but the wizard, and what it is told is
\* what the prompt accepts.
LEMMA InterviewKeeps ==
    ASSUME DeployInv,
           NEW p, At(p),
           NEW ans \in Answers, Interview(ans),
           wizard.step # 2 => ans.pg = wizard.ans.pg /\ ans.names = wizard.ans.names,
           wizard.step = 2 => ans.pg \in Safe /\ ans.names \in Values,
           wizard.step # 3 => ans.admin = wizard.ans.admin,
           wizard.step = 3 => ans.admin \in Initial \ Long,
           ~(tool = "create" /\ wizard.step = 4) =>
              ans.key = wizard.ans.key /\ ans.fresh = wizard.ans.fresh,
           tool = "create" /\ wizard.step = 4 =>
              ans.key \in KeyFile /\ (ans.fresh => ParseHexKeyFile(ans.key)),
           wizard.step # 5 => ans.pass = wizard.ans.pass,
           wizard.step = 5 => ans.pass \in Safe,
           tool = "create" /\ wizard.step = 5 => ans.fresh \/ DecryptKeyFile(ans.key, ans.pass)
    PROVE  DeployInv'
<1>1. /\ tool \in {"create", "local"} /\ wizard \in Wizard
      /\ wizard.step \in Nat
  BY DeployFacts
<1>2. wizard' = [wizard EXCEPT !.step = @ + 1, !.ans = ans]
      /\ UNCHANGED <<sessionVars, tool, disk, torn, stack, volume, scaffolds, starts>>
  BY DEF Interview
<1>3. /\ wizard' \in Wizard /\ wizard'.step = wizard.step + 1 /\ wizard'.ans = ans
      /\ wizard'.before = wizard.before
  <2>1. wizard = [step |-> wizard.step, ans |-> wizard.ans, before |-> wizard.before]
    BY DeployFacts
  <2>2. wizard' = [step |-> wizard.step + 1, ans |-> ans, before |-> wizard.before]
    BY <1>2, <2>1
  <2> QED
    BY <1>1, <2>2, DeployFacts DEF Wizard
<1>4. wizard.step \in 1..Len(Prompts)
  BY <1>1, PromptAt
<1>5. UNCHANGED <<Prompts, Writes>>
  BY <1>2 DEF Prompts, Writes
<1>6. DeployTyped'
  <2>1. wizard'.step <= Len(Prompts) + Len(Writes)
    <3>1. /\ Len(Prompts) \in Nat /\ Len(Writes) \in Nat /\ Len(Writes) >= 1
      BY DEF Prompts, Writes
    <3> QED
      BY <3>1, <1>1, <1>3, <1>4
  <2> QED
    BY <1>1, <1>2, <1>3, <1>4, <1>5, <2>1 DEF DeployInv, DeployTyped, sessionVars
<1>7. AnswersInOrder'
  <2>1. AnswersInOrder
    BY DEF DeployInv
  <2>2. wizard'.step > 2 => ans.pg \in Safe /\ ans.names \in Values
    BY <2>1, <1>1, <1>3 DEF AnswersInOrder
  <2>3. wizard'.step > 3 => ans.admin \in Initial \ Long
    BY <2>1, <1>1, <1>3 DEF AnswersInOrder
  <2>4. wizard'.step > 5 => ans.pass \in Safe
    BY <2>1, <1>1, <1>3 DEF AnswersInOrder
  <2>5. tool = "create" /\ wizard'.step > 4 =>
          ans.key \in KeyFile /\ (ans.fresh => ParseHexKeyFile(ans.key))
    BY <2>1, <1>1, <1>3 DEF AnswersInOrder
  <2>6. tool = "create" /\ wizard'.step > 5 => Opens(ans.key, ans.pass)
    <3>1. CASE wizard.step = 5
      BY <3>1, <2>5, <1>3 DEF Opens
    <3>2. CASE wizard.step # 5
      BY <3>2, <2>1, <1>1, <1>3 DEF AnswersInOrder
    <3> QED
      BY <3>1, <3>2
  <2> QED
    BY <2>2, <2>3, <2>4, <2>5, <2>6, <1>2, <1>3 DEF AnswersInOrder
<1>8. EnvOfThisWizard'
  BY <1>1, <1>2, <1>3, <1>4, <1>5, PromptsAre DEF EnvOfThisWizard
<1>9. NothingOnCancel'
  BY <1>2, <1>3, <1>4 DEF DeployInv, NothingOnCancel
<1>10. KeyOpens'
  BY <1>2 DEF DeployInv, KeyOpens
<1> QED
  BY <1>6, <1>7, <1>8, <1>9, <1>10 DEF DeployInv

LEMMA PromptsKeep ==
    ASSUME DeployInv,
           \/ PromptTargetDir \/ PromptPostgres \/ PromptAdminPassword \/ PromptKeyPath
           \/ PromptPassphrase \/ PromptDomain \/ PromptNamespace
    PROVE  DeployInv'
<1> USE DeployFacts
<1> DEFINE a == wizard.ans
<1>0. a \in Answers
  OBVIOUS
<1>1. CASE PromptTargetDir \/ PromptDomain \/ PromptNamespace
  <2>1. Interview(a) /\ (At("dir") \/ At("domain") \/ At("namespace"))
    BY <1>1 DEF PromptTargetDir, PromptDomain, PromptNamespace
  <2>2. /\ wizard.step # 2 /\ wizard.step # 3 /\ wizard.step # 5
        /\ ~(tool = "create" /\ wizard.step = 4)
    BY <2>1, PromptAt
  <2>3. \E p : At(p)
    BY <2>1
  <2> QED
    BY <1>0, <2>1, <2>2, <2>3, InterviewKeeps
<1>2. CASE PromptPostgres
  <2>1. PICK names \in Names, v \in AskSecretValue :
               Interview([a EXCEPT !.names = names, !.pg = v])
    BY <1>2 DEF PromptPostgres
  <2>5. v \in Safe /\ names \in Values
    BY AskedIsSafe DEF DeployInv, Values
  <2> DEFINE b == [a EXCEPT !.names = names, !.pg = v]
  <2>2. Interview(b)
    BY <2>1
  <2>3. /\ b \in Answers /\ b.pg \in Safe /\ b.names \in Values /\ b.admin = a.admin /\ b.key = a.key
        /\ b.fresh = a.fresh /\ b.pass = a.pass
    BY <1>0, <2>5 DEF Answers
  <2>4. At("postgres") /\ wizard.step = 2
    BY <1>2, PromptAt DEF PromptPostgres
  <2> HIDE DEF b
  <2> QED
    BY <2>2, <2>3, <2>4, InterviewKeeps
<1>3. CASE PromptAdminPassword
  <2>1. PICK v \in Initial \ Long : Given("admin", v)
    BY <1>3 DEF PromptAdminPassword
  <2> DEFINE b == [a EXCEPT !.admin = v]
  <2>2. Interview(b)
    BY <2>1 DEF Given
  <2>3. /\ b \in Answers /\ b.pg = a.pg /\ b.names = a.names /\ b.admin \in Initial \ Long /\ b.key = a.key
        /\ b.fresh = a.fresh /\ b.pass = a.pass
    BY <1>0 DEF Answers
  <2>4. At("admin") /\ wizard.step = 3
    BY <1>3, PromptAt DEF PromptAdminPassword
  <2> HIDE DEF b
  <2> QED
    BY <2>2, <2>3, <2>4, InterviewKeeps
<1>4. CASE PromptKeyPath
  <2>1. PICK file \in KeyFile, fresh \in BOOLEAN :
          /\ fresh => ParseHexKeyFile(file)
          /\ Interview([a EXCEPT !.key = file, !.fresh = fresh])
    <3>1. KeyFiles \cup ({disk.key} \ {None}) \subseteq KeyFile
      BY DEF Disk, KeyFile
    <3> QED
      BY <1>4, <3>1 DEF PromptKeyPath
  <2> DEFINE b == [a EXCEPT !.key = file, !.fresh = fresh]
  <2>2. Interview(b)
    BY <2>1
  <2>3. /\ b \in Answers /\ b.pg = a.pg /\ b.names = a.names /\ b.admin = a.admin /\ b.key = file
        /\ b.fresh = fresh /\ b.pass = a.pass
    BY <1>0 DEF Answers
  <2>4. At("key") /\ wizard.step = 4
    BY <1>4, PromptAt DEF PromptKeyPath
  <2>5. tool = "create"
    BY <2>4 DEF At, Prompts
  <2> HIDE DEF b
  <2> QED
    BY <2>1, <2>2, <2>3, <2>4, <2>5, InterviewKeeps
<1>5. CASE PromptPassphrase
  <2>1. PICK v \in Safe : Given("pass", v) /\ (a.fresh \/ DecryptKeyFile(a.key, v))
    <3>1. AskSecretValue \subseteq Safe
      BY AskedIsSafe DEF DeployInv
    <3>2. {<<"random", n>> : n \in 1..MaxScaffolds} \subseteq HexSecrets
      BY ScaffoldsAssumption DEF HexSecrets
    <3>3. CASE a.fresh /\ \E v \in AskSecretValue : Given("pass", v)
      BY <3>1, <3>3
    <3>4. CASE \E v \in OwnSecrets \cup {<<"random", n>> : n \in 1..MaxScaffolds} :
                 ValidateSecretChars(v) /\ DecryptKeyFile(a.key, v) /\ Given("pass", v)
      BY <3>2, <3>4 DEF Safe, Values
    <3> QED
      BY <1>5, <3>3, <3>4 DEF PromptPassphrase
  <2> DEFINE b == [a EXCEPT !.pass = v]
  <2>2. Interview(b)
    BY <2>1 DEF Given
  <2>3. /\ b \in Answers /\ b.pg = a.pg /\ b.names = a.names /\ b.admin = a.admin /\ b.key = a.key
        /\ b.fresh = a.fresh /\ b.pass = v
    BY <1>0 DEF Answers
  <2>4. At("passphrase") /\ wizard.step = 5
    BY <1>5, PromptAt DEF PromptPassphrase
  <2> HIDE DEF b
  <2> QED
    BY <2>1, <2>2, <2>3, <2>4, InterviewKeeps
<1> QED
  BY <1>1, <1>2, <1>3, <1>4, <1>5

\* A wizard begins, or is cancelled.
LEMMA BeginOrCancelKeeps ==
    ASSUME DeployInv, StartWizard \/ Cancel
    PROVE  DeployInv'
<1>1. /\ UNCHANGED <<tool, disk, torn, stack, volume, gateway>>
      /\ scaffolds' \in 0..MaxScaffolds
  BY ScaffoldsAssumption DEF StartWizard, Cancel, sessionVars, DeployInv, DeployTyped
<1>2. /\ wizard' = [NoWizard EXCEPT !.step = 1, !.before = disk] \/ wizard' = NoWizard
  BY DEF StartWizard, Cancel
<1>3. NoWizard = [step |-> 0, ans |-> NoAnswers, before |-> None] /\ NoAnswers \in Answers
  BY DEF NoWizard, NoAnswers, Answers
<1>4. wizard' \in Wizard /\ wizard'.step \in {0, 1} /\ (wizard'.step = 1 => wizard'.before = disk)
  <2>1. CASE wizard' = NoWizard
    BY <2>1, <1>3 DEF Wizard
  <2>2. CASE wizard' = [NoWizard EXCEPT !.step = 1, !.before = disk]
    <3>1. wizard' = [step |-> 1, ans |-> NoAnswers, before |-> disk]
      BY <2>2, <1>3
    <3> QED
      BY <3>1, <1>3, DeployFacts DEF Wizard
  <2> QED
    BY <1>2, <2>1, <2>2
<1>5. DeployTyped'
  <2>1. wizard'.step <= Len(Prompts') + Len(Writes')
    BY <1>4 DEF Prompts, Writes
  <2> QED
    BY <1>1, <1>4, <2>1 DEF DeployInv, DeployTyped
<1>6. AnswersInOrder' /\ NothingOnCancel'
  BY <1>1, <1>4 DEF AnswersInOrder, NothingOnCancel
<1>7. EnvOfThisWizard'
  BY <1>4, PromptsAre DEF EnvOfThisWizard, Prompts
<1>8. KeyOpens'
  BY <1>1 DEF DeployInv, KeyOpens
<1> QED
  BY <1>5, <1>6, <1>7, <1>8 DEF DeployInv

\* A wizard that ends because a write failed; the file it was at may be cut.
LEMMA WriteFailsKeeps ==
    ASSUME DeployInv, WriteFails
    PROVE  DeployInv'
<1>1. /\ Writing /\ wizard' = NoWizard
      /\ UNCHANGED <<tool, scaffolds, stack, volume, gateway>>
      /\ \/ UNCHANGED <<disk, torn>>
         \/ /\ disk' = CASE File = "templates" -> [disk EXCEPT !.compose = FALSE]
                         [] File = "env"       -> [disk EXCEPT !.env = None]
                         [] File = "key"       -> [disk EXCEPT !.key = CutKey]
                         [] File = "ignore"    -> disk
            /\ torn' = (tool = "create" /\ (torn \/ File \in {"env", "key"}))
  BY DEF WriteFails
<1>2. NoWizard \in Wizard /\ NoWizard.step = 0
  BY DEF NoWizard, NoAnswers, Wizard, Answers
<1>3. disk \in Disk /\ torn \in BOOLEAN /\ tool \in {"create", "local"}
  BY DEF DeployInv, DeployTyped
<1>4. File \in {"templates", "env", "key", "ignore"}
  BY <1>1, <1>3, FileIs DEF DeployInv
<1>5. disk' \in Disk /\ torn' \in BOOLEAN
  <2>1. [disk EXCEPT !.compose = FALSE] \in Disk /\ [disk EXCEPT !.env = None] \in Disk
    BY <1>3 DEF Disk
  <2>2. [disk EXCEPT !.key = CutKey] \in Disk
    BY <1>3 DEF Disk, KeyFile
  <2>3. CASE UNCHANGED <<disk, torn>>
    BY <2>3, <1>3
  <2>4. CASE UNCHANGED disk \/ disk' \in {[disk EXCEPT !.compose = FALSE], [disk EXCEPT !.env = None],
                                          [disk EXCEPT !.key = CutKey]}
    BY <2>1, <2>2, <2>4, <1>1, <1>3
  <2> QED
    BY <2>3, <2>4, <1>1, <1>4
<1>6. DeployTyped'
  <2>1. wizard'.step <= Len(Prompts') + Len(Writes')
    BY <1>1, <1>2 DEF Prompts, Writes
  <2> QED
    BY <1>1, <1>2, <1>5, <2>1 DEF DeployInv, DeployTyped
<1>7. AnswersInOrder' /\ NothingOnCancel'
  BY <1>1, <1>2 DEF AnswersInOrder, NothingOnCancel
<1>8. EnvOfThisWizard'
  BY <1>1, <1>2, PromptsAre DEF EnvOfThisWizard, Prompts
<1>9. KeyOpens'
  <2> SUFFICES ASSUME tool = "create", ~torn' PROVE disk'.env = disk.env /\ disk'.key = disk.key /\ ~torn
    BY <1>1 DEF DeployInv, KeyOpens
  <2>1. CASE UNCHANGED <<disk, torn>>
    BY <2>1
  <2>2. CASE File \in {"templates", "ignore"} /\ ~UNCHANGED <<disk, torn>>
    <3>1. ~torn
      BY <2>2, <1>1
    <3>2. disk' = [disk EXCEPT !.compose = FALSE] \/ disk' = disk
      BY <2>2, <1>1
    <3> QED
      BY <3>1, <3>2, <1>3 DEF Disk
  <2> QED
    BY <2>1, <2>2, <1>1, <1>4
<1> QED
  BY <1>6, <1>7, <1>8, <1>9 DEF DeployInv

\* Each of the four writes, and the one of the contributor's tool.
LEMMA WriteKeeps ==
    ASSUME DeployInv, WriteScaffold
    PROVE  DeployInv'
<1> DEFINE a == wizard.ans
<1>1. /\ tool \in {"create", "local"} /\ disk \in Disk /\ a \in Answers /\ wizard.step \in Nat
      /\ wizard = [step |-> wizard.step, ans |-> a, before |-> wizard.before]
      /\ wizard.before \in Disk \cup {None}
  BY DeployFacts
<1>2. /\ Writing
      /\ UNCHANGED <<tool, stack, volume, scaffolds, gateway>>
      /\ wizard' = IF Done THEN NoWizard ELSE [wizard EXCEPT !.step = @ + 1]
  BY DEF WriteScaffold, sessionVars
<1>3. UNCHANGED <<Prompts, Writes>>
  BY <1>2 DEF Prompts, Writes
<1>4. \/ Done /\ wizard' = NoWizard /\ wizard'.step = 0
      \/ /\ ~Done /\ wizard'.step = wizard.step + 1 /\ wizard'.ans = a
         /\ wizard'.before = wizard.before
         /\ wizard' = [step |-> wizard.step + 1, ans |-> a, before |-> wizard.before]
  BY <1>1, <1>2 DEF NoWizard
<1>5. /\ wizard' \in Wizard /\ wizard'.step <= Len(Prompts) + Len(Writes)
      /\ wizard'.step # 0 => wizard'.before \in Disk
  <2>1. CASE Done /\ wizard' = NoWizard
    BY <2>1 DEF NoWizard, NoAnswers, Wizard, Answers, Prompts, Writes
  <2>2. CASE ~Done /\ wizard' = [step |-> wizard.step + 1, ans |-> a, before |-> wizard.before]
    <3>1. wizard.step <= Len(Prompts) + Len(Writes) /\ wizard.step # Len(Prompts) + Len(Writes)
      BY <2>2, DeployFacts DEF Done
    <3>2. Len(Prompts) \in Nat /\ Len(Writes) \in Nat
      BY DEF Prompts, Writes
    <3> QED
      BY <2>2, <3>1, <3>2, <1>1, <1>2, DeployFacts DEF Wizard, Writing
  <2> QED
    BY <1>4, <2>1, <2>2
<1>6. AnswersInOrder /\ (Writing => wizard.step > 5)
  BY FileIs, <1>1, <1>2 DEF DeployInv
<1>7. a.names \in Values /\ a.pg \in Safe /\ a.admin \in Initial \ Long /\ a.pass \in Safe
  BY <1>1, <1>2, <1>6 DEF AnswersInOrder
<1>8. tool = "create" => a.key \in KeyFile /\ Opens(a.key, a.pass)
  BY <1>1, <1>2, <1>6 DEF AnswersInOrder
<1>9. AnswersInOrder'
  <2>1. CASE wizard'.step = 0
    BY <2>1 DEF AnswersInOrder
  <2>2. CASE wizard'.ans = a /\ wizard'.step = wizard.step + 1
    BY <2>2, <1>1, <1>2, <1>6 DEF AnswersInOrder
  <2> QED
    BY <1>4, <2>1, <2>2
<1>10. NothingOnCancel'
  BY <1>1, <1>2, <1>3, <1>4, PromptsAre DEF NothingOnCancel, Writing
<1> DEFINE e == BuildEnvFile(a)
<1>11. e \in Env /\ e # None /\ e.pass = a.pass
  <2>1. RandomHex32 \in HexSecrets
    BY HexIsSafe DEF DeployInv
  <2>2. e \in Env /\ e.pass = a.pass
    BY <2>1, <1>7 DEF BuildEnvFile, Env
  <2> QED
    BY <2>2, NotNone
<1> HIDE DEF e
<1>12. /\ File = "templates" => disk' = [disk EXCEPT !.compose = TRUE]
       /\ File = "env" => disk' = [disk EXCEPT !.env = e]
       /\ File = "key" => disk' = [disk EXCEPT !.key = a.key]
       /\ File = "ignore" => disk' = disk
       /\ tool = "create" => /\ File = "env" => torn' = TRUE
                             /\ File = "key" => torn' = FALSE
                             /\ File \in {"templates", "ignore"} => torn' = torn
       /\ tool # "create" => torn' = FALSE
  <2>1. /\ disk' = CASE File = "templates" -> [disk EXCEPT !.compose = TRUE]
                     [] File = "env"       -> [disk EXCEPT !.env = e]
                     [] File = "key"       -> [disk EXCEPT !.key = a.key]
                     [] File = "ignore"    -> disk
        /\ torn' = (tool = "create" /\ CASE File = "env" -> TRUE [] File = "key" -> FALSE
                                         [] OTHER -> torn)
    BY DEF WriteScaffold, e
  <2>2. ASSUME File = "templates"
        PROVE  disk' = [disk EXCEPT !.compose = TRUE] /\ (tool = "create" => torn' = torn)
    BY <2>1, <2>2 DEF DeployInv, DeployTyped
  <2>3. ASSUME File = "env"
        PROVE  disk' = [disk EXCEPT !.env = e] /\ (tool = "create" => torn' = TRUE)
    BY <2>1, <2>3
  <2>4. ASSUME File = "key"
        PROVE  disk' = [disk EXCEPT !.key = a.key] /\ (tool = "create" => torn' = FALSE)
    BY <2>1, <2>4
  <2>5. ASSUME File = "ignore"
        PROVE  disk' = disk /\ (tool = "create" => torn' = torn)
    BY <2>1, <2>5 DEF DeployInv, DeployTyped
  <2>6. tool # "create" => torn' = FALSE
    BY <2>1
  <2> QED
    BY <2>2, <2>3, <2>4, <2>5, <2>6
<1>13. tool = "create" =>
         /\ Len(Prompts) = 7 /\ Len(Writes) = 4 /\ (Done <=> wizard.step = 11)
         /\ File = "templates" => wizard.step = 8
         /\ File = "env" => wizard.step = 9
         /\ File = "key" => wizard.step = 10
         /\ File = "ignore" => wizard.step = 11
         /\ File \in {"templates", "env", "key", "ignore"}
  <2> SUFFICES ASSUME tool = "create"
               PROVE  /\ Len(Prompts) = 7 /\ Len(Writes) = 4 /\ (Done <=> wizard.step = 11)
                      /\ File = "templates" => wizard.step = 8
                      /\ File = "env" => wizard.step = 9
                      /\ File = "key" => wizard.step = 10
                      /\ File = "ignore" => wizard.step = 11
                      /\ File \in {"templates", "env", "key", "ignore"}
    OBVIOUS
  <2>1. Len(Prompts) = 7 /\ Len(Writes) = 4
    BY PromptsAre
  <2>2. Done <=> wizard.step = 11
    BY <2>1 DEF Done
  <2>3. \/ wizard.step = 8 /\ File = "templates"
        \/ wizard.step = 9 /\ File = "env"
        \/ wizard.step = 10 /\ File = "key"
        \/ wizard.step = 11 /\ File = "ignore"
    BY <1>2, FileIs DEF DeployInv
  <2> QED
    BY <2>1, <2>2, <2>3
<1>14. CASE tool # "create"
  <2>1. File = "env" /\ wizard.step = 6
    BY <1>2, <1>14, FileIs DEF DeployInv
  <2>2. disk' = [disk EXCEPT !.env = e] /\ torn' = FALSE
    BY <2>1, <1>12, <1>14
  <2>3. disk' \in Disk /\ disk'.env = e
    BY <2>2, <1>1, <1>11 DEF Disk
  <2>4. DeployTyped'
    BY <2>2, <2>3, <1>2, <1>3, <1>5, <1>11 DEF DeployInv, DeployTyped
  <2>5. EnvOfThisWizard' /\ KeyOpens'
    BY <1>2, <1>14 DEF EnvOfThisWizard, KeyOpens
  <2> QED
    BY <2>4, <2>5, <1>9, <1>10 DEF DeployInv
<1>15. CASE tool = "create" /\ File = "templates"
  <2>1. wizard.step = 8
    BY <1>2, <1>15, FileIs DEF DeployInv
  <2>2. disk' \in Disk /\ disk'.env = disk.env /\ disk'.key = disk.key /\ torn' = torn
    BY <1>1, <1>12, <1>15 DEF Disk
  <2>3. DeployTyped'
    BY <2>2, <1>2, <1>3, <1>5 DEF DeployInv, DeployTyped
  <2>4. EnvOfThisWizard'
    <3>1. wizard'.step \in {0, 9}
      BY <2>1, <1>4
    <3>2. Len(Prompts') = 7
      BY <1>3, <1>13, <1>15
    <3> QED
      BY <3>1, <3>2 DEF EnvOfThisWizard
  <2>5. KeyOpens'
    BY <2>2, <1>2 DEF DeployInv, KeyOpens
  <2> QED
    BY <2>3, <2>4, <2>5, <1>9, <1>10 DEF DeployInv
<1>16. CASE tool = "create" /\ File = "env"
  <2>1. disk' \in Disk /\ disk'.env = e /\ torn' = TRUE
    BY <1>1, <1>11, <1>12, <1>16 DEF Disk
  <2>2. DeployTyped'
    BY <2>1, <1>2, <1>3, <1>5, <1>11 DEF DeployInv, DeployTyped
  <2>3. wizard.step = 9 /\ ~Done
    BY <1>16, <1>13
  <2>4. EnvOfThisWizard'
    BY <2>1, <2>3, <1>4, <1>11 DEF EnvOfThisWizard
  <2>5. KeyOpens'
    BY <2>1 DEF KeyOpens
  <2> QED
    BY <2>2, <2>4, <2>5, <1>9, <1>10 DEF DeployInv
<1>17. CASE tool = "create" /\ File = "key"
  <2>1. /\ disk' \in Disk /\ disk'.env = disk.env /\ disk'.key = a.key
    BY <1>1, <1>8, <1>12, <1>17 DEF Disk
  <2>2. wizard.step = 10 /\ ~Done /\ Len(Prompts) = 7
    BY <1>17, <1>13
  <2>3. disk.env # None /\ disk.env.pass = a.pass
    BY <2>2, <1>17 DEF DeployInv, EnvOfThisWizard
  <2>4. torn' = FALSE
    BY <1>12, <1>17
  <2>5. DeployTyped'
    BY <2>1, <2>4, <1>2, <1>3, <1>5 DEF DeployInv, DeployTyped
  <2>6. EnvOfThisWizard'
    BY <2>1, <2>2, <2>3, <1>4 DEF EnvOfThisWizard
  <2>7. KeyOpens'
    <3>1. a.key # None /\ Opens(a.key, a.pass)
      BY <1>8, <1>17, NotNone
    <3>2. Opens(a.key, EnvRead(a.pass)) \/ a.pass \in DOMAIN Mangled
      BY <3>1 DEF EnvRead
    <3> QED
      BY <2>1, <2>3, <3>1, <3>2 DEF KeyOpens
  <2> QED
    BY <2>5, <2>6, <2>7, <1>9, <1>10 DEF DeployInv
<1>18. CASE tool = "create" /\ File = "ignore"
  <2>1. wizard.step = 11 /\ Done
    BY <1>18, <1>13
  <2>2. disk' = disk /\ torn' = torn /\ wizard'.step = 0
    BY <2>1, <1>4, <1>12, <1>18
  <2>3. DeployTyped'
    BY <2>2, <1>2, <1>3, <1>5 DEF DeployInv, DeployTyped
  <2>4. EnvOfThisWizard'
    BY <2>2, <1>3, <1>18, PromptsAre DEF EnvOfThisWizard
  <2>5. KeyOpens'
    BY <2>2, <1>2 DEF DeployInv, KeyOpens
  <2> QED
    BY <2>3, <2>4, <2>5, <1>9, <1>10 DEF DeployInv
<1> QED
  BY <1>14, <1>15, <1>16, <1>17, <1>18, <1>13

\* The steps of docker and of the contributor, who write the key and nothing
\* else of the directory.
LEMMA DockerKeeps ==
    ASSUME DeployInv, PlaceKey \/ ComposeUp \/ NodeStarts \/ CoreStarts \/ ComposeDown
    PROVE  DeployInv'
<1>1. /\ tool \in {"create", "local"} /\ disk \in Disk /\ wizard.step \in Nat /\ wizard \in Wizard
      /\ wizard.ans \in Answers /\ wizard.before \in Disk \cup {None}
      /\ wizard = [step |-> wizard.step, ans |-> wizard.ans, before |-> wizard.before]
  BY DeployFacts
<1>2. UNCHANGED <<tool, scaffolds>> /\ UNCHANGED <<Prompts, Writes>>
  BY DEF PlaceKey, ComposeUp, NodeStarts, CoreStarts, ComposeDown, Prompts, Writes
<1> DEFINE Stack == [state : {"down", "starting", "node", "up"}, env : Env \cup {None}]
<1>3. stack \in Stack /\ gateway \in Gateway \cup {None} /\ (gateway # None <=> stack.state = "up")
      /\ (stack.state # "down" => stack.env # None /\ volume # None)
      /\ torn \in BOOLEAN
  BY DEF DeployInv, DeployTyped
<1>4. /\ wizard'.step = wizard.step /\ wizard'.ans = wizard.ans /\ wizard' \in Wizard
      /\ disk'.env = disk.env /\ disk' \in Disk
      => EnvOfThisWizard' /\ AnswersInOrder'
  BY <1>2 DEF DeployInv, EnvOfThisWizard, AnswersInOrder, Opens
<1>5. CASE PlaceKey
  <2>1. PICK file \in KeyFiles : disk' = [disk EXCEPT !.key = file, !.compose = TRUE]
    BY <1>5 DEF PlaceKey
  <2>2. /\ wizard.step = 0 /\ tool = "local"
        /\ UNCHANGED <<wizard, torn, stack, volume, gateway>>
    BY <1>5 DEF PlaceKey, sessionVars
  <2>3. disk' \in Disk /\ disk'.env = disk.env
    BY <2>1, <1>1 DEF Disk, KeyFile
  <2>4. DeployTyped'
    BY <1>2, <2>2, <2>3 DEF DeployInv, DeployTyped
  <2>5. NothingOnCancel' /\ KeyOpens'
    BY <1>2, <2>2 DEF NothingOnCancel, KeyOpens
  <2> QED
    BY <1>1, <1>4, <2>2, <2>3, <2>4, <2>5 DEF DeployInv
<1>6. CASE ComposeUp
  <2>1. /\ disk.env # None
        /\ stack' = [state |-> "starting", env |-> Containers(disk.env)]
        /\ volume' = IF volume = None THEN Credentials(Containers(disk.env)) ELSE volume
        /\ stack.state = "down"
        /\ UNCHANGED <<wizard, disk, torn, gateway>>
    BY <1>6 DEF ComposeUp, sessionVars
  <2>2. Containers(disk.env) \in Env /\ Credentials(Containers(disk.env)) # None
    <3>1. disk.env \in Env
      BY <2>1, <1>1 DEF Disk
    <3> QED
      BY <3>1, SafeReads
  <2>3. stack' \in Stack /\ stack'.state = "starting" /\ stack'.env # None /\ volume' # None
    BY <2>1, <2>2, NotNone
  <2>4. DeployTyped'
    BY <1>2, <1>3, <2>1, <2>3 DEF DeployInv, DeployTyped
  <2>5. NothingOnCancel' /\ KeyOpens'
    BY <1>2, <2>1 DEF DeployInv, NothingOnCancel, KeyOpens
  <2> QED
    BY <1>1, <1>4, <2>1, <2>4, <2>5 DEF DeployInv
<1>7. CASE NodeStarts
  <2> DEFINE key == [raw |-> FALSE, good |-> TRUE, pass |-> stack.env.pass]
  <2>1. /\ disk' = [disk EXCEPT !.key = key]
        /\ stack.state = "starting" /\ stack' = [stack EXCEPT !.state = "node"]
        /\ wizard' = IF wizard.step = 0 THEN wizard ELSE [wizard EXCEPT !.before.key = disk'.key]
        /\ torn' = (torn \/ ~OfThisEnv)
        /\ UNCHANGED <<volume, gateway>>
    BY <1>7 DEF NodeStarts, sessionVars
  <2>2. stack.env \in Env
    BY <1>3, <2>1
  <2>3. key \in KeyFile /\ key # None
    <3>1. stack.env.pass \in Safe
      BY <2>2 DEF Env
    <3>2. key \in [raw : {FALSE}, good : {TRUE}, pass : Safe]
      BY <3>1
    <3> QED
      BY <3>2, NotNone DEF KeyFile
  <2>4. disk' \in Disk /\ disk'.env = disk.env /\ disk'.key = key
    BY <1>1, <2>1, <2>3 DEF Disk
  <2>5. /\ wizard'.step = wizard.step /\ wizard'.ans = wizard.ans /\ wizard' \in Wizard
        /\ wizard.step # 0 => wizard'.before \in Disk
        /\ wizard.step # 0 /\ wizard.before = disk => wizard'.before = disk'
    <3>1. CASE wizard.step = 0
      BY <3>1, <2>1, <1>1
    <3>2. CASE wizard.step # 0
      <4>1. wizard' = [wizard EXCEPT !.before.key = key]
        BY <3>2, <2>1, <2>4
      <4>2. wizard.before \in Disk
        BY <3>2, DeployFacts
      <4>3. [wizard.before EXCEPT !.key = key] \in Disk
        BY <4>2, <2>3 DEF Disk
      <4>4. wizard' = [wizard EXCEPT !.before = [wizard.before EXCEPT !.key = key]]
        BY <4>1
      <4> QED
        BY <4>3, <4>4, <1>1, <2>1 DEF Wizard
    <3> QED
      BY <3>1, <3>2
  <2>6. DeployTyped'
    <3>1. stack' \in Stack /\ stack'.state = "node" /\ stack'.env = stack.env
      BY <1>3, <2>1
    <3> QED
      BY <1>2, <1>3, <2>1, <2>4, <2>5, <3>1 DEF DeployInv, DeployTyped
  <2>7. NothingOnCancel'
    BY <1>2, <2>5 DEF DeployInv, NothingOnCancel
  <2>8. KeyOpens'
    <3> SUFFICES ASSUME ~torn'
                 PROVE  disk'.key # None /\ Opens(disk'.key, EnvRead(disk'.env.pass))
      BY DEF KeyOpens
    <3>1. stack.env = Containers(disk.env) /\ disk.env \in Env
      BY <2>1, <1>1 DEF OfThisEnv, Disk
    <3>2. EnvRead(disk.env.pass) = stack.env.pass
      BY <3>1, SafeReads
    <3> QED
      BY <3>2, <2>3, <2>4 DEF Opens, DecryptKeyFile
  <2> QED
    BY <1>4, <2>4, <2>5, <2>6, <2>7, <2>8 DEF DeployInv
<1>8. CASE CoreStarts
  <2>1. /\ stack.state = "node" /\ stack' = [stack EXCEPT !.state = "up"]
        /\ gateway' = [secret |-> stack.env.session, admin |-> stack.env.admin]
        /\ UNCHANGED <<wizard, disk, torn, volume>>
    BY <1>8 DEF CoreStarts
  <2>2. stack' \in Stack /\ stack'.state = "up" /\ stack'.env = stack.env
    BY <1>3, <2>1
  <2>3. gateway' \in Gateway /\ gateway' # None
    <3>1. stack.env \in Env
      BY <1>3, <2>1
    <3>2. gateway' \in Gateway
      BY <3>1, <2>1 DEF Env, Gateway
    <3> QED
      BY <3>2, NotNone
  <2>4. DeployTyped'
    BY <1>2, <1>3, <2>1, <2>2, <2>3 DEF DeployInv, DeployTyped
  <2>5. NothingOnCancel' /\ KeyOpens'
    BY <1>2, <2>1 DEF DeployInv, NothingOnCancel, KeyOpens
  <2> QED
    BY <1>1, <1>4, <2>1, <2>4, <2>5 DEF DeployInv
<1>9. CASE ComposeDown
  <2>1. /\ stack' = [state |-> "down", env |-> None] /\ gateway' = None
        /\ UNCHANGED <<wizard, disk, torn>>
    BY <1>9 DEF ComposeDown, Down
  <2>2. stack' \in Stack /\ stack'.state = "down"
    BY <2>1
  <2>3. DeployTyped'
    BY <1>2, <1>3, <2>1, <2>2 DEF DeployInv, DeployTyped
  <2>4. NothingOnCancel' /\ KeyOpens'
    BY <1>2, <2>1 DEF DeployInv, NothingOnCancel, KeyOpens
  <2> QED
    BY <1>1, <1>4, <2>1, <2>3, <2>4 DEF DeployInv
<1> QED
  BY <1>5, <1>6, <1>7, <1>8, <1>9

\* What the browser and the gateway do to each other leaves docker alone.
LEMMA SessionLeavesGateway == SessionNext => UNCHANGED gateway
BY DEF SessionNext, HandleSubmit, Visit, SubmitLogin, SubmitLogout, Send, Arrive, AnswerLost,
       Redirect, Page, Logout, LoginReads, LoginCompares, ChangeReads, ChangeWrites, Tick

LEMMA DeployInvNext == DeployInv /\ [Next]_vars => DeployInv'
<1> SUFFICES ASSUME DeployInv, [Next]_vars PROVE DeployInv'
  OBVIOUS
<1>1. CASE UNCHANGED gateway /\ UNCHANGED deploy
  <2>1. UNCHANGED <<gateway, tool, wizard, disk, torn, stack, volume, scaffolds>>
    BY <1>1 DEF deploy
  <2> QED
    BY <2>1 DEF DeployInv, DeployTyped, AnswersInOrder, EnvOfThisWizard, NothingOnCancel, KeyOpens,
                Prompts, Writes, Opens
<1>2. CASE UNCHANGED vars
  BY <1>1, <1>2 DEF vars, sessionVars
<1>3. CASE wizard.step = 0 /\ SessionNext /\ UNCHANGED deploy
  BY <1>1, <1>3, SessionLeavesGateway
<1>4. CASE \/ PromptTargetDir \/ PromptPostgres \/ PromptAdminPassword \/ PromptKeyPath
           \/ PromptPassphrase \/ PromptDomain \/ PromptNamespace
  BY <1>4, PromptsKeep
<1>5. CASE StartWizard \/ Cancel \/ WriteFails
  BY <1>5, BeginOrCancelKeeps, WriteFailsKeeps
<1>6. CASE WriteScaffold
  BY <1>6, WriteKeeps
<1>7. CASE PlaceKey \/ ComposeUp \/ NodeStarts \/ CoreStarts \/ ComposeDown
  BY <1>7, DockerKeeps
<1> QED
  BY <1>2, <1>3, <1>4, <1>5, <1>6, <1>7 DEF Next

-----------------------------------------------------------------------------
(* The session: every step keeps the invariant                             *)

LEMMA QuiescentIs ==
    /\ Quiescent \in Request
    /\ Quiescent.stage = "idle" /\ ~Quiescent.ok /\ ~Quiescent.clear /\ Quiescent.kind = "page"
    /\ Quiescent.token = None /\ Quiescent.set = None
BY DEF Quiescent, Request

LEMMA QuiescentSound == RequestSound(Quiescent)
BY QuiescentIs DEF RequestSound, Aged

LEMMA SessionInvInit == Init => SessionInv
<1> SUFFICES ASSUME Init PROVE SessionInv
  OBVIOUS
<1>1. /\ row = None /\ now = 0 /\ cookie = None /\ req = [t \in Tabs |-> Quiescent]
      /\ hist = [lastOk |-> 0, newest |-> 0, loggedOut |-> FALSE]
  BY DEF Init, SessionInit
<1>2. SessionTyped
  BY <1>1, QuiescentIs, LifetimesAssumption DEF SessionTyped
<1>3. \A t \in Tabs : RequestSound(req[t])
  BY <1>1, QuiescentSound
<1> QED
  BY <1>1, <1>2, <1>3 DEF SessionInv, LoggedOutStays

\* The password in force is always one there is.
LEMMA HashIsPassword ==
    ASSUME SessionTyped, gateway \in Gateway
    PROVE  GetAdminPasswordHash \in Passwords
BY InitialAssumption DEF SessionTyped, GetAdminPasswordHash, Gateway

LEMMA TokenIsToken ==
    ASSUME SessionTyped, gateway \in Gateway
    PROVE  /\ CreateSessionToken \in Token /\ CreateSessionToken # None
           /\ CreateSessionToken.exp = now + TTL
BY LifetimesAssumption, NotNone DEF SessionTyped, Gateway, CreateSessionToken, Token

\* Granting a request keeps every token's age right, and the one it issues, if
\* it has issued one or the newest has long enough to live.
LEMMA UsedKeepsAges ==
    ASSUME SessionTyped, gateway \in Gateway, now' = now,
           NEW x \in {None, CreateSessionToken}, hist' = Used(x),
           x = None => now + THRESHOLD <= hist.newest
    PROVE  /\ hist' \in [lastOk : Nat, newest : Nat, loggedOut : BOOLEAN]
           /\ hist'.newest <= now + TTL /\ hist'.lastOk <= now
           /\ hist'.loggedOut = hist.loggedOut
           /\ hist.newest <= hist'.newest /\ hist'.lastOk + THRESHOLD <= hist'.newest
           /\ x # None => x.exp <= hist'.newest
<1>1. /\ now \in Nat /\ TTL \in Nat /\ THRESHOLD \in Nat /\ TTL > THRESHOLD
      /\ hist \in [lastOk : Nat, newest : Nat, loggedOut : BOOLEAN] /\ hist.newest <= now + TTL
  BY LifetimesAssumption DEF SessionTyped
<1>2. CASE x = None
  <2>1. hist' = [hist EXCEPT !.lastOk = now, !.newest = hist.newest]
    BY <1>2 DEF Used
  <2>2. /\ hist' \in [lastOk : Nat, newest : Nat, loggedOut : BOOLEAN]
        /\ hist'.lastOk = now /\ hist'.newest = hist.newest /\ hist'.loggedOut = hist.loggedOut
    BY <1>1, <2>1
  <2> QED
    BY <1>1, <1>2, <2>2
<1>3. CASE x = CreateSessionToken /\ x # None
  <2>1. x.exp = now + TTL
    BY <1>3, TokenIsToken
  <2>2. hist' = [hist EXCEPT !.lastOk = now, !.newest = now + TTL]
    BY <1>3, <2>1 DEF Used
  <2>3. now + TTL \in Nat
    BY <1>1
  <2>4. /\ hist' \in [lastOk : Nat, newest : Nat, loggedOut : BOOLEAN]
        /\ hist'.lastOk = now /\ hist'.newest = now + TTL /\ hist'.loggedOut = hist.loggedOut
    BY <1>1, <2>2, <2>3
  <2> QED
    BY <1>1, <1>3, <2>1, <2>4
<1> QED
  BY <1>2, <1>3

\* What the middleware adds to a request it lets through.
LEMMA RenewalIs ==
    ASSUME SessionTyped, gateway \in Gateway, NEW t \in Tabs,
           Aged(req[t].token), VerifySessionToken(req[t].token)
    PROVE  /\ req[t].token # None
           /\ Renewal(t) \in {None, CreateSessionToken}
           /\ Renewal(t) = None => now + THRESHOLD <= hist.newest
<1>1. req[t].token # None
  BY DEF VerifySessionToken
<1>2. req[t].token.exp \in Nat /\ req[t].token.exp <= hist.newest
  BY <1>1 DEF SessionTyped, Request, Token, Aged
<1>3. CASE ShouldRefreshSession(req[t].token)
  BY <1>1, <1>3, TokenIsToken DEF Renewal
<1>4. CASE ~ShouldRefreshSession(req[t].token)
  <2>1. now + THRESHOLD <= req[t].token.exp
    BY <1>2, <1>4, LifetimesAssumption DEF ShouldRefreshSession, SessionTyped
  <2>2. now \in Nat /\ hist.newest \in Nat /\ THRESHOLD \in Nat
    BY LifetimesAssumption DEF SessionTyped
  <2> QED
    BY <1>1, <1>2, <1>4, <2>1, <2>2 DEF Renewal
<1> QED
  BY <1>3, <1>4

\* A step of one tab's request that leaves the cookie and the password alone.
LEMMA OneTabKeeps ==
    ASSUME SessionInv, NEW t \in Tabs,
           UNCHANGED <<gateway, row, now, cookie>>,
           NEW r \in Request, req' = [req EXCEPT ![t] = r],
           RequestSound(r)',
           \/ hist' = hist
           \/ /\ hist' \in [lastOk : Nat, newest : Nat, loggedOut : BOOLEAN]
              /\ hist'.newest <= now + TTL /\ hist'.lastOk <= now
              /\ hist'.loggedOut = hist.loggedOut
              /\ hist.newest <= hist'.newest /\ hist'.lastOk + THRESHOLD <= hist'.newest
    PROVE  SessionInv'
<1>1. req \in [Tabs -> Request]
  BY DEF SessionInv, SessionTyped
<1>2. req' \in [Tabs -> Request] /\ req'[t] = r /\ \A s \in Tabs \ {t} : req'[s] = req[s]
  BY <1>1
<1>3. SessionTyped'
  BY <1>2 DEF SessionInv, SessionTyped
<1>4. hist'.loggedOut = hist.loggedOut
  OBVIOUS
<1>5. ASSUME NEW x \in Token \cup {None}, Aged(x)
      PROVE  Aged(x)'
  <2>1. CASE hist' = hist
    BY <2>1, <1>5 DEF Aged
  <2>2. CASE hist' # hist
    <3>1. /\ hist.newest \in Nat /\ hist'.newest \in Nat
          /\ hist.newest <= hist'.newest /\ hist'.lastOk + THRESHOLD <= hist'.newest
      BY <2>2 DEF SessionInv, SessionTyped
    <3>2. x # None => x.exp \in Nat
      BY DEF Token
    <3> QED
      BY <3>1, <3>2, <1>5 DEF Aged
  <2> QED
    BY <2>1, <2>2
<1>6. cookie' # None => Aged(cookie.token)'
  <2>1. cookie # None => cookie.token \in Token \cup {None} /\ Aged(cookie.token)
    BY DEF SessionInv, SessionTyped
  <2> QED
    BY <2>1, <1>5 DEF Aged
<1>7. ASSUME NEW s \in Tabs \ {t}
      PROVE  RequestSound(req[s])'
  <2>1. RequestSound(req[s])
    BY DEF SessionInv
  <2>2. req[s].token \in Token \cup {None} /\ req[s].set \in Token \cup {None}
    BY <1>1 DEF Request
  <2>3. Aged(req[s].token)' /\ Aged(req[s].set)'
    BY <2>1, <2>2, <1>2, <1>5 DEF RequestSound, Aged
  <2> QED
    BY <2>1, <2>3, <1>2, <1>4 DEF RequestSound, GetAdminPasswordHash, Aged
<1>8. LoggedOutStays'
  BY <1>4 DEF SessionInv, LoggedOutStays
<1>9. RequestSound(req[t])'
  BY <1>2 DEF RequestSound, GetAdminPasswordHash, Aged
<1>10. (\A s \in Tabs : RequestSound(req[s]))'
  BY <1>7, <1>9
<1>11. (cookie # None => Aged(cookie.token))'
  BY <1>6
<1> QED
  BY <1>3, <1>8, <1>10, <1>11 DEF SessionInv

\* The browser sends a request: it carries the cookie of the moment.
LEMMA SendKeeps ==
    ASSUME DeployInv, SessionInv, NEW t \in Tabs,
           NEW kind \in {"page", "login", "logout", "change"},
           NEW pw \in Passwords \cup {None}, NEW new \in Passwords \cup {None},
           kind = "change" => new \in Passwords,
           Send(t, kind, pw, new)
    PROVE  SessionInv'
<1> DEFINE token == IF cookie # None /\ now < cookie.until THEN cookie.token ELSE None
           hash == IF row # None THEN row ELSE gateway.admin
<1>1. SessionTyped /\ gateway \in Gateway
  BY DEF DeployInv, DeployTyped, SessionInv, Send
<1>2. token \in Token \cup {None} /\ Aged(token) /\ (hist.loggedOut => token = None)
  BY <1>1 DEF SessionTyped, SessionInv, LoggedOutStays, Aged
<1>3. hash = GetAdminPasswordHash /\ hash \in Passwords
  BY <1>1, HashIsPassword DEF GetAdminPasswordHash
<1> DEFINE q == [Quiescent EXCEPT !.stage = "sent", !.kind = kind, !.pw = pw, !.new = new,
                                  !.token = token, !.seen = {hash}]
<1>4. req' = [req EXCEPT ![t] = q] /\ UNCHANGED <<gateway, row, now, cookie, hist>>
  BY DEF Send
<1> HIDE DEF token, hash
<1>5. /\ q \in Request
      /\ q.stage = "sent" /\ q.kind = kind /\ q.new = new /\ q.token = token /\ q.set = None
      /\ q.seen = {hash} /\ ~q.ok /\ ~q.clear
  BY <1>2, <1>3 DEF Quiescent, Request
<1> HIDE DEF q
<1>6. PICK r \in Request : r = q
  BY <1>5
<1>7. RequestSound(r)'
  BY <1>2, <1>3, <1>4, <1>5, <1>6, NotNone, <1>1 DEF RequestSound, Aged, GetAdminPasswordHash
<1> QED
  BY <1>4, <1>6, <1>7, OneTabKeeps

\* The gateway refuses a request, or grants a page or a logout; or its answer is lost.
LEMMA AnswerKeeps ==
    ASSUME DeployInv, SessionInv, NEW t \in Tabs,
           AnswerLost(t) \/ Redirect(t) \/ Page(t) \/ Logout(t)
    PROVE  SessionInv'
<1>1. SessionTyped /\ req[t] \in Request /\ RequestSound(req[t])
  BY DEF SessionInv, SessionTyped
<1>2. CASE AnswerLost(t)
  <2>1. req' = [req EXCEPT ![t] = Quiescent] /\ UNCHANGED <<gateway, row, now, cookie, hist>>
    BY <1>2 DEF AnswerLost
  <2>2. PICK r \in Request : r = Quiescent
    BY QuiescentIs
  <2>3. RequestSound(r)'
    BY <2>2, QuiescentIs DEF RequestSound, Aged
  <2> QED
    BY <2>1, <2>2, <2>3, OneTabKeeps
<1>3. CASE Redirect(t)
  <2>1. /\ req' = [req EXCEPT ![t] = [req[t] EXCEPT !.stage = "answered", !.clear = TRUE]]
        /\ UNCHANGED <<gateway, row, now, cookie, hist>> /\ req[t].stage = "sent"
    BY <1>3 DEF Redirect, Guarded
  <2>2. PICK r \in Request : r = [req[t] EXCEPT !.stage = "answered", !.clear = TRUE]
    BY <1>1 DEF Request
  <2>3. /\ r.stage = "answered" /\ r.clear /\ r.kind = req[t].kind /\ r.ok = req[t].ok
        /\ r.new = req[t].new /\ r.token = req[t].token /\ r.set = req[t].set /\ r.late = req[t].late
    BY <1>1, <2>2 DEF Request
  <2>4. RequestSound(r)'
    BY <1>1, <2>1, <2>3 DEF RequestSound, Aged
  <2> QED
    BY <2>1, <2>2, <2>4, OneTabKeeps
<1>4. CASE Logout(t)
  <2>1. /\ req' = [req EXCEPT ![t] = [req[t] EXCEPT !.stage = "answered", !.ok = TRUE, !.clear = TRUE]]
        /\ UNCHANGED <<gateway, row, now, cookie, hist>>
        /\ req[t].stage = "sent" /\ req[t].kind = "logout"
    BY <1>4 DEF Logout, Guarded
  <2>2. PICK r \in Request : r = [req[t] EXCEPT !.stage = "answered", !.ok = TRUE, !.clear = TRUE]
    BY <1>1 DEF Request
  <2>3. /\ r.stage = "answered" /\ r.clear /\ r.kind = "logout"
        /\ r.token = req[t].token /\ r.set = req[t].set /\ r.late = req[t].late
    BY <1>1, <2>1, <2>2 DEF Request
  <2>4. RequestSound(r)'
    BY <1>1, <2>1, <2>3 DEF RequestSound, Aged
  <2> QED
    BY <2>1, <2>2, <2>4, OneTabKeeps
<1>5. CASE Page(t)
  <2> DEFINE x == Renewal(t)
  <2>1. /\ req' = [req EXCEPT ![t] = [req[t] EXCEPT !.stage = "answered", !.ok = TRUE, !.set = x]]
        /\ UNCHANGED <<gateway, row, now, cookie>> /\ hist' = Used(x)
        /\ req[t].stage = "sent" /\ req[t].kind = "page" /\ VerifySessionToken(req[t].token)
        /\ gateway # None
    BY <1>5 DEF Page, Guarded
  <2>2. gateway \in Gateway
    BY <2>1 DEF DeployInv, DeployTyped
  <2>3. /\ x \in {None, CreateSessionToken} /\ req[t].token # None
        /\ x = None => now + THRESHOLD <= hist.newest
    BY <1>1, <2>1, <2>2, RenewalIs DEF RequestSound
  <2>4. CreateSessionToken \in Token
    BY <1>1, <2>2, TokenIsToken
  <2> HIDE DEF x
  <2>5. /\ hist' \in [lastOk : Nat, newest : Nat, loggedOut : BOOLEAN]
        /\ hist'.newest <= now + TTL /\ hist'.lastOk <= now
        /\ hist'.loggedOut = hist.loggedOut
        /\ hist.newest <= hist'.newest /\ hist'.lastOk + THRESHOLD <= hist'.newest
        /\ x # None => x.exp <= hist'.newest
    BY <1>1, <2>1, <2>2, <2>3, UsedKeepsAges
  <2>6. PICK r \in Request : r = [req[t] EXCEPT !.stage = "answered", !.ok = TRUE, !.set = x]
    BY <1>1, <2>3, <2>4 DEF Request
  <2>7. /\ r.stage = "answered" /\ r.kind = "page" /\ r.token = req[t].token /\ r.set = x
        /\ r.late = req[t].late
    BY <1>1, <2>1, <2>6 DEF Request
  <2>8. Aged(r.set)'
    BY <2>5, <2>7 DEF Aged
  <2>9. Aged(r.token)'
    <3>1. req[t].token.exp \in Nat /\ hist.newest \in Nat
      BY <1>1, <2>3 DEF Request, Token, SessionTyped
    <3> QED
      BY <1>1, <2>5, <2>7, <3>1 DEF RequestSound, Aged
  <2>10. RequestSound(r)'
    BY <1>1, <2>1, <2>3, <2>5, <2>7, <2>8, <2>9 DEF RequestSound
  <2> QED
    BY <2>1, <2>5, <2>6, <2>10, OneTabKeeps
<1> QED
  BY <1>2, <1>3, <1>4, <1>5

-----------------------------------------------------------------------------

\* login(): the hash is read, and compared after an await.
LEMMA LoginKeeps ==
    ASSUME DeployInv, SessionInv, NEW t \in Tabs,
           LoginReads(t) \/ LoginCompares(t)
    PROVE  SessionInv'
<1>1. SessionTyped /\ req[t] \in Request /\ RequestSound(req[t])
  BY DEF SessionInv, SessionTyped
<1>2. gateway \in Gateway /\ req[t].kind = "login"
  BY DEF DeployInv, DeployTyped, LoginReads, LoginCompares
<1> DEFINE q1 == [req[t] EXCEPT !.stage = "compare", !.hash = GetAdminPasswordHash]
           q2 == [req[t] EXCEPT !.stage = "answered"]
           q3 == [req[t] EXCEPT !.stage = "answered", !.ok = TRUE, !.set = CreateSessionToken]
<1>3. CASE req' = [req EXCEPT ![t] = q1] /\ UNCHANGED <<gateway, row, now, cookie, hist>>
            /\ req[t].stage = "sent"
  <2>1. GetAdminPasswordHash \in Passwords
    BY <1>1, <1>2, HashIsPassword
  <2>2. PICK r \in Request : r = q1
    BY <1>1, <2>1 DEF Request
  <2>3. /\ r.stage = "compare" /\ r.hash = GetAdminPasswordHash /\ r.kind = "login"
        /\ r.ok = req[t].ok /\ r.clear = req[t].clear /\ r.seen = req[t].seen
        /\ r.token = req[t].token /\ r.set = req[t].set
    BY <1>1, <1>2, <2>2 DEF Request
  <2>4. RequestSound(r)'
    BY <1>1, <1>3, <2>3 DEF RequestSound, Aged, GetAdminPasswordHash
  <2> QED
    BY <1>3, <2>2, <2>4, OneTabKeeps
<1>4. CASE req' = [req EXCEPT ![t] = q2] /\ UNCHANGED <<gateway, row, now, cookie, hist>>
            /\ req[t].stage \in {"sent", "compare"}
  <2>1. PICK r \in Request : r = q2
    BY <1>1 DEF Request
  <2>2. /\ r.stage = "answered" /\ r.kind = "login" /\ r.ok = req[t].ok
        /\ r.token = req[t].token /\ r.set = req[t].set
    BY <1>1, <1>2, <2>1 DEF Request
  <2>3. RequestSound(r)'
    BY <1>1, <1>4, <2>2 DEF RequestSound, Aged
  <2> QED
    BY <1>4, <2>1, <2>3, OneTabKeeps
<1>5. CASE /\ req' = [req EXCEPT ![t] = q3] /\ UNCHANGED <<gateway, row, now, cookie>>
           /\ hist' = Used(CreateSessionToken) /\ req[t].stage = "compare"
           /\ req[t].pw = req[t].hash
  <2> DEFINE x == CreateSessionToken
  <2>1. x \in Token /\ x # None
    BY <1>1, <1>2, TokenIsToken
  <2>2. /\ hist' \in [lastOk : Nat, newest : Nat, loggedOut : BOOLEAN]
        /\ hist'.newest <= now + TTL /\ hist'.lastOk <= now
        /\ hist'.loggedOut = hist.loggedOut
        /\ hist.newest <= hist'.newest /\ hist'.lastOk + THRESHOLD <= hist'.newest
        /\ x # None => x.exp <= hist'.newest
    BY <1>1, <1>2, <1>5, <2>1, UsedKeepsAges
  <2>3. req' = [req EXCEPT ![t] = [req[t] EXCEPT !.stage = "answered", !.ok = TRUE, !.set = x]]
    BY <1>5
  <2> HIDE DEF x
  <2>4. PICK r \in Request : r = [req[t] EXCEPT !.stage = "answered", !.ok = TRUE, !.set = x]
    BY <1>1, <2>1 DEF Request
  <2>5. /\ r.stage = "answered" /\ r.kind = "login" /\ r.token = req[t].token /\ r.set = x
        /\ r.pw = req[t].pw /\ r.seen = req[t].seen
    BY <1>1, <1>2, <2>4 DEF Request
  <2>6. Aged(r.set)'
    BY <2>2, <2>5 DEF Aged
  <2>7. Aged(r.token)'
    <3>1. r.token # None => r.token.exp \in Nat
      BY <1>1, <2>5 DEF Request, Token
    <3>2. hist.newest \in Nat
      BY <1>1 DEF SessionTyped
    <3> QED
      BY <1>1, <2>2, <2>5, <3>1, <3>2 DEF RequestSound, Aged
  <2>8. RequestSound(r)'
    BY <1>1, <1>5, <2>5, <2>6, <2>7 DEF RequestSound
  <2> QED
    BY <1>5, <2>2, <2>3, <2>4, <2>8, OneTabKeeps
<1> QED
  BY <1>3, <1>4, <1>5 DEF LoginReads, LoginCompares

\* changePassword() reads: it has been let through, and its token perhaps renewed.
LEMMA ChangeReadsKeeps ==
    ASSUME DeployInv, SessionInv, NEW t \in Tabs, ChangeReads(t)
    PROVE  SessionInv'
<1> DEFINE x == Renewal(t)
           h == GetAdminPasswordHash
<1>1. SessionTyped /\ req[t] \in Request /\ RequestSound(req[t])
  BY DEF SessionInv, SessionTyped
<1>2. /\ gateway \in Gateway /\ req[t].kind = "change" /\ req[t].stage = "sent"
      /\ VerifySessionToken(req[t].token)
      /\ UNCHANGED <<gateway, row, now, cookie>> /\ hist' = Used(x)
  BY DEF DeployInv, DeployTyped, ChangeReads, Guarded
<1>3. /\ x \in {None, CreateSessionToken} /\ req[t].token # None
      /\ x = None => now + THRESHOLD <= hist.newest
  BY <1>1, <1>2, RenewalIs DEF RequestSound
<1>4. CreateSessionToken \in Token /\ h \in Passwords
  BY <1>1, <1>2, TokenIsToken, HashIsPassword
<1>5. \/ req' = [req EXCEPT ![t] = [req[t] EXCEPT !.stage = "answered", !.set = x]]
      \/ req' = [req EXCEPT ![t] = [req[t] EXCEPT !.stage = "compare", !.hash = h, !.set = x]]
  BY DEF ChangeReads
<1>6. h' = h
  BY <1>2 DEF GetAdminPasswordHash
<1> HIDE DEF x, h
<1>7. /\ hist' \in [lastOk : Nat, newest : Nat, loggedOut : BOOLEAN]
      /\ hist'.newest <= now + TTL /\ hist'.lastOk <= now
      /\ hist'.loggedOut = hist.loggedOut
      /\ hist.newest <= hist'.newest /\ hist'.lastOk + THRESHOLD <= hist'.newest
      /\ x # None => x.exp <= hist'.newest
  BY <1>1, <1>2, <1>3, UsedKeepsAges
<1>8. PICK r \in Request :
        /\ req' = [req EXCEPT ![t] = r]
        /\ r.kind = req[t].kind /\ r.ok = req[t].ok /\ r.clear = req[t].clear /\ r.new = req[t].new
        /\ r.seen = req[t].seen /\ r.token = req[t].token /\ r.late = req[t].late
        /\ r.set = x
        /\ r.stage = "answered" \/ (r.stage = "compare" /\ r.hash = h)
  <2> DEFINE q1 == [req[t] EXCEPT !.stage = "answered", !.set = x]
             q2 == [req[t] EXCEPT !.stage = "compare", !.hash = h, !.set = x]
  <2>1. /\ q1 \in Request
        /\ q1.kind = req[t].kind /\ q1.ok = req[t].ok /\ q1.clear = req[t].clear /\ q1.new = req[t].new
        /\ q1.seen = req[t].seen /\ q1.token = req[t].token /\ q1.late = req[t].late
        /\ q1.set = x /\ q1.stage = "answered"
    BY <1>1, <1>3, <1>4 DEF Request
  <2>2. /\ q2 \in Request
        /\ q2.kind = req[t].kind /\ q2.ok = req[t].ok /\ q2.clear = req[t].clear /\ q2.new = req[t].new
        /\ q2.seen = req[t].seen /\ q2.token = req[t].token /\ q2.late = req[t].late
        /\ q2.set = x /\ q2.stage = "compare" /\ q2.hash = h
    BY <1>1, <1>3, <1>4 DEF Request
  <2>3. req' = [req EXCEPT ![t] = q1] \/ req' = [req EXCEPT ![t] = q2]
    BY <1>5
  <2> HIDE DEF q1, q2
  <2>4. CASE req' = [req EXCEPT ![t] = q1]
    <3> QED
      BY <2>1, <2>4
  <2>5. CASE req' = [req EXCEPT ![t] = q2]
    <3> QED
      BY <2>2, <2>5
  <2> QED
    BY <2>3, <2>4, <2>5
<1>9. Aged(r.set)'
  BY <1>7, <1>8 DEF Aged
<1>10. Aged(r.token)'
  <2>1. req[t].token.exp \in Nat /\ hist.newest \in Nat
    BY <1>1, <1>3 DEF Request, Token, SessionTyped
  <2> QED
    BY <1>1, <1>7, <1>8, <2>1 DEF RequestSound, Aged
<1>11. RequestSound(r)'
  <2>1. h \in r.seen
    BY <1>1, <1>2, <1>8 DEF RequestSound, h
  <2>2. gateway' # None /\ GetAdminPasswordHash' \in r.seen
    BY <1>1, <1>2, <1>6, <2>1 DEF RequestSound, h
  <2>3. ~r.ok /\ ~r.clear
    BY <1>1, <1>2, <1>8 DEF RequestSound
  <2>4. hist'.loggedOut /\ ~r.late => FALSE
    BY <1>1, <1>2, <1>3, <1>7, <1>8 DEF RequestSound
  <2>5. r.kind = "change" /\ r.new \in Passwords
    BY <1>1, <1>2, <1>8 DEF RequestSound
  <2> QED
    BY <1>8, <1>9, <1>10, <2>1, <2>2, <2>3, <2>4, <2>5 DEF RequestSound
<1> QED
  BY <1>2, <1>7, <1>8, <1>11, OneTabKeeps

\* changePassword() writes, if what it was given is what it read.
LEMMA ChangeWritesKeeps ==
    ASSUME DeployInv, SessionInv, NEW t \in Tabs, ChangeWrites(t)
    PROVE  SessionInv'
<1>1. SessionTyped /\ req \in [Tabs -> Request] /\ \A s \in Tabs : req[s] \in Request /\ RequestSound(req[s])
  BY DEF SessionInv, SessionTyped
<1>2. /\ gateway # None /\ req[t].kind = "change" /\ req[t].stage = "compare"
      /\ UNCHANGED <<gateway, now, cookie, hist>>
  BY DEF ChangeWrites
<1> DEFINE q == [req[t] EXCEPT !.stage = "answered"]
           new == req[t].new
<1>3. CASE req' = [req EXCEPT ![t] = q] /\ UNCHANGED row
  <2>1. PICK r \in Request : r = q
    BY <1>1 DEF Request
  <2>2. /\ r.stage = "answered" /\ r.kind = "change" /\ r.ok = req[t].ok /\ r.new = req[t].new
        /\ r.token = req[t].token /\ r.set = req[t].set /\ r.late = req[t].late
    BY <1>1, <1>2, <2>1 DEF Request
  <2>3. RequestSound(r)'
    BY <1>1, <1>2, <2>2 DEF RequestSound, Aged
  <2> QED
    BY <1>2, <1>3, <2>1, <2>3, OneTabKeeps
<1>4. CASE /\ req[t].pw = req[t].hash /\ row' = new
           /\ req' = [s \in Tabs |->
                       IF s = t THEN [req[s] EXCEPT !.stage = "answered", !.ok = TRUE]
                       ELSE [req[s] EXCEPT !.seen = @ \cup {new}]]
  <2>1. new \in Passwords /\ new # None
    BY <1>1, <1>2, PasswordsAssumption DEF RequestSound
  <2>2. GetAdminPasswordHash' = new
    BY <1>4, <2>1 DEF GetAdminPasswordHash
  <2>3. /\ req'[t] = [req[t] EXCEPT !.stage = "answered", !.ok = TRUE]
        /\ req'[t] \in Request
        /\ req'[t].stage = "answered" /\ req'[t].kind = "change" /\ req'[t].new = new
        /\ req'[t].pw = req[t].hash /\ req'[t].seen = req[t].seen
        /\ req'[t].token = req[t].token /\ req'[t].set = req[t].set /\ req'[t].late = req[t].late
    BY <1>1, <1>2, <1>4 DEF Request
  <2>4. ASSUME NEW s \in Tabs \ {t}
        PROVE  /\ req'[s] \in Request
               /\ req'[s].stage = req[s].stage /\ req'[s].kind = req[s].kind
               /\ req'[s].pw = req[s].pw /\ req'[s].new = req[s].new /\ req'[s].hash = req[s].hash
               /\ req'[s].ok = req[s].ok /\ req'[s].clear = req[s].clear
               /\ req'[s].token = req[s].token /\ req'[s].set = req[s].set
               /\ req'[s].late = req[s].late /\ req'[s].seen = req[s].seen \cup {new}
    <3>1. req'[s] = [req[s] EXCEPT !.seen = req[s].seen \cup {new}]
      BY <1>4
    <3>2. req[s] \in Request /\ req[s].seen \cup {new} \in SUBSET Passwords
      BY <1>1, <2>1 DEF Request
    <3> QED
      BY <3>1, <3>2 DEF Request
  <2>5. req' \in [Tabs -> Request]
    <3>1. \A s \in Tabs : req'[s] \in Request
      BY <2>3, <2>4
    <3>2. req' = [s \in Tabs |-> req'[s]]
      BY <1>4
    <3> QED
      BY <3>1, <3>2
  <2>6. SessionTyped'
    BY <1>1, <1>2, <1>4, <2>1, <2>5 DEF SessionTyped
  <2>7. RequestSound(req[t])'
    BY <1>1, <1>2, <1>4, <2>1, <2>3 DEF RequestSound, Aged
  <2>8. ASSUME NEW s \in Tabs \ {t}
        PROVE  RequestSound(req[s])'
    <3>1. RequestSound(req[s])
      BY <1>1
    <3> QED
      BY <1>2, <2>2, <2>4, <3>1 DEF RequestSound, Aged
  <2>9. (\A s \in Tabs : RequestSound(req[s]))'
    BY <2>7, <2>8
  <2> QED
    BY <1>2, <2>6, <2>9 DEF SessionInv, LoggedOutStays, Aged
<1> QED
  BY <1>3, <1>4 DEF ChangeWrites

\* An answer arrives and sets, clears or leaves the cookie.
LEMMA ArriveKeeps ==
    ASSUME DeployInv, SessionInv, NEW t \in Tabs, Arrive(t)
    PROVE  SessionInv'
<1> DEFINE r == req[t]
           out == r.kind = "logout" /\ r.ok
<1>1. /\ SessionTyped /\ req \in [Tabs -> Request]
      /\ \A s \in Tabs : req[s] \in Request /\ RequestSound(req[s])
      /\ hist \in [lastOk : Nat, newest : Nat, loggedOut : BOOLEAN]
  BY DEF SessionInv, SessionTyped
<1>2. /\ r.stage = "answered" /\ UNCHANGED <<gateway, row, now>>
      /\ cookie' = IF r.clear THEN None
                   ELSE IF r.set # None THEN [token |-> r.set, until |-> now + TTL]
                   ELSE cookie
      /\ hist' = [hist EXCEPT !.loggedOut =
                    IF out THEN TRUE ELSE @ /\ (r.set = None \/ ~(r.late \/ r.kind = "login"))]
      /\ req' = [s \in Tabs |-> IF s = t THEN Quiescent
                                ELSE [req[s] EXCEPT !.late = @ \/ (out /\ req[s].stage # "idle")]]
  BY DEF Arrive
<1>3. /\ hist' \in [lastOk : Nat, newest : Nat, loggedOut : BOOLEAN]
      /\ hist'.lastOk = hist.lastOk /\ hist'.newest = hist.newest
      /\ hist'.loggedOut = IF out THEN TRUE
                           ELSE hist.loggedOut /\ (r.set = None \/ ~(r.late \/ r.kind = "login"))
  BY <1>1, <1>2
<1>4. cookie' \in [token : Token, until : Nat] \cup {None}
  <2>1. r.set \in Token \cup {None} /\ now + TTL \in Nat
    BY <1>1, LifetimesAssumption DEF Request, SessionTyped
  <2> QED
    BY <1>1, <1>2, <2>1 DEF SessionTyped
<1>5. ASSUME NEW s \in Tabs \ {t}
      PROVE  /\ req'[s] \in Request
             /\ req'[s].stage = req[s].stage /\ req'[s].kind = req[s].kind
             /\ req'[s].pw = req[s].pw /\ req'[s].new = req[s].new /\ req'[s].hash = req[s].hash
             /\ req'[s].ok = req[s].ok /\ req'[s].clear = req[s].clear
             /\ req'[s].token = req[s].token /\ req'[s].set = req[s].set
             /\ req'[s].seen = req[s].seen
             /\ req'[s].late = (req[s].late \/ (out /\ req[s].stage # "idle"))
  <2> DEFINE l == req[s].late \/ (out /\ req[s].stage # "idle")
  <2>1. req'[s] = [req[s] EXCEPT !.late = l]
    BY <1>2
  <2>2. l \in BOOLEAN
    OBVIOUS
  <2> HIDE DEF l
  <2>3. req[s] \in Request
    BY <1>1
  <2>4. /\ req'[s] \in Request
        /\ req'[s].stage = req[s].stage /\ req'[s].kind = req[s].kind
        /\ req'[s].pw = req[s].pw /\ req'[s].new = req[s].new /\ req'[s].hash = req[s].hash
        /\ req'[s].ok = req[s].ok /\ req'[s].clear = req[s].clear
        /\ req'[s].token = req[s].token /\ req'[s].set = req[s].set
        /\ req'[s].seen = req[s].seen
        /\ req'[s].late = l
    BY <2>1, <2>2, <2>3 DEF Request
  <2> QED
    BY <2>4 DEF l
<1>6. req'[t] = Quiescent
  BY <1>2
<1>7. req' \in [Tabs -> Request]
  <2>1. \A s \in Tabs : req'[s] \in Request
    BY <1>5, <1>6, QuiescentIs
  <2>2. req' = [s \in Tabs |-> req'[s]]
    BY <1>2
  <2> QED
    BY <2>1, <2>2
<1>8. SessionTyped'
  BY <1>1, <1>2, <1>3, <1>4, <1>7 DEF SessionTyped
<1> HIDE DEF out
<1>9. RequestSound(req[t])'
  BY <1>6, QuiescentIs DEF RequestSound, Aged
<1>10. ASSUME NEW s \in Tabs \ {t}
       PROVE  RequestSound(req[s])'
  <2>1. RequestSound(req[s])
    BY <1>1
  <2>2. hist'.loggedOut /\ ~out => hist.loggedOut
    BY <1>3
  <2> QED
    <3>1. UNCHANGED <<gateway, row>> /\ hist'.lastOk = hist.lastOk /\ hist'.newest = hist.newest
      BY <1>2, <1>3
    <3>2. /\ Aged(req[s].token) /\ Aged(req[s].set)
          /\ req'[s].token = req[s].token /\ req'[s].set = req[s].set
      BY <1>5, <2>1 DEF RequestSound
    <3>3. Aged(req[s].token)' /\ Aged(req[s].set)'
      BY <3>1, <3>2 DEF Aged
    <3>4. GetAdminPasswordHash' = GetAdminPasswordHash
      BY <3>1 DEF GetAdminPasswordHash
    <3>5. hist'.loggedOut /\ req'[s].stage # "idle" /\ ~req'[s].late /\ req'[s].kind # "login" =>
            req'[s].token = None /\ req'[s].set = None
      BY <1>5, <2>1, <2>2 DEF RequestSound
    <3>6. /\ req'[s].stage \in {"idle", "sent", "compare"} => ~req'[s].ok /\ ~req'[s].clear
          /\ req'[s].stage \in {"sent", "compare"} =>
               gateway' # None /\ GetAdminPasswordHash' \in req'[s].seen
          /\ req'[s].stage = "compare" => req'[s].hash \in req'[s].seen
      BY <1>5, <2>1, <3>1, <3>4 DEF RequestSound
    <3>7. /\ req'[s].kind = "change" => req'[s].new \in Passwords
          /\ req'[s].kind = "logout" /\ req'[s].ok => req'[s].clear
          /\ req'[s].kind \in {"login", "change"} /\ req'[s].ok => req'[s].pw \in req'[s].seen
      BY <1>5, <2>1 DEF RequestSound
    <3> QED
      BY <3>3, <3>5, <3>6, <3>7 DEF RequestSound
<1>11. (\A s \in Tabs : RequestSound(req[s]))'
  BY <1>9, <1>10
<1>12. (cookie # None => Aged(cookie.token))'
  <2> SUFFICES ASSUME cookie' # None PROVE Aged(cookie.token)'
    OBVIOUS
  <2>1. CASE cookie' = cookie
    BY <2>1, <1>3 DEF SessionInv, Aged
  <2>2. CASE r.set # None /\ cookie' = [token |-> r.set, until |-> now + TTL]
    <3>1. cookie'.token = r.set /\ Aged(r.set)
      BY <2>2, <1>1 DEF RequestSound
    <3> QED
      BY <3>1, <1>3 DEF Aged
  <2> QED
    BY <2>1, <2>2, <1>2
<1>13. LoggedOutStays'
  <2> SUFFICES ASSUME hist'.loggedOut PROVE cookie' = None
    BY DEF LoggedOutStays
  <2>1. CASE out
    BY <2>1, <1>1, <1>2 DEF RequestSound, out
  <2>2. CASE ~out
    <3>1. hist.loggedOut /\ (r.set = None \/ ~(r.late \/ r.kind = "login")) /\ cookie = None
      BY <2>2, <1>3 DEF SessionInv, LoggedOutStays
    <3>2. r.set = None
      BY <3>1, <1>1, <1>2 DEF RequestSound
    <3> QED
      BY <3>1, <3>2, <1>2
  <2> QED
    BY <2>1, <2>2
<1> QED
  BY <1>8, <1>11, <1>12, <1>13 DEF SessionInv

\* Time passes.
LEMMA TickKeeps ==
    ASSUME SessionInv, Tick
    PROVE  SessionInv'
<1>1. UNCHANGED <<gateway, row, cookie, req, hist>> /\ now' = now + 1
  BY DEF Tick
<1>2. SessionTyped'
  <2>1. /\ now \in Nat /\ TTL \in Nat /\ hist.newest \in Nat /\ hist.lastOk \in Nat
        /\ hist.newest <= now + TTL /\ hist.lastOk <= now
    BY LifetimesAssumption DEF SessionInv, SessionTyped
  <2>2. now' \in Nat /\ hist.newest <= now' + TTL /\ hist.lastOk <= now'
    BY <1>1, <2>1
  <2> QED
    BY <1>1, <2>2 DEF SessionInv, SessionTyped
<1> QED
  BY <1>1, <1>2 DEF SessionInv, RequestSound, Aged, LoggedOutStays, GetAdminPasswordHash

\* The gateway starts, when no request is under way, and stops, which loses them.
LEMMA StopAndStartKeep ==
    ASSUME DeployInv, SessionInv, CoreStarts \/ ComposeDown
    PROVE  SessionInv'
<1>1. /\ SessionTyped /\ req \in [Tabs -> Request]
      /\ \A s \in Tabs : req[s] \in Request /\ RequestSound(req[s])
  BY DEF SessionInv, SessionTyped
<1>2. CASE CoreStarts
  <2>1. UNCHANGED <<row, now, cookie, req, hist>> /\ gateway = None
    BY <1>2 DEF CoreStarts, session, DeployInv, DeployTyped
  <2>2. ASSUME NEW s \in Tabs
        PROVE  RequestSound(req[s])'
    <3>1. RequestSound(req[s]) /\ req[s].stage \notin {"sent", "compare"}
      BY <1>1, <2>1 DEF RequestSound
    <3> QED
      BY <2>1, <3>1 DEF RequestSound, Aged
  <2>3. SessionTyped'
    BY <2>1, <1>1 DEF SessionTyped
  <2>4. (\A s \in Tabs : RequestSound(req[s]))'
    BY <2>1, <2>2
  <2> QED
    BY <2>1, <2>3, <2>4 DEF SessionInv, Aged, LoggedOutStays
<1>3. CASE ComposeDown
  <2>1. /\ UNCHANGED <<now, cookie, hist>> /\ row' \in {row, None}
        /\ req' = [t \in Tabs |-> IF req[t].stage = "answered" THEN req[t] ELSE Quiescent]
    BY <1>3 DEF ComposeDown, DropRequests
  <2>2. ASSUME NEW s \in Tabs
        PROVE  RequestSound(req[s])'
    <3>1. CASE req[s].stage = "answered"
      <4>1. req'[s] = req[s] /\ RequestSound(req[s])
        BY <1>1, <2>1, <3>1
      <4> QED
        BY <2>1, <3>1, <4>1 DEF RequestSound, Aged
    <3>2. CASE req[s].stage # "answered"
      <4>1. req'[s] = Quiescent
        BY <2>1, <3>2
      <4> QED
        BY <4>1, QuiescentIs DEF RequestSound, Aged
    <3> QED
      BY <3>1, <3>2
  <2>3. SessionTyped'
    <3>1. req' \in [Tabs -> Request]
      BY <1>1, <2>1, QuiescentIs
    <3> QED
      BY <1>1, <2>1, <3>1 DEF SessionTyped
  <2>4. (\A s \in Tabs : RequestSound(req[s]))'
    BY <2>2
  <2> QED
    BY <2>1, <2>3, <2>4 DEF SessionInv, Aged, LoggedOutStays
<1> QED
  BY <1>2, <1>3

LEMMA SessionInvNext == DeployInv /\ SessionInv /\ [Next]_vars => SessionInv'
<1> SUFFICES ASSUME DeployInv, SessionInv, [Next]_vars PROVE SessionInv'
  OBVIOUS
<1>1. CASE UNCHANGED <<gateway, row, now, cookie, req, hist>>
  BY <1>1 DEF SessionInv, SessionTyped, RequestSound, Aged, LoggedOutStays, GetAdminPasswordHash
<1>2. ASSUME NEW t \in Tabs, HandleSubmit(t) PROVE SessionInv'
  <2>1. PICK pw \in Passwords, new \in Passwords : Send(t, "change", pw, new)
    BY <1>2 DEF HandleSubmit
  <2> QED
    BY <2>1, SendKeeps
<1>3. ASSUME NEW t \in Tabs, Visit(t) \/ SubmitLogout(t) PROVE SessionInv'
  <2>1. Send(t, "page", None, None) \/ Send(t, "logout", None, None)
    BY <1>3 DEF Visit, SubmitLogout
  <2>2. CASE Send(t, "page", None, None)
    BY <2>2, SendKeeps
  <2>3. CASE Send(t, "logout", None, None)
    BY <2>3, SendKeeps
  <2> QED
    BY <2>1, <2>2, <2>3
<1>4. ASSUME NEW t \in Tabs, SubmitLogin(t) PROVE SessionInv'
  <2>1. PICK pw \in Passwords : Send(t, "login", pw, None)
    BY <1>4 DEF SubmitLogin
  <2> QED
    BY <2>1, SendKeeps
<1>5. CASE SessionNext
  BY <1>2, <1>3, <1>4, <1>5, ArriveKeeps, AnswerKeeps, LoginKeeps, ChangeReadsKeeps,
     ChangeWritesKeeps, TickKeeps DEF SessionNext
<1>6. CASE CoreStarts \/ ComposeDown
  BY <1>6, StopAndStartKeep
<1>7. CASE PromptTargetDir \/ PromptPostgres \/ PromptAdminPassword \/ PromptKeyPath
           \/ PromptPassphrase \/ PromptDomain \/ PromptNamespace
  <2>1. UNCHANGED sessionVars
    BY <1>7 DEF PromptTargetDir, PromptPostgres, PromptAdminPassword, PromptKeyPath,
                PromptPassphrase, PromptDomain, PromptNamespace, AskSecretValue, Given, Interview
  <2> QED
    BY <1>1, <2>1 DEF sessionVars, session
<1>8. CASE StartWizard \/ Cancel \/ WriteScaffold \/ PlaceKey \/ ComposeUp \/ NodeStarts
  <2>1. UNCHANGED sessionVars
    BY <1>8 DEF StartWizard, Cancel, WriteScaffold, PlaceKey, ComposeUp, NodeStarts
  <2> QED
    BY <1>1, <2>1 DEF sessionVars, session
<1>9. CASE WriteFails
  BY <1>1, <1>9 DEF WriteFails
<1>10. CASE UNCHANGED vars
  BY <1>1, <1>10 DEF vars, sessionVars, session
<1> QED
  BY <1>5, <1>6, <1>7, <1>8, <1>9, <1>10 DEF Next

\* Both hold in every reachable state.
LEMMA Invariants == Spec => [](DeployInv /\ SessionInv)
<1>1. Init => DeployInv /\ SessionInv
  BY DeployInvInit, SessionInvInit
<1>2. DeployInv /\ SessionInv /\ [Next]_vars => (DeployInv /\ SessionInv)'
  BY DeployInvNext, SessionInvNext
<1> QED
  BY <1>1, <1>2, PTL DEF Spec

-----------------------------------------------------------------------------
(* What follows                                                            *)

\* The shape of the state: passwords are passwords, no admin password in .env is
\* longer than bcrypt reads, and the gateway runs when the stack is up.
THEOREM TypeCorrect == Spec => []TypeOK
<1>1. DeployInv /\ SessionInv => TypeOK
  <2> SUFFICES ASSUME DeployInv, SessionInv PROVE TypeOK
    OBVIOUS
  <2>1. SessionTypeOK
    <3>1. SessionTyped /\ gateway \in Gateway \cup {None}
      BY DEF SessionInv, DeployInv, DeployTyped
    <3>2. gateway # None => gateway.admin \in Passwords
      BY <3>1, InitialAssumption DEF Gateway
    <3>3. ASSUME NEW t \in Tabs
          PROVE  /\ req[t] \in Request
                 /\ req[t].stage = "compare" => req[t].hash \in req[t].seen
      BY <3>1 DEF SessionInv, SessionTyped, RequestSound
    <3>4. ASSUME NEW t \in Tabs
          PROVE  /\ req[t].stage \in {"idle", "sent", "compare", "answered"}
                 /\ req[t].kind \in {"page", "login", "logout", "change"}
                 /\ req[t].seen \subseteq Passwords
                 /\ req[t].stage = "compare" => req[t].hash \in Passwords
      BY <3>3 DEF Request
    <3> QED
      BY <3>1, <3>2, <3>4 DEF SessionTypeOK, SessionTyped
  <2>2. wizard.step \in 0..(Len(Prompts) + Len(Writes))
    <3>1. Len(Prompts) \in Nat /\ Len(Writes) \in Nat
      BY DEF Prompts, Writes
    <3> QED
      BY <3>1, DeployFacts
  <2>3. DeployTyped /\ disk \in Disk
    BY DEF DeployInv, DeployTyped
  <2>4. disk.compose \in BOOLEAN /\ (disk.env # None => disk.env.admin \in Passwords \ Long)
    BY <2>3, InitialAssumption DEF Disk, Env
  <2>5. /\ torn \in BOOLEAN /\ stack.state \in {"down", "starting", "node", "up"}
        /\ stack.state # "down" => volume # None
        /\ (gateway # None) = (stack.state = "up")
    BY <2>3 DEF DeployTyped
  <2> QED
    BY <2>1, <2>2, <2>4, <2>5 DEF TypeOK
<1> QED
  BY <1>1, Invariants, PTL

\* A wizard that is cancelled has written nothing; the key of a scaffolded directory
\* opens with what a container reads of its .env, or else the passphrase is one that
\* .env does not keep; and the core reaches data of its own credentials, or else one
\* of them has a character that the wizard does not refuse.
THEOREM DirectorySoundHolds == Spec => []DirectorySound
<1>1. DeployInv => DirectorySound
  <2> SUFFICES ASSUME DeployInv PROVE FreshStackComesUp
    BY DEF DeployInv, DirectorySound
  <2>1. /\ disk \in Disk /\ KeyOpens
        /\ stack \in [state : {"down", "starting", "node", "up"}, env : Env \cup {None}]
        /\ stack.state # "down" => stack.env \in Env
    BY DEF DeployInv, DeployTyped
  <2>2. ASSUME tool = "create", ~torn, OfThisEnv, disk.env.pass \notin DOMAIN Mangled
        PROVE  Opens(disk.key, stack.env.pass)
    <3>1. disk.env \in Env /\ disk.env # None /\ stack.env = Containers(disk.env)
      BY <2>1, <2>2 DEF OfThisEnv, Disk
    <3>2. stack.env.pass = EnvRead(disk.env.pass)
      BY <3>1, SafeReads
    <3> QED
      BY <2>1, <2>2, <3>1, <3>2 DEF KeyOpens
  <2>3. ASSUME stack.state # "down", Credentials(stack.env) = volume, ~Connects
        PROVE  stack.env.names \in Splitting \/ stack.env.pg \in Splitting \ Refused
    <3>1. stack.env.pg \notin Refused
      BY <2>1, <2>3 DEF Env, Safe, ValidateSecretChars
    <3> QED
      BY <2>3, <3>1 DEF Connects
  <2> QED
    BY <2>2, <2>3 DEF FreshStackComesUp
<1> QED
  BY <1>1, Invariants, PTL

\* Whoever got a session or changed the password gave one that was in force during
\* the request, and after a logout the cookie is gone.
THEOREM SessionsSoundHolds == Spec => []SessionsSound
<1>1. SessionInv => SessionsSound
  BY DEF SessionInv, SessionsSound, KnewThePassword, RequestSound
<1> QED
  BY <1>1, Invariants, PTL

\* Only the middleware's redirect tells a waiting request to drop the cookie
\* without granting it anything.
LEMMA OnlyRedirectDrops ==
    ASSUME SessionInv, Next, NEW t \in Tabs, req[t].stage = "sent",
           req'[t].clear, ~req'[t].ok
    PROVE  ~VerifySessionToken(req[t].token)
<1>1. req \in [Tabs -> Request] /\ req[t] \in Request /\ ~req[t].clear
  BY DEF SessionInv, SessionTyped, RequestSound
<1>2. req'[t] # req[t] /\ req'[t] # Quiescent
  BY <1>1, QuiescentIs
<1>3. CASE CoreStarts \/ ComposeDown
  BY <1>2, <1>3 DEF CoreStarts, ComposeDown, DropRequests, session
<1>4. CASE StartWizard \/ Cancel \/ WriteScaffold \/ WriteFails \/ PlaceKey \/ ComposeUp \/ NodeStarts
  BY <1>2, <1>4 DEF StartWizard, Cancel, WriteScaffold, WriteFails, PlaceKey, ComposeUp,
                    NodeStarts, sessionVars, session
<1>5. CASE PromptTargetDir \/ PromptPostgres \/ PromptAdminPassword \/ PromptKeyPath
           \/ PromptPassphrase \/ PromptDomain \/ PromptNamespace
  <2>1. UNCHANGED sessionVars
    BY <1>5 DEF PromptTargetDir, PromptPostgres, PromptAdminPassword, PromptKeyPath,
                PromptPassphrase, PromptDomain, PromptNamespace, AskSecretValue, Given, Interview
  <2> QED
    BY <1>2, <2>1 DEF sessionVars, session
<1>6. CASE SessionNext
  <2>1. ~Tick
    BY <1>2 DEF Tick
  <2>2. PICK s \in Tabs :
          \/ HandleSubmit(s) \/ Visit(s) \/ SubmitLogin(s) \/ SubmitLogout(s)
          \/ Arrive(s) \/ AnswerLost(s)
          \/ Redirect(s) \/ Page(s) \/ Logout(s)
          \/ LoginReads(s) \/ LoginCompares(s)
          \/ ChangeReads(s) \/ ChangeWrites(s)
    BY <1>2, <1>6, <2>1 DEF SessionNext
  <2>3. CASE s = t
    <3>1. CASE HandleSubmit(s) \/ Visit(s) \/ SubmitLogin(s) \/ SubmitLogout(s)
               \/ Arrive(s) \/ AnswerLost(s) \/ LoginCompares(s) \/ ChangeWrites(s)
      BY <2>3, <3>1 DEF HandleSubmit, Visit, SubmitLogin, SubmitLogout, Send, Arrive, AnswerLost,
                        LoginCompares, ChangeWrites
    <3>2. CASE Redirect(s)
      BY <2>3, <3>2 DEF Redirect
    <3>3. CASE Page(s) \/ Logout(s)
      <4>1. req'[t].ok
        <5>1. CASE Page(s)
          BY <5>1, <1>1, <2>3 DEF Page, Request
        <5>2. CASE Logout(s)
          BY <5>2, <1>1, <2>3 DEF Logout, Request
        <5> QED
          BY <3>3, <5>1, <5>2
      <4> QED
        BY <4>1
    <3>4. CASE LoginReads(s) \/ ChangeReads(s)
      <4>1. req'[t].clear = req[t].clear
        <5>1. CASE LoginReads(s)
          BY <5>1, <1>1, <2>3 DEF LoginReads, Request
        <5>2. CASE ChangeReads(s)
          BY <5>2, <1>1, <2>3 DEF ChangeReads, Request
        <5> QED
          BY <3>4, <5>1, <5>2
      <4> QED
        BY <4>1, <1>1
    <3> QED
      BY <2>2, <3>1, <3>2, <3>3, <3>4
  <2>4. CASE s # t
    <3>1. CASE Arrive(s)
      <4>1. PICK l : req'[t] = [req[t] EXCEPT !.late = l]
        BY <2>4, <3>1 DEF Arrive
      <4> QED
        BY <1>1, <4>1 DEF Request
    <3>2. CASE ChangeWrites(s)
      <4>1. \/ req'[t] = req[t]
            \/ req'[t] = [req[t] EXCEPT !.seen = req[t].seen \cup {req[s].new}]
        BY <1>1, <2>4, <3>2 DEF ChangeWrites
      <4> QED
        BY <1>1, <4>1 DEF Request
    <3>3. CASE HandleSubmit(s) \/ Visit(s) \/ SubmitLogin(s) \/ SubmitLogout(s) \/ AnswerLost(s)
               \/ Redirect(s) \/ Page(s) \/ Logout(s) \/ LoginReads(s) \/ LoginCompares(s)
               \/ ChangeReads(s)
      <4>1. req'[t] = req[t]
        BY <1>1, <2>4, <3>3
           DEF HandleSubmit, Visit, SubmitLogin, SubmitLogout, Send, AnswerLost, Redirect, Page,
               Logout, LoginReads, LoginCompares, ChangeReads
      <4> QED
        BY <1>2, <4>1
    <3> QED
      BY <2>2, <3>1, <3>2, <3>3
  <2> QED
    BY <2>3, <2>4
<1> QED
  BY <1>3, <1>4, <1>5, <1>6 DEF Next

\* The newest token is refused for its age only THRESHOLD or more after the last
\* page it, or one before it, was good for.
THEOREM ActiveAdminStaysInHolds == Spec => ActiveAdminStaysIn
<1> DEFINE TooOld(t) ==
             /\ Guarded(t) /\ req[t].token # None /\ req'[t].stage = "answered"
             /\ req'[t].clear /\ ~req'[t].ok
             /\ req[t].token.secret = gateway.secret /\ req[t].token.exp = hist.newest
           StaysIn == \A t \in Tabs : TooOld(t) => now - hist.lastOk >= THRESHOLD
<1>1. DeployInv /\ SessionInv /\ [Next]_vars => [StaysIn]_sessionVars
  <2> SUFFICES ASSUME SessionInv, Next, NEW t \in Tabs, TooOld(t)
               PROVE  now - hist.lastOk >= THRESHOLD
    BY DEF vars
  <2>1. ~VerifySessionToken(req[t].token)
    BY OnlyRedirectDrops DEF Guarded
  <2>2. ~(now < hist.newest)
    BY <2>1 DEF VerifySessionToken
  <2>3. hist.lastOk + THRESHOLD <= hist.newest
    BY DEF SessionInv, RequestSound, Aged
  <2>4. now \in Nat /\ hist.lastOk \in Nat /\ hist.newest \in Nat /\ THRESHOLD \in Nat
    BY LifetimesAssumption DEF SessionInv, SessionTyped
  <2> QED
    BY <2>2, <2>3, <2>4
<1>2. Spec => [][StaysIn]_sessionVars
  BY <1>1, Invariants, PTL DEF Spec
<1> QED
  BY <1>2 DEF ActiveAdminStaysIn
=============================================================================
