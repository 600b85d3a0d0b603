----------------------------- MODULE MCServices ------------------------------
(* The services beside the data path for TLC: in each behaviour one of them moves. *)
EXTENDS HookRuns, AdapterPool, Catalog, Accounts

VARIABLE focus

MCDefaultOf == [s \in Settings |-> 2]

\* Secrets: one connection and the hook that reads it; only one of the two gets a secret.
Spare == CHOOSE c \in Conns : TRUE
SecretsStep ==
  /\ removing' = {} /\ workspaces' = {Default} /\ ~rows'[Spare].there
  /\ \A h \in Hooks : rows'[h].targets = {}
  /\ \A u \in Clients : form'[u].targets = {}
  /\ Cardinality({o \in Objects : typed'[o] # Nothing}) <= 1
  /\ \A u \in Clients : form'[u].at \in {"read", "sent"} =>
       \A o \in Objects \ {form'[u].object} : typed'[o] = Nothing
\* Removals: no secrets, one client, one start.
RemovalStep ==
  /\ typed' = typed /\ boots' <= 1
  /\ form'[CHOOSE u \in Clients : TRUE] = NoForm

\* Sessions: the settings stay, and with two accounts nothing else is looked at.
SessionStep ==
  /\ UNCHANGED settingVars /\ ~mixed
  /\ Cardinality(DOMAIN accounts') > 1 =>
       now' = 0 /\ \A n \in DOMAIN accounts' : accounts'[n].version = 0
\* Settings: one account whose password stays, and no time.
SettingStep ==
  /\ now' = 0 /\ DOMAIN accounts' \subseteq {CHOOSE n \in Names : TRUE}
  /\ \A n \in DOMAIN accounts' :
       accounts'[n].version = 0 /\ accounts'[n].password = CHOOSE p \in Passwords : TRUE

Focuses == {"runs", "pool", "secrets", "removals", "sessions", "settings"}

\* A part that stands still has one initial state.
MCInit ==
  /\ Init /\ PoolInit /\ CatalogInit /\ AccountsInit /\ focus \in Focuses
  /\ focus # "runs" => hook.kind = "replay" /\ hook.enabled
  /\ focus # "removals" => workspaces = {Default}
  /\ focus \notin {"sessions", "settings"} => stored = Unstored /\ ~mixed
MCNext ==
  /\ UNCHANGED focus
  /\ \/ focus = "runs" /\ Next /\ UNCHANGED <<poolVars, catalogVars, accountVars>>
     \/ focus = "pool" /\ PoolNext /\ UNCHANGED <<vars, catalogVars, accountVars>>
     \/ /\ \/ focus = "secrets" /\ CatalogNext /\ SecretsStep
           \/ focus = "removals" /\ CatalogNext /\ RemovalStep
        /\ UNCHANGED <<vars, poolVars, accountVars>>
     \/ /\ \/ focus = "sessions" /\ AccountsNext /\ SessionStep
           \/ focus = "settings" /\ AccountsNext /\ SettingStep
        /\ UNCHANGED <<vars, poolVars, catalogVars>>
MCSpec == MCInit /\ [][MCNext]_<<focus, vars, poolVars, catalogVars, accountVars>>
MCFairSpec == MCSpec /\ HookFairness /\ PoolFairness
==============================================================================
