------------------------------- MODULE Catalog -------------------------------
(***************************************************************************)
(* What the settings database holds: workspaces, connections and hooks     *)
(* (workspace-store.service.ts, connection-store.service.ts,               *)
(* hook-store.service.ts), the handlers that edit and remove them, and the *)
(* encryption of their secrets (crypto.service.ts).                        *)
(*                                                                         *)
(* Clients read a view in which a secret is a sentinel and send it back    *)
(* when they did not touch it.  A stored secret is the key and the text it *)
(* was encrypted with.  An edit reads the row and then writes it.          *)
(***************************************************************************)
EXTENDS Integers, FiniteSets

CONSTANTS Default, Others,  \* workspaces: the default one and the others
          Conns, Hooks,     \* connections and hooks, created once each
          Clients,          \* browsers with an open form
          Texts,            \* secrets a user types
          MaxBoots          \* bound: starts of the process

Nothing == "nothing"      \* no secret
Sentinel == "********"    \* REDACTED

ASSUME CatalogAssumption ==
  /\ Default \notin Others /\ Conns # {} /\ MaxBoots \in Nat \ {0}
  /\ Nothing \notin Texts /\ Sentinel \notin Texts

Objects == Conns \cup Hooks
NoKey == 0

VARIABLES workspaces,  \* workspaces there are
          rows,        \* of each connection and hook: its row
          typed,       \* the secret its users typed last, by the order of the writes
          raced,       \* objects of which one edit was written between the read and the write of another
          form,        \* of each client: the edit it makes and what the server read for it
          removing,    \* connections the DELETE handler found unused
          keyFile,     \* the key in the data directory
          cached,      \* the key the process holds
          boots        \* starts so far

catalogVars == <<workspaces, rows, typed, raced, form, removing, keyFile, cached, boots>>

NoRow == [there |-> FALSE, ws |-> Default, secret |-> <<>>, source |-> {}, targets |-> {}, saved |-> FALSE]
NoForm == [at |-> "none", object |-> CHOOSE o \in Objects : TRUE, shown |-> Nothing, sent |-> Nothing,
           read |-> <<>>, targets |-> {}]
Keys == 0 .. MaxBoots
Secrets == {<<>>} \cup {<<k, t>> : k \in Keys \ {NoKey}, t \in Texts \cup {Sentinel}}

CatalogTypeOK ==
  /\ workspaces \subseteq {Default} \cup Others
  /\ rows \in [Objects -> [there : BOOLEAN, ws : {Default} \cup Others, secret : Secrets,
                           source : SUBSET Conns, targets : SUBSET Conns, saved : BOOLEAN]]
  /\ typed \in [Objects -> Texts \cup {Nothing}] /\ raced \subseteq Objects
  /\ form \in [Clients -> [at : {"none", "open", "sent", "read"}, object : Objects, read : Secrets,
                           shown : {Nothing, Sentinel}, sent : Texts \cup {Nothing, Sentinel},
                           targets : SUBSET Conns]]
  /\ removing \subseteq Conns /\ keyFile \in Keys /\ cached \in Keys /\ boots \in 0 .. MaxBoots
  /\ \A o \in Objects : rows[o].there => rows[o].ws \in workspaces

\* A database restored by hand may lack the default workspace.
CatalogInit ==
  /\ workspaces \in {{}, {Default}}
  /\ rows = [o \in Objects |-> NoRow]
  /\ typed = [o \in Objects |-> Nothing] /\ raced = {}
  /\ form = [c \in Clients |-> NoForm]
  /\ removing = {} /\ keyFile = NoKey /\ cached = NoKey /\ boots = 0

(* The key: read from its file, or made and written there by its first use. *)

\* Mutant of LoadedKey: the file is written and never read.
NewKey == IF cached # NoKey THEN cached ELSE boots

LoadedKey == IF cached # NoKey THEN cached ELSE IF keyFile # NoKey THEN keyFile ELSE boots
LoadKey == cached' = LoadedKey /\ keyFile' = LoadedKey
Encrypted(text) == <<LoadedKey, text>>
Readable(secret) == secret = <<>> \/ secret[1] = LoadedKey
View(secret) == IF secret = <<>> THEN Nothing ELSE Sentinel

\* A start makes sure of the default workspace, unless the database fails; the
\* process, the requests under way and the key it held are gone.
Boot(ensured) ==
  /\ boots < MaxBoots /\ boots' = boots + 1
  /\ workspaces' = IF ensured THEN workspaces \cup {Default} ELSE workspaces
  /\ cached' = NoKey /\ removing' = {}
  /\ form' = [c \in Clients |-> IF form[c].at = "open" THEN form[c] ELSE NoForm]
  /\ UNCHANGED <<rows, typed, raced, keyFile>>

Up == boots > 0

(* Workspaces. *)

CreateWorkspace(w) ==
  /\ Up /\ w \in Others \ workspaces
  /\ workspaces' = workspaces \cup {w}
  /\ UNCHANGED <<rows, typed, raced, form, removing, keyFile, cached, boots>>

\* Mutant of Deletable: the default workspace is like any other.
AnyDeletable(w) == w \in workspaces

Deletable(w) == w # Default

\* Mutant of DeleteWorkspace: nothing goes with it.
DeleteWorkspaceAlone(w) ==
  /\ Up /\ w \in workspaces /\ Deletable(w)
  /\ workspaces' = workspaces \ {w}
  /\ UNCHANGED <<rows, typed, raced, form, removing, keyFile, cached, boots>>

\* The database deletes its connections, hooks and runs with it.
DeleteWorkspace(w) ==
  /\ Up /\ w \in workspaces /\ Deletable(w)
  /\ workspaces' = workspaces \ {w}
  /\ rows' = [o \in Objects |-> IF rows[o].ws = w THEN NoRow ELSE rows[o]]
  /\ typed' = [o \in Objects |-> IF rows[o].ws = w THEN Nothing ELSE typed[o]]
  /\ UNCHANGED <<raced, form, removing, keyFile, cached, boots>>

(* Connections and hooks. *)

Encrypts(sent) == IF sent \in Texts THEN LoadKey ELSE UNCHANGED <<keyFile, cached>>

\* A connection, or a hook that reads one connection and either calls an HTTP
\* endpoint with a secret or writes to target connections.
Create(o, w, text, source, targets) ==
  /\ Up /\ ~rows[o].there /\ w \in workspaces
  /\ o \in Conns => source = {} /\ targets = {}
  /\ o \in Hooks => Cardinality(source) = 1 /\ (targets # {} => text = Nothing)
  /\ \A c \in source \cup targets : rows[c].there
  /\ rows' = [rows EXCEPT ![o] =
       [there |-> TRUE, ws |-> w, source |-> source, targets |-> targets, saved |-> TRUE,
        secret |-> IF text = Nothing THEN <<>> ELSE Encrypted(text)]]
  /\ typed' = [typed EXCEPT ![o] = text] /\ raced' = raced \ {o}
  /\ Encrypts(text)
  /\ UNCHANGED <<workspaces, form, removing, boots>>

\* A client opens the form of an object and sends it back, its secret untouched,
\* typed anew or cleared; a hook may get other targets, which hold no secret.
OpenForm(c, o) ==
  /\ Up /\ form[c].at = "none" /\ rows[o].there
  /\ form' = [form EXCEPT ![c] = [NoForm EXCEPT !.at = "open", !.object = o, !.targets = rows[o].targets,
                                                !.shown = View(rows[o].secret)]]
  /\ UNCHANGED <<workspaces, rows, typed, raced, removing, keyFile, cached, boots>>

SendForm(c, sent, targets) ==
  /\ Up /\ form[c].at = "open"
  /\ sent \in Texts \cup {Nothing, form[c].shown}
  /\ form[c].object \in Conns => targets = {}
  /\ targets # {} => sent = Nothing
  /\ form' = [form EXCEPT ![c].at = "sent", ![c].sent = sent, ![c].targets = targets]
  /\ UNCHANGED <<workspaces, rows, typed, raced, removing, keyFile, cached, boots>>

\* update reads the row; without one it fails with NotFound.
EditReads(c) ==
  LET row == rows[form[c].object] IN
  /\ form[c].at = "sent"
  /\ form' = [form EXCEPT ![c] = IF row.there THEN [@ EXCEPT !.at = "read", !.read = row.secret] ELSE NoForm]
  /\ UNCHANGED <<workspaces, rows, typed, raced, removing, keyFile, cached, boots>>

\* Mutant of SecretOf: the sentinel is encrypted like a secret.
SentSecret(f) == IF f.sent = Nothing THEN <<>> ELSE Encrypted(f.sent)

\* Mutant of SecretOf: an untouched secret is cleared.
TypedSecret(f) == IF f.sent \in {Nothing, Sentinel} THEN <<>> ELSE Encrypted(f.sent)

\* The stored secret stays when the client sends the sentinel.
SecretOf(f) ==
  IF f.sent = Sentinel THEN f.read ELSE IF f.sent = Nothing THEN <<>> ELSE Encrypted(f.sent)

EditWrites(c) ==
  LET f == form[c] IN
  /\ f.at = "read"
  /\ form' = [form EXCEPT ![c] = NoForm]
  /\ IF rows[f.object].there
     THEN /\ rows' = [rows EXCEPT ![f.object].secret = SecretOf(f), ![f.object].targets = f.targets,
                                  ![f.object].saved = TRUE]
          /\ typed' = [typed EXCEPT ![f.object] = IF f.sent = Sentinel THEN @ ELSE f.sent]
          /\ raced' = IF f.read # rows[f.object].secret THEN raced \cup {f.object} ELSE raced
          /\ Encrypts(f.sent)
     ELSE UNCHANGED <<rows, typed, raced, keyFile, cached>>
  /\ UNCHANGED <<workspaces, removing, boots>>

DeleteHook(h) ==
  /\ Up /\ rows[h].there
  /\ rows' = [rows EXCEPT ![h] = NoRow] /\ typed' = [typed EXCEPT ![h] = Nothing]
  /\ UNCHANGED <<workspaces, raced, form, removing, keyFile, cached, boots>>

\* Mutant of UsedBy: the targets of a hook are not looked at.
ReadBy(c) == {h \in Hooks : rows[h].there /\ c \in rows[h].source}

\* DELETE of a connection counts the hooks that read it or write to it ...
UsedBy(c) == {h \in Hooks : rows[h].there /\ c \in rows[h].source \cup rows[h].targets}

CheckUnused(c) ==
  /\ Up /\ rows[c].there /\ UsedBy(c) = {} /\ removing = {}
  /\ removing' = {c}
  /\ rows' = [o \in Objects |-> IF o \in Hooks THEN [rows[o] EXCEPT !.saved = FALSE] ELSE rows[o]]
  /\ UNCHANGED <<workspaces, typed, raced, form, keyFile, cached, boots>>

\* ... and removes the row when the pool has let go of its adapters.
RemoveConn(c) ==
  /\ c \in removing
  /\ removing' = removing \ {c}
  /\ rows' = [rows EXCEPT ![c] = NoRow] /\ typed' = [typed EXCEPT ![c] = Nothing]
  /\ UNCHANGED <<workspaces, raced, form, keyFile, cached, boots>>

CatalogNext ==
  \/ \E b \in BOOLEAN : Boot(b)
  \/ \E w \in Others : CreateWorkspace(w)
  \/ \E w \in {Default} \cup Others : DeleteWorkspace(w)
  \/ \E o \in Objects, w \in {Default} \cup Others, t \in Texts \cup {Nothing},
        source \in SUBSET Conns, targets \in SUBSET Conns : Create(o, w, t, source, targets)
  \/ \E c \in Clients : \/ \E o \in Objects : OpenForm(c, o)
                        \/ \E s \in Texts \cup {Nothing, Sentinel}, t \in SUBSET Conns : SendForm(c, s, t)
                        \/ EditReads(c) \/ EditWrites(c)
  \/ \E h \in Hooks : DeleteHook(h)
  \/ \E c \in Conns : CheckUnused(c) \/ RemoveConn(c)

CatalogSpec == CatalogInit /\ [][CatalogNext]_catalogVars

(* Properties. *)

\* What is stored was typed by a user for this object: the sentinel of a view is
\* never taken for a secret, whatever other edits went on meanwhile.
SentinelIsNoSecret == \A o \in Objects : rows[o].secret # <<>> => rows[o].secret[2] # Sentinel

\* A secret survives every edit that did not touch it and is what was typed last,
\* unless two edits overlapped.
EditKeepsSecret ==
  \A o \in Objects : rows[o].there /\ o \notin raced =>
    IF typed[o] = Nothing THEN rows[o].secret = <<>>
    ELSE rows[o].secret # <<>> /\ rows[o].secret[2] = typed[o]

\* Every stored secret can be decrypted by this process and, with the same data
\* directory, by the ones after it.
SecretsReadable == \A o \in Objects : Readable(rows[o].secret)

\* A connection that DELETE removes is used by no hook, except by one that was saved
\* after the handler looked.
RemovalSparesUsers ==
  [][\A c \in Conns, h \in Hooks :
       RemoveConn(c) /\ c \in rows[h].source \cup rows[h].targets => rows[h].saved]_catalogVars

\* Once there, the default workspace stays: there is always somewhere to land.
DefaultStays == [][(Default \in workspaces) => Default \in workspaces']_catalogVars

\* What the stores promise: secrets are neither lost, nor shown, nor unreadable ...
CatalogSafe == CatalogTypeOK /\ SentinelIsNoSecret /\ EditKeepsSecret /\ SecretsReadable
\* ... and nothing is removed that is in use.
CatalogPromise == []CatalogSafe /\ RemovalSparesUsers /\ DefaultStays
==============================================================================
