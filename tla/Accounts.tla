------------------------------ MODULE Accounts -------------------------------
(***************************************************************************)
(* The operator's account and its sessions (src/apps/api/src/auth) and the *)
(* application settings they depend on (settings-store.service.ts).        *)
(*                                                                         *)
(* A handler reads the account and, after the slow hash of a password,     *)
(* writes it or issues a cookie with the version it read.  Settings are    *)
(* kept in one row and cached; an update reads the row, merges its patch,  *)
(* writes the row and then the cache.  Time is counted in minutes.         *)
(***************************************************************************)
EXTENDS Integers, FiniteSets

CONSTANTS Browsers,    \* clients
          Names,       \* user names
          Passwords,
          Settings,    \* settings: "ttl" and others
          Values,      \* values of a setting
          DefaultOf,   \* the value of a setting nobody stored
          MaxVersion,  \* bound: changes of a password
          MaxTime,     \* bound: minutes
          MaxPatches   \* bound: updates of the settings

ASSUME AccountsAssumption ==
  /\ "ttl" \in Settings /\ Values \subseteq Nat /\ DefaultOf \in [Settings -> Values]
  /\ MaxVersion \in Nat /\ MaxTime \in Nat /\ MaxPatches \in Nat

Unset == -1
NoCookie == [name |-> "", version |-> 0, issued |-> 0, password |-> ""]

VARIABLES accounts,  \* the rows of AppUser: [password, version] by name
          browser,   \* of each client: where its request is, what was read for it, its cookie
          now,       \* minutes
          stored,    \* the row of stored settings
          cache,     \* the settings the process works with
          update,    \* of each client: where its update of the settings is
          wanted,    \* the settings by the order in which the updates were written
          mixed,     \* two updates overlapped, or one could not read the row
          patches    \* updates so far

accountVars == <<accounts, browser, now, stored, cache, update, wanted, mixed, patches>>
sessionVars == <<accounts, browser>>
settingVars == <<stored, cache, update, wanted, mixed, patches>>

Unstored == [s \in Settings |-> Unset]
Merged(over) == [s \in Settings |-> IF over[s] = Unset THEN DefaultOf[s] ELSE over[s]]
Patched(row, patch) == [s \in Settings |-> IF patch[s] = Unset THEN row[s] ELSE patch[s]]
NoUpdate == [at |-> "none", patch |-> Unstored, read |-> Unstored]
NoWork == [at |-> "none", name |-> "", version |-> 0, password |-> "", cookie |-> NoCookie]

AccountsTypeOK ==
  /\ DOMAIN accounts \subseteq Names
  /\ \A n \in DOMAIN accounts : accounts[n] \in [password : Passwords, version : 0 .. MaxVersion]
  /\ \A b \in Browsers :
       /\ browser[b].at \in {"none", "setup", "issue", "change"}
       /\ browser[b].cookie # NoCookie =>
            /\ browser[b].cookie.name \in DOMAIN accounts
            /\ browser[b].cookie.version <= accounts[browser[b].cookie.name].version
            /\ browser[b].cookie.issued <= now
  /\ stored \in [Settings -> Values \cup {Unset}] /\ cache \in [Settings -> Values]
  /\ now \in 0 .. MaxTime /\ mixed \in BOOLEAN /\ patches \in 0 .. MaxPatches

\* At boot the settings are read before requests are served; a read that fails
\* counts as an empty row and is cached.
AccountsInit ==
  /\ accounts = [n \in {} |-> NoWork]
  /\ browser = [b \in Browsers |-> NoWork] /\ now = 0
  /\ stored \in {Unstored} \cup {[Unstored EXCEPT !["ttl"] = v] : v \in Values \ {DefaultOf["ttl"]}}
  /\ \E failed \in BOOLEAN : /\ cache = Merged(IF failed THEN Unstored ELSE stored)
                             /\ mixed = failed
  /\ update = [b \in Browsers |-> NoUpdate] /\ wanted = stored /\ patches = 0

At(b, at) == browser[b].at = at
\* A request on its way, with the account it has read and the password it was given.
Works(b, at, n, version, password) ==
  browser' = [browser EXCEPT ![b] = [@ EXCEPT !.at = at, !.name = n, !.version = version, !.password = password]]

\* Is the cookie signed for the version there is, and young enough?  (userFromRequest)
Accepted(b) ==
  LET k == browser[b].cookie IN
  /\ k # NoCookie /\ k.name \in DOMAIN accounts
  /\ now - k.issued <= cache["ttl"]
  /\ accounts[k.name].version = k.version

\* setup counts the accounts and creates one; the name is unique.
SetupCounts(b, n, p) ==
  /\ At(b, "none") /\ DOMAIN accounts = {}
  /\ Works(b, "setup", n, 0, p)
  /\ UNCHANGED <<accounts, now, settingVars>>

SetupCreates(b) ==
  LET q == browser[b] IN
  /\ At(b, "setup")
  /\ IF q.name \in DOMAIN accounts
     THEN Works(b, "none", "", 0, "") /\ UNCHANGED accounts
     ELSE /\ accounts' = [n \in DOMAIN accounts \cup {q.name} |->
                            IF n = q.name THEN [password |-> q.password, version |-> 0] ELSE accounts[n]]
          /\ Works(b, "issue", q.name, 0, q.password)
  /\ UNCHANGED <<now, settingVars>>

\* login verifies the password against the account it has read.
Login(b, n, p) ==
  /\ At(b, "none") /\ n \in DOMAIN accounts /\ accounts[n].password = p
  /\ Works(b, "issue", n, accounts[n].version, p)
  /\ UNCHANGED <<accounts, now, settingVars>>

\* changePassword verifies the current one, hashes the new one ...
ChangeReads(b, p) ==
  LET n == browser[b].cookie.name IN
  /\ At(b, "none") /\ Accepted(b) /\ accounts[n].password = p /\ accounts[n].version < MaxVersion
  /\ Works(b, "change", n, accounts[n].version, p)
  /\ UNCHANGED <<accounts, now, settingVars>>

\* Mutant of Changed: the version stays.
SameVersion(account, p) == [account EXCEPT !.password = p]

\* Mutant of Changed: the version starts again.
FirstVersion(account, p) == [password |-> p, version |-> IF account.version = 0 THEN 1 ELSE 0]

\* ... and writes it with the next version, which ends every other session.
Changed(account, p) == [password |-> p, version |-> account.version + 1]

ChangeWrites(b, p) ==
  LET n == browser[b].name IN
  /\ At(b, "change") /\ accounts[n].version < MaxVersion
  /\ accounts' = [accounts EXCEPT ![n] = Changed(@, p)]
  /\ Works(b, "issue", n, Changed(accounts[n], p).version, p)
  /\ UNCHANGED <<now, settingVars>>

\* The cookie carries the version of the account the handler holds.
CookieOf(q) == [name |-> q.name, version |-> q.version, issued |-> now, password |-> q.password]

Issue(b) ==
  /\ At(b, "issue")
  /\ browser' = [browser EXCEPT ![b] = [NoWork EXCEPT !.cookie = CookieOf(browser[b])]]
  /\ UNCHANGED <<accounts, now, settingVars>>

Logout(b) ==
  /\ At(b, "none") /\ Accepted(b)
  /\ browser' = [browser EXCEPT ![b] = NoWork]
  /\ UNCHANGED <<accounts, now, settingVars>>

Minute ==
  /\ now < MaxTime /\ now' = now + 1
  /\ UNCHANGED <<sessionVars, settingVars>>

(* Settings. *)

\* An update reads the row; a read that fails counts as an empty row.
UpdateReads(b, patch, failed) ==
  /\ update[b].at = "none" /\ patches < MaxPatches /\ Accepted(b) /\ patch # Unstored
  /\ update' = [update EXCEPT ![b] = [at |-> "read", patch |-> patch,
                                      read |-> IF failed THEN Unstored ELSE stored]]
  /\ patches' = patches + 1
  /\ mixed' = (mixed \/ failed \/ \E o \in Browsers : update[o].at # "none")
  /\ UNCHANGED <<sessionVars, now, stored, cache, wanted>>

\* Mutant of UpdateWrites: the patch replaces the row.
UpdateReplaces(b) ==
  LET u == update[b] IN
  /\ u.at = "read"
  /\ stored' = u.patch
  /\ update' = [update EXCEPT ![b].at = "written", ![b].read = stored']
  /\ wanted' = Patched(wanted, u.patch)
  /\ UNCHANGED <<sessionVars, now, cache, mixed, patches>>

UpdateWrites(b) ==
  LET u == update[b] IN
  /\ u.at = "read"
  /\ stored' = Patched(u.read, u.patch)
  /\ update' = [update EXCEPT ![b].at = "written", ![b].read = stored']
  /\ wanted' = Patched(wanted, u.patch)
  /\ UNCHANGED <<sessionVars, now, cache, mixed, patches>>

UpdateCaches(b) ==
  /\ update[b].at = "written"
  /\ cache' = Merged(update[b].read)
  /\ update' = [update EXCEPT ![b] = NoUpdate]
  /\ UNCHANGED <<sessionVars, now, stored, wanted, mixed, patches>>

Patches == [Settings -> Values \cup {Unset}]

AccountsNext ==
  \/ \E b \in Browsers :
       \/ \E n \in Names, p \in Passwords : SetupCounts(b, n, p) \/ Login(b, n, p)
       \/ \E p \in Passwords : ChangeReads(b, p) \/ ChangeWrites(b, p)
       \/ \E patch \in Patches, failed \in BOOLEAN : UpdateReads(b, patch, failed)
       \/ SetupCreates(b) \/ Issue(b) \/ Logout(b) \/ UpdateWrites(b) \/ UpdateCaches(b)
  \/ Minute

AccountsSpec == AccountsInit /\ [][AccountsNext]_accountVars

(* Properties. *)

\* A session the guard accepts belongs to a client that gave, or set, the password of
\* today: a change of the password ends every other session, also one whose login
\* was under way when the password changed.
SessionProvesPassword ==
  \A b \in Browsers : Accepted(b) =>
    browser[b].cookie.password = accounts[browser[b].cookie.name].password

\* Without overlapping updates the stored settings are all that was patched, and the
\* process works with them as soon as no update is under way.
SettingsKept ==
  ~mixed => /\ stored = wanted
            /\ (\A b \in Browsers : update[b].at # "written") => cache = Merged(stored)

\* What the guard and the settings promise.
AccountsSafe == AccountsTypeOK /\ SessionProvesPassword /\ SettingsKept
==============================================================================
