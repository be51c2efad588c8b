---------------------------- MODULE Administration ----------------------------
(***************************************************************************)
(* The configuration file with its editors (config/edit.py, web/settings,  *)
(* web/repositories, operations/repositories), and the sessions and host   *)
(* tokens that let requests through (web/handler.py, storage/access.py).   *)
(*                                                                         *)
(* Every request runs in a thread of its own, and repowatch set-password   *)
(* in a process of its own.  A request is let in on the configuration it   *)
(* read when it arrived, with a session; it changes the file, later, under *)
(* the lock of the directory.  An operator may change the file in a text   *)
(* editor too, which takes no lock.                                        *)
(*                                                                         *)
(* A password is the number of the hash made from it.                      *)
(***************************************************************************)
EXTENDS Naturals, FiniteSets

CONSTANTS
  Threads,     \* requests served at the same time
  Cli,         \* the process of repowatch set-password
  Secrets,     \* bound: the session secrets that are drawn
  Tokens,      \* bound: the host tokens that are made
  Entries,     \* what an entry of "repos" may say
  Settings,    \* values of the editable settings, all together
  Workloads,   \* bound: the kinds of requests that arrive together
  LastHash,    \* bound: password hashes ever made
  Lifetime,    \* how long a session and a host token last (12 h)
  LastTime,    \* bound: the clock
  None

Ids    == {e.id : e \in Entries}
Hashes == 1..LastHash

\* The rows of host_tokens.
TokenRows == [scope : {None} \cup SUBSET Ids, expires : Nat, used : Nat \cup {None},
              revoked : BOOLEAN, since : Nat \cup {None}]

ASSUME NoneAssumption  == None \notin Threads \cup {Cli} \cup Nat \cup TokenRows
ASSUME ClockAssumption == Cli \notin Threads /\ Lifetime \in Nat /\ LastTime \in Nat

VARIABLES
  file,      \* the content of config.yaml
  lock,      \* who holds the lock of its directory
  made,      \* password hashes made so far
  sessions,  \* the rows of admin_sessions
  tokens,    \* the rows of host_tokens
  bans,      \* package names banned, by repository (the name is one)
  work,      \* what each thread is doing
  now,
  kinds,     \* the workload of this behaviour
  hand       \* the file was last changed in a text editor (observer)

adminVars == <<file, lock, made, sessions, tokens, bans, work, now, kinds, hand>>

-----------------------------------------------------------------------------
(* Contents of the file                                                      *)

\* What verify_signature needs to be checked with, by package format.
TrustAnchor(e) ==
  CASE e.type = "nix" -> "public keys"
    [] e.type = "apk" -> "keys directory"
    [] e.type \in {"pacman", "apt", "dnf", "apt-rpm", "slackware"} -> "keyring"
    [] OTHER -> "unsupported"

\* A valid entry names the fields its format needs, and what it verifies it can.
ValidRepo(e) ==
  /\ e.type \in {"pacman", "apt", "apk", "dnf", "apt-rpm", "xbps", "nix", "gentoo", "slackware"}
  /\ e.complete
  /\ e.verify => TrustAnchor(e) # "unsupported" /\ TrustAnchor(e) \in e.anchors

DistinctIds(repos) == \A e, f \in repos : e.id = f.id => e = f

\* load_config returns a configuration and no ConfigError.
Accepted(content) ==
  /\ content.settings # "invalid"
  /\ \A e \in content.repos : ValidRepo(e)
  /\ DistinctIds(content.repos)

HasRepo(content, id) == \E e \in content.repos : e.id = id

\* The edits of the dashboard and of the command line, on the raw content.
Edited(content, edit) ==
  CASE edit.do = "password" -> [content EXCEPT !.password = edit.hash]
    [] edit.do = "settings" -> [content EXCEPT !.settings = edit.settings]
    [] edit.do = "add"      -> [content EXCEPT !.repos = @ \cup {edit.entry}]
    [] edit.do = "update"   -> [content EXCEPT !.repos =
                                  {e \in @ : e.id # edit.entry.id} \cup {edit.entry}]
    [] edit.do = "delete"   -> [content EXCEPT !.repos = {e \in @ : e.id # edit.id}]

\* What the operations on repositories refuse before they write.
Applicable(content, edit) ==
  CASE edit.do = "add"    -> ValidRepo(edit.entry) /\ ~HasRepo(content, edit.entry.id)
    [] edit.do = "update" -> ValidRepo(edit.entry) /\ HasRepo(content, edit.entry.id)
    [] edit.do = "delete" -> HasRepo(content, edit.id)
    [] OTHER -> TRUE

DashboardEdits ==
  [do : {"settings"}, settings : Settings] \cup [do : {"add", "update"}, entry : Entries]
    \cup [do : {"delete"}, id : Ids]

-----------------------------------------------------------------------------
(* Sessions and tokens                                                       *)

\* The session a cookie stands for, as the hash it was made under.
SessionOf(secret, hash) ==
  {s \in sessions : s.secret = secret /\ s.expires > now /\ s.hash = hash}

\* A new login drops what has expired and what an older password opened.
Kept(hash) == {s \in sessions : s.expires > now /\ s.hash = hash}

Usable(t) == tokens[t] # None /\ ~tokens[t].revoked /\ tokens[t].expires > now

Idle == [at |-> "idle"]

-----------------------------------------------------------------------------
AdminInit ==
  /\ file \in [password : {1}, settings : Settings \ {"invalid"},
               repos : {{}}, restrict : BOOLEAN]
  /\ lock = None /\ made = 1
  /\ sessions = {} /\ tokens = [t \in Tokens |-> None]
  /\ bans = [r \in Ids |-> FALSE]
  /\ work = [w \in Threads \cup {Cli} |-> Idle]
  /\ now = 0 /\ kinds \in Workloads /\ hand = FALSE

fileVars  == <<file, lock, made, hand>>
restVars  == <<now, kinds>>
tableVars == <<sessions, tokens, bans>>

Become(w, state) == work' = [work EXCEPT ![w] = state]

\* _context, first half: the configuration of this request; 503 without one.
Arrive(w) ==
  /\ work[w] = Idle
  /\ Accepted(file)
  /\ \E kind \in kinds, secret \in Secrets \cup {None} :
       Become(w, [at |-> "identify", kind |-> kind, secret |-> secret, current |-> file])
  /\ UNCHANGED <<fileVars, tableVars, restVars>>

\* _context, second half, and the gates: a login comes without a session and a
\* host with its token, everything else needs an administrator.
Identify(w) ==
  LET job == work[w]
      admin == IF job.current.password # None
                  /\ SessionOf(job.secret, job.current.password) # {}
               THEN job.current.password ELSE None IN
  /\ job.at = "identify"
  /\ Become(w, IF job.kind \in {"login", "status"} \/ admin # None
               THEN [at |-> "body", kind |-> job.kind, admin |-> admin,
                     secret |-> IF job.kind = "logout" THEN job.secret ELSE None,
                     current |-> IF job.kind \in {"login", "token"} THEN job.current ELSE None]
               ELSE Idle)
  /\ UNCHANGED <<fileVars, tableVars, restVars>>

\* POST /api/auth/login with the password of a hash.
Login(w) ==
  LET job == work[w] IN
  /\ job.at = "body" /\ job.kind = "login"
  /\ \E typed \in Hashes, secret \in Secrets :
       /\ \A s \in sessions : s.secret # secret
       /\ sessions' = IF job.current.password = typed
            THEN Kept(typed) \cup {[secret |-> secret, hash |-> typed,
                                    expires |-> now + Lifetime]}
            ELSE sessions
  /\ Become(w, Idle)
  /\ UNCHANGED <<fileVars, tokens, bans, restVars>>

Logout(w) ==
  LET job == work[w] IN
  /\ job.at = "body" /\ job.kind = "logout"
  /\ sessions' = {s \in sessions : s.secret # job.secret}
  /\ Become(w, Idle)
  /\ UNCHANGED <<fileVars, tokens, bans, restVars>>

\* POST /api/tokens: a scope needs the restriction and repositories that exist.
CreateToken(w) ==
  LET job == work[w] IN
  /\ job.at = "body" /\ job.kind = "token"
  /\ \E t \in {u \in Tokens : tokens[u] = None}, scope \in {None} \cup SUBSET Ids :
       tokens' = IF scope # None /\ ~(job.current.restrict /\
                                      \A r \in scope : HasRepo(job.current, r)) THEN tokens
                 ELSE [tokens EXCEPT ![t] = [scope |-> scope, expires |-> now + Lifetime,
                                             used |-> None, revoked |-> FALSE, since |-> None]]
  /\ Become(w, Idle)
  /\ UNCHANGED <<fileVars, sessions, bans, restVars>>

Revoke(w) ==
  LET job == work[w] IN
  /\ job.at = "body" /\ job.kind = "revoke"
  /\ \E t \in {u \in Tokens : tokens[u] # None} :
       tokens' = [tokens EXCEPT ![t].revoked = TRUE,
                                ![t].since = IF @ = None THEN now ELSE @]
  /\ Become(w, Idle)
  /\ UNCHANGED <<fileVars, sessions, bans, restVars>>

\* token_access, first half: an unusable token is answered 401, one used within
\* the minute needs no writing.
CheckToken(w) ==
  LET job == work[w] IN
  /\ job.at = "body" /\ job.kind = "status"
  /\ \E t \in Tokens :
       Become(w, IF Usable(t) /\ tokens[t].used # now
                 THEN [at |-> "touch", token |-> t, time |-> now] ELSE Idle)
  /\ UNCHANGED <<fileVars, tableVars, restVars>>

\* Mutant: the row is written as it was read.
TouchAnyway(w) ==
  LET job == work[w] IN
  /\ job.at = "touch"
  /\ tokens' = [tokens EXCEPT ![job.token].used = job.time]
  /\ Become(w, Idle)
  /\ UNCHANGED <<fileVars, sessions, bans, restVars>>

\* token_access, second half, in a transaction of its own.
Touch(w) ==
  LET job == work[w]
      row == tokens[job.token] IN
  /\ job.at = "touch"
  /\ tokens' = IF ~row.revoked /\ (row.used = None \/ row.used < job.time)
               THEN [tokens EXCEPT ![job.token].used = job.time] ELSE tokens
  /\ Become(w, Idle)
  /\ UNCHANGED <<fileVars, sessions, bans, restVars>>

-----------------------------------------------------------------------------
(* Changing the file                                                         *)

\* Mutant: the session is only checked when the request arrives.
AuthorisedOnArrival(job) == Accepted(file) /\ job.admin # None

\* load_admin_config: the session was opened under the password of now.
Authorised(job) ==
  /\ Accepted(file)
  /\ file.password # None /\ job.admin = file.password

\* Mutant: the lock is one of the file, which the other editor has replaced.
LockFreely(w) ==
  LET job == work[w] IN
  /\ job.at = "body" /\ job.kind = "edit"
  /\ lock' = w
  /\ \E edit \in DashboardEdits :
       Become(w, [at |-> "locked", admin |-> job.admin, edit |-> edit])
  /\ UNCHANGED <<file, made, hand, tableVars, restVars>>

\* locked_config: every editor waits for the lock of the directory.
Lock(w) ==
  LET job == work[w] IN
  /\ job.at = "body" /\ job.kind = "edit"
  /\ lock = None /\ lock' = w
  /\ \E edit \in DashboardEdits :
       Become(w, [at |-> "locked", admin |-> job.admin, edit |-> edit])
  /\ UNCHANGED <<file, made, hand, tableVars, restVars>>

LockCli ==
  /\ work[Cli] = Idle /\ Accepted(file)
  /\ made < LastHash /\ made' = made + 1
  /\ lock = None /\ lock' = Cli
  /\ Become(Cli, [at |-> "locked", admin |-> None, edit |-> [do |-> "password", hash |-> made']])
  /\ UNCHANGED <<file, hand, tableVars, restVars>>

\* Under the lock: the configuration is read again, the session is checked (the
\* command line has none) and the edit has to fit.
Review(w) ==
  LET job == work[w] IN
  /\ job.at = "locked"
  /\ IF (w = Cli \/ Authorised(job)) /\ Accepted(file) /\ Applicable(file, job.edit)
     THEN Become(w, [at |-> "replace", admin |-> job.admin, edit |-> job.edit, base |-> file]) /\ UNCHANGED lock
     ELSE Become(w, Idle) /\ lock' = None
  /\ UNCHANGED <<file, made, hand, tableVars, restVars>>

\* atomic_config: what load_config does not accept never replaces the file.
Replace(w) ==
  LET content == Edited(work[w].base, work[w].edit) IN
  /\ work[w].at = "replace"
  /\ IF Accepted(content) THEN file' = content /\ hand' = FALSE ELSE UNCHANGED <<file, hand>>
  /\ Become(w, Idle) /\ lock' = None
  /\ UNCHANGED <<made, tableVars, restVars>>

\* Changes of the tables recheck the session as well, without the lock.
Ban(w) ==
  LET job == work[w] IN
  /\ job.at = "body" /\ job.kind = "ban"
  /\ \E r \in Ids, banned \in BOOLEAN :
       Become(w, IF Authorised(job) /\ HasRepo(file, r)
                 THEN [at |-> "ban", repo |-> r, banned |-> banned] ELSE Idle)
  /\ UNCHANGED <<fileVars, tableVars, restVars>>

StoreBan(w) ==
  /\ work[w].at = "ban"
  /\ bans' = [bans EXCEPT ![work[w].repo] = work[w].banned]
  /\ Become(w, Idle)
  /\ UNCHANGED <<fileVars, sessions, tokens, restVars>>

\* The process of the editor ends: the kernel drops its lock, the file has been
\* replaced or not at all.
Killed ==
  /\ \E dead \in {Threads, {Cli}} :
       /\ \E w \in dead : work[w] # Idle
       /\ work' = [w \in DOMAIN work |-> IF w \in dead THEN Idle ELSE work[w]]
       /\ lock' = IF lock \in dead THEN None ELSE lock
  /\ UNCHANGED <<file, made, hand, tableVars, restVars>>

\* The operator saves a content, an older hash or an invalid one perhaps, but
\* not between the reading and the replacing of another editor.
HandEdit ==
  /\ lock = None
  /\ \E s \in Settings, h \in 1..made :
       file' = [file EXCEPT !.settings = s, !.password = h]
  /\ file' # file /\ hand' = TRUE
  /\ UNCHANGED <<lock, made, tableVars, work, restVars>>

Tick ==
  /\ now < LastTime /\ now' = now + 1
  /\ UNCHANGED <<fileVars, tableVars, work, kinds>>

AdminNext ==
  \/ \E w \in Threads :
       \/ Arrive(w) \/ Identify(w) \/ Login(w) \/ Logout(w)
       \/ CreateToken(w) \/ Revoke(w) \/ CheckToken(w) \/ Touch(w)
       \/ Lock(w) \/ Ban(w) \/ StoreBan(w)
  \/ LockCli
  \/ \E w \in Threads \cup {Cli} : Review(w) \/ Replace(w)
  \/ Killed \/ HandEdit \/ Tick

AdminSpec == AdminInit /\ [][AdminNext]_adminVars

-----------------------------------------------------------------------------
(* Properties                                                                *)

\* Editors do not undo each other: what replaces the file is one edit of the
\* very content it replaces, and a content that loads.
EditsAreSerial ==
  [][file' # file /\ ~hand' =>
       /\ Accepted(file')
       /\ \E w \in DOMAIN work : /\ work[w].at = "replace" /\ work'[w] = Idle
                                 /\ file' = Edited(file, work[w].edit)]_adminVars

\* An edit of the dashboard replaces the file only while the password is in force
\* that opened the session of the administrator who asked for it.
WritesAreAuthorised ==
  [][\A w \in Threads : file' # file /\ ~hand' /\ work[w].at = "replace" /\ work'[w] = Idle
       => file.password # None /\ file.password = work[w].admin]_adminVars

\* A revoked token is out of use for good: no request that found it valid a
\* moment ago, and no second revocation, changes its row.
RevokedIsFrozen ==
  [][\A t \in Tokens : tokens[t] # None /\ tokens[t].revoked => tokens'[t] = tokens[t]]_adminVars
=============================================================================
