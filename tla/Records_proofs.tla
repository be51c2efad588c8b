-------------------------- MODULE Records_proofs --------------------------
(***************************************************************************)
(* Theorems about what repowatch keeps account of: the configuration file  *)
(* with its editors and the tokens, the log of requests with its counters, *)
(* and the bandwidth that downloads share.                                 *)
(***************************************************************************)
EXTENDS Administration, RequestLog, BandwidthBudget, FiniteSetTheorems, NaturalsInduction, TLAPS

(* Administration: the file                                                *)

\* Who edits: the threads of the web server, and the command line.
Workers == Threads \cup {Cli}

\* The lock belongs to whoever is between reading the file and replacing it.
LockIsHeld == \A w \in Workers : work[w].at \in {"locked", "replace"} => lock = w

\* The content that was read under the lock is the content of the file still, and
\* the session was opened under its password.
ReadIsCurrent ==
  \A w \in Workers : work[w].at = "replace" =>
    /\ work[w].base = file
    /\ w # Cli => file.password # None /\ work[w].admin = file.password

\* Together they are inductive: the lock is what keeps the content read current.
EditInv ==
  /\ work = [w \in Workers |-> work[w]]
  /\ LockIsHeld
  /\ ReadIsCurrent

\* A step that leaves the file and the lock alone, in which a thread comes to no
\* point of an edit.
LEMMA NoEdit ==
  ASSUME EditInv, UNCHANGED <<file, lock>>, NEW w \in Workers, NEW state,
         Become(w, state), state.at \notin {"locked", "replace"}
  PROVE  EditInv'
<1>1. work' = [v \in Workers |-> IF v = w THEN state ELSE work[v]]
  BY DEF Become, EditInv
<1>2. work' = [v \in Workers |-> work'[v]]
  BY <1>1
<1>3. LockIsHeld' /\ ReadIsCurrent'
  BY <1>1 DEF EditInv, LockIsHeld, ReadIsCurrent
<1>4. QED BY <1>2, <1>3 DEF EditInv

\* Nobody is between reading and replacing while the lock is free.
LEMMA FreeLock ==
  ASSUME EditInv, lock = None
  PROVE  \A w \in Workers : work[w].at \notin {"locked", "replace"}
BY NoneAssumption DEF EditInv, LockIsHeld, Workers

\* Every step of a thread, of the command line and of an editor with a text
\* editor.
LEMMA EditStepInv == EditInv /\ [AdminNext]_adminVars => EditInv'
<1> SUFFICES ASSUME EditInv, [AdminNext]_adminVars PROVE EditInv'
  OBVIOUS
<1>a. Threads \subseteq Workers /\ Cli \in Workers
  BY DEF Workers
<1>1. ASSUME NEW w \in Threads,
             \/ Arrive(w) \/ Identify(w) \/ Login(w) \/ Logout(w) \/ CreateToken(w) \/ Revoke(w)
             \/ CheckToken(w) \/ Touch(w) \/ Ban(w) \/ StoreBan(w)
      PROVE  EditInv'
  <2>1. UNCHANGED <<file, lock>>
    BY <1>1 DEF Arrive, Identify, Login, Logout, CreateToken, Revoke, CheckToken, Touch, Ban,
                StoreBan, fileVars
  <2>2. PICK state : Become(w, state) /\ state.at \notin {"locked", "replace"}
    <3>1. CASE Arrive(w)
      BY <3>1 DEF Arrive
    <3>2. CASE Identify(w)
      BY <3>2 DEF Identify, Idle
    <3>3. CASE CheckToken(w)
      BY <3>3 DEF CheckToken, Idle
    <3>4. CASE Ban(w)
      BY <3>4 DEF Ban, Idle
    <3>5. CASE Login(w) \/ Logout(w) \/ CreateToken(w) \/ Revoke(w) \/ Touch(w) \/ StoreBan(w)
      BY <3>5 DEF Login, Logout, CreateToken, Revoke, Touch, StoreBan, Idle
    <3>6. QED BY <1>1, <3>1, <3>2, <3>3, <3>4, <3>5
  <2>3. QED BY <1>a, <2>1, <2>2, NoEdit
<1>2. ASSUME NEW w \in Workers, lock = None, lock' = w, UNCHANGED file,
             NEW state, Become(w, state), state.at = "locked"
      PROVE  EditInv'
  <2>1. work' = [v \in Workers |-> IF v = w THEN state ELSE work[v]]
    BY <1>2 DEF Become, EditInv
  <2>2. \A v \in Workers \ {w} : work'[v].at \notin {"locked", "replace"}
    BY <1>2, <2>1, FreeLock
  <2>3. QED BY <1>2, <2>1, <2>2 DEF EditInv, LockIsHeld, ReadIsCurrent
<1>3. ASSUME NEW w \in Threads, Lock(w) PROVE EditInv'
  <2>1. PICK edit \in DashboardEdits :
          Become(w, [at |-> "locked", admin |-> work[w].admin, edit |-> edit])
    BY <1>3 DEF Lock
  <2>2. lock = None /\ lock' = w /\ UNCHANGED file
    BY <1>3 DEF Lock
  <2>3. QED BY <1>a, <1>2, <2>1, <2>2
<1>4. ASSUME LockCli PROVE EditInv'
  <2>1. Become(Cli, [at |-> "locked", admin |-> None, edit |-> [do |-> "password", hash |-> made']])
    BY <1>4 DEF LockCli
  <2>2. lock = None /\ lock' = Cli /\ UNCHANGED file
    BY <1>4 DEF LockCli
  <2>3. QED BY <1>a, <1>2, <2>1, <2>2
<1>5. ASSUME NEW w \in Workers, work[w].at \in {"locked", "replace"}, lock' = None,
             Become(w, Idle)
      PROVE  EditInv'
  <2>1. work' = [v \in Workers |-> IF v = w THEN Idle ELSE work[v]]
    BY <1>5 DEF Become, EditInv
  <2>2. \A v \in Workers \ {w} : work[v].at \notin {"locked", "replace"}
    BY <1>5 DEF EditInv, LockIsHeld
  <2>3. \A v \in Workers : work'[v].at \notin {"locked", "replace"}
    BY <2>1, <2>2 DEF Idle
  <2>4. QED BY <2>1, <2>3 DEF EditInv, LockIsHeld, ReadIsCurrent
<1>6. ASSUME NEW w \in Workers, Review(w) PROVE EditInv'
  <2>1. work[w].at = "locked" /\ UNCHANGED file
    BY <1>6 DEF Review
  <2>2. CASE (w = Cli \/ Authorised(work[w])) /\ Accepted(file) /\ Applicable(file, work[w].edit)
    <3> DEFINE state == [at |-> "replace", admin |-> work[w].admin, edit |-> work[w].edit,
                         base |-> file]
    <3>1. Become(w, state) /\ UNCHANGED lock
      BY <1>6, <2>2 DEF Review
    <3>2. work' = [v \in Workers |-> IF v = w THEN state ELSE work[v]]
      BY <3>1 DEF Become, EditInv
    <3>3. lock = w /\ \A v \in Workers \ {w} : work[v].at \notin {"locked", "replace"}
      BY <2>1 DEF EditInv, LockIsHeld
    <3>4. w # Cli => file.password # None /\ state.admin = file.password
      BY <2>2 DEF Authorised
    <3>5. state.at = "replace" /\ state.base = file
      OBVIOUS
    <3> HIDE DEF state
    <3>6. LockIsHeld'
      BY <3>1, <3>2, <3>3 DEF LockIsHeld
    <3>7. ReadIsCurrent'
      BY <2>1, <3>2, <3>3, <3>4, <3>5 DEF ReadIsCurrent
    <3>8. QED BY <3>2, <3>6, <3>7 DEF EditInv
  <2>3. CASE ~((w = Cli \/ Authorised(work[w])) /\ Accepted(file) /\ Applicable(file, work[w].edit))
    <3>1. Become(w, Idle) /\ lock' = None
      BY <1>6, <2>3 DEF Review
    <3>2. QED BY <1>5, <2>1, <3>1
  <2>4. QED BY <2>2, <2>3
<1>7. ASSUME NEW w \in Workers, Replace(w) PROVE EditInv'
  BY <1>5, <1>7 DEF Replace
<1>8. ASSUME Killed PROVE EditInv'
  <2>1. PICK dead \in {Threads, {Cli}} :
          /\ work' = [w \in DOMAIN work |-> IF w \in dead THEN Idle ELSE work[w]]
          /\ lock' = IF lock \in dead THEN None ELSE lock
    BY <1>8 DEF Killed
  <2>2. work' = [w \in Workers |-> IF w \in dead THEN Idle ELSE work[w]] /\ UNCHANGED file
    BY <1>8, <2>1 DEF EditInv, Killed
  <2>3. Idle.at = "idle"
    BY DEF Idle
  <2>4. QED BY <2>1, <2>2, <2>3 DEF EditInv, LockIsHeld, ReadIsCurrent
<1>9. ASSUME HandEdit PROVE EditInv'
  <2>1. lock = None /\ UNCHANGED <<lock, work>>
    BY <1>9 DEF HandEdit
  <2>2. \A w \in Workers : work[w].at \notin {"locked", "replace"}
    BY <2>1, FreeLock
  <2>3. QED BY <2>1, <2>2 DEF EditInv, LockIsHeld, ReadIsCurrent
<1>10. ASSUME UNCHANGED <<file, lock, work>> PROVE EditInv'
  BY <1>10 DEF EditInv, LockIsHeld, ReadIsCurrent
<1>11. Tick \/ UNCHANGED adminVars => UNCHANGED <<file, lock, work>>
  BY DEF Tick, adminVars, fileVars
<1>12. QED
  BY <1>1, <1>3, <1>4, <1>6, <1>7, <1>8, <1>9, <1>10, <1>11 DEF AdminNext, Workers

\* config_lock: from reading the file to replacing it nobody else replaces it.
THEOREM EditInvariant == AdminSpec => []EditInv
<1>1. AdminInit => EditInv
  BY DEF AdminInit, EditInv, LockIsHeld, ReadIsCurrent, Idle, Workers
<1>2. QED BY <1>1, EditStepInv, PTL DEF AdminSpec

\* What replaces the file, but for a text editor.
LEMMA OnlyReplace ==
  ASSUME EditInv, [AdminNext]_adminVars, file' # file, ~hand'
  PROVE  \E w \in Workers : /\ Replace(w) /\ work[w].base = file
                            /\ Accepted(Edited(file, work[w].edit))
                            /\ file' = Edited(file, work[w].edit)
<1>1. \E w \in Workers : Replace(w)
  BY DEF AdminNext, adminVars, Arrive, Identify, Login, Logout, CreateToken, Revoke, CheckToken,
         Touch, Lock, Ban, StoreBan, LockCli, Review, Killed, HandEdit, Tick, fileVars, Workers
<1>2. PICK w \in Workers : Replace(w)
  BY <1>1
<1>3. work[w].base = file
  BY <1>2 DEF Replace, EditInv, ReadIsCurrent
<1>4. QED BY <1>2, <1>3 DEF Replace

\* No edit of a dashboard or of the command line is lost or mixed with another:
\* each is applied, valid, to the content of the file (locked_config,
\* atomic_config).
THEOREM EditsAlwaysSerial == AdminSpec => EditsAreSerial
<1>1. EditInv /\ [AdminNext]_adminVars =>
        [file' # file /\ ~hand' =>
           /\ Accepted(file')
           /\ \E w \in DOMAIN work : /\ work[w].at = "replace" /\ work'[w] = Idle
                                     /\ file' = Edited(file, work[w].edit)]_adminVars
  <2> SUFFICES ASSUME EditInv, [AdminNext]_adminVars, file' # file, ~hand'
               PROVE  /\ Accepted(file')
                      /\ \E w \in DOMAIN work : /\ work[w].at = "replace" /\ work'[w] = Idle
                                                /\ file' = Edited(file, work[w].edit)
    OBVIOUS
  <2>1. PICK w \in Workers : /\ Replace(w) /\ Accepted(Edited(file, work[w].edit))
                             /\ file' = Edited(file, work[w].edit)
    BY OnlyReplace
  <2>2. DOMAIN work = Workers
    BY DEF EditInv
  <2>3. work[w].at = "replace" /\ work'[w] = Idle
    BY <2>1, <2>2 DEF Replace, Become, EditInv
  <2>4. QED BY <2>1, <2>2, <2>3
<1>2. QED BY <1>1, EditInvariant, PTL DEF AdminSpec, EditsAreSerial

\* What a dashboard writes is authorised when it is written: by a session under
\* the password that is in the file at that moment (update_safe_config_payload
\* checks it under the lock).
THEOREM WritesAlwaysAuthorised == AdminSpec => WritesAreAuthorised
<1>1. EditInv /\ [AdminNext]_adminVars =>
        [\A w \in Threads : file' # file /\ ~hand' /\ work[w].at = "replace" /\ work'[w] = Idle
           => file.password # None /\ file.password = work[w].admin]_adminVars
  BY ClockAssumption DEF EditInv, ReadIsCurrent, Workers
<1>2. QED BY <1>1, EditInvariant, PTL DEF AdminSpec, WritesAreAuthorised

-----------------------------------------------------------------------------
(* Tokens                                                                    *)

\* The table of tokens is well formed, and a thread that writes one back knows
\* one that is there.
TokenInv ==
  /\ work = [w \in Workers |-> work[w]]
  /\ now \in Nat
  /\ tokens \in [Tokens -> TokenRows \cup {None}]
  /\ \A t \in Tokens : tokens[t] # None /\ tokens[t].revoked => tokens[t].since # None
  /\ \A w \in Workers : work[w].at = "touch" =>
       work[w].token \in Tokens /\ tokens[work[w].token] # None /\ work[w].time \in Nat

\* A step that touches no row and brings no thread to write one.
LEMMA NoTouch ==
  ASSUME TokenInv, UNCHANGED <<tokens, now>>,
         NEW w \in Workers, NEW state, Become(w, state), state.at # "touch"
  PROVE  TokenInv'
<1>1. work' = [v \in Workers |-> IF v = w THEN state ELSE work[v]]
  BY DEF Become, TokenInv
<1>2. \A v \in Workers : work'[v].at = "touch" => work'[v] = work[v]
  BY <1>1
<1>3. QED BY <1>1, <1>2 DEF TokenInv

\* A step that writes the row of one token, which stays revoked if it was.
LEMMA RowWritten ==
  ASSUME TokenInv, UNCHANGED now, NEW w \in Workers, Become(w, Idle),
         NEW t \in Tokens, NEW row \in TokenRows, row.revoked => row.since # None,
         tokens' = [tokens EXCEPT ![t] = row]
  PROVE  TokenInv'
<1>1. work' = [v \in Workers |-> IF v = w THEN Idle ELSE work[v]]
  BY DEF Become, TokenInv
<1>2. \A v \in Workers : work'[v].at = "touch" => work'[v] = work[v]
  BY <1>1 DEF Idle
<1>3. row # None
  BY NoneAssumption DEF TokenRows
<1>4. tokens' \in [Tokens -> TokenRows \cup {None}]
  BY DEF TokenInv
<1>5. \A u \in Tokens : tokens'[u] # None /\ tokens'[u].revoked => tokens'[u].since # None
  BY DEF TokenInv
<1>6. \A u \in Tokens : tokens[u] # None => tokens'[u] # None
  BY <1>3 DEF TokenInv
<1>7. QED BY <1>1, <1>2, <1>4, <1>5, <1>6 DEF TokenInv

\* Of a row that is there, and revoked, nothing is written.
Frozen(t) == tokens[t] # None /\ tokens[t].revoked => tokens'[t] = tokens[t]

\* Every step keeps the table well formed and leaves what is revoked as it is.
LEMMA TokenStep ==
  ASSUME TokenInv, [AdminNext]_adminVars
  PROVE  TokenInv' /\ \A t \in Tokens : Frozen(t)
<1>a. Threads \subseteq Workers /\ Cli \in Workers
  BY DEF Workers
<1>b. Idle.at = "idle"
  BY DEF Idle
<1>1. ASSUME NEW w \in Workers, NEW state, Become(w, state), state.at # "touch",
             UNCHANGED <<tokens, now>>
      PROVE  TokenInv' /\ \A t \in Tokens : Frozen(t)
  BY <1>1, NoTouch DEF Frozen
<1>2. ASSUME NEW w \in Threads,
             Arrive(w) \/ Identify(w) \/ Login(w) \/ Logout(w) \/ Ban(w) \/ StoreBan(w) \/ Lock(w)
      PROVE  TokenInv' /\ \A t \in Tokens : Frozen(t)
  <2>1. UNCHANGED <<tokens, now>>
    BY <1>2 DEF Arrive, Identify, Login, Logout, Ban, StoreBan, Lock, tableVars, restVars
  <2>2. PICK state : Become(w, state) /\ state.at # "touch"
    <3>1. CASE Arrive(w)
      BY <3>1 DEF Arrive
    <3>2. CASE Identify(w)
      BY <1>b, <3>2 DEF Identify
    <3>3. CASE Ban(w)
      BY <1>b, <3>3 DEF Ban
    <3>4. CASE Lock(w)
      BY <3>4 DEF Lock
    <3>5. CASE Login(w) \/ Logout(w) \/ StoreBan(w)
      BY <1>b, <3>5 DEF Login, Logout, StoreBan
    <3>6. QED BY <1>2, <3>1, <3>2, <3>3, <3>4, <3>5
  <2>3. QED BY <1>a, <1>1, <2>1, <2>2
<1>3. ASSUME LockCli PROVE TokenInv' /\ \A t \in Tokens : Frozen(t)
  <2>1. PICK state : Become(Cli, state) /\ state.at # "touch"
    BY <1>3 DEF LockCli
  <2>2. QED BY <1>a, <1>1, <1>3, <2>1 DEF LockCli, tableVars, restVars
<1>4. ASSUME NEW w \in Workers, Review(w) \/ Replace(w)
      PROVE  TokenInv' /\ \A t \in Tokens : Frozen(t)
  <2>1. UNCHANGED <<tokens, now>>
    BY <1>4 DEF Review, Replace, tableVars, restVars
  <2>2. PICK state : Become(w, state) /\ state.at # "touch"
    <3>1. CASE Review(w)
      BY <1>b, <3>1 DEF Review
    <3>2. CASE Replace(w)
      BY <1>b, <3>2 DEF Replace
    <3>3. QED BY <1>4, <3>1, <3>2
  <2>3. QED BY <1>1, <2>1, <2>2
<1>5. ASSUME NEW w \in Threads, CreateToken(w)
      PROVE  TokenInv' /\ \A t \in Tokens : Frozen(t)
  <2>1. PICK t \in Tokens, scope \in {None} \cup SUBSET Ids :
          /\ tokens[t] = None
          /\ \/ tokens' = tokens
             \/ tokens' = [tokens EXCEPT ![t] = [scope |-> scope, expires |-> now + Lifetime,
                                                 used |-> None, revoked |-> FALSE, since |-> None]]
    BY <1>5 DEF CreateToken
  <2>2. Become(w, Idle) /\ UNCHANGED now
    BY <1>5 DEF CreateToken, restVars
  <2>3. CASE tokens' = tokens
    BY <1>a, <1>b, <1>1, <2>2, <2>3
  <2>4. CASE tokens' # tokens
    <3> DEFINE row == [scope |-> scope, expires |-> now + Lifetime,
                       used |-> None, revoked |-> FALSE, since |-> None]
    <3>1. row \in TokenRows /\ (row.revoked => row.since # None)
      BY ClockAssumption DEF TokenRows, TokenInv
    <3>2. tokens' = [tokens EXCEPT ![t] = row]
      BY <2>1, <2>4
    <3> HIDE DEF row
    <3>3. TokenInv'
      BY <1>a, <2>2, <3>1, <3>2, RowWritten
    <3>4. \A u \in Tokens : Frozen(u)
      BY <2>1, <3>2 DEF Frozen, TokenInv
    <3>5. QED BY <3>3, <3>4
  <2>5. QED BY <2>3, <2>4
<1>6. ASSUME NEW w \in Threads, Revoke(w)
      PROVE  TokenInv' /\ \A t \in Tokens : Frozen(t)
  <2>1. PICK t \in Tokens :
          /\ tokens[t] # None
          /\ tokens' = [tokens EXCEPT ![t].revoked = TRUE,
                                      ![t].since = IF @ = None THEN now ELSE @]
    BY <1>6 DEF Revoke
  <2>2. Become(w, Idle) /\ UNCHANGED now
    BY <1>6 DEF Revoke, restVars
  <2>3. tokens[t] \in TokenRows
    BY <2>1 DEF TokenInv
  <2> DEFINE row == [tokens[t] EXCEPT !.revoked = TRUE,
                                      !.since = IF @ = None THEN now ELSE @]
  <2>4. tokens' = [tokens EXCEPT ![t] = row]
    BY <2>1, <2>3 DEF TokenInv
  <2>5. row \in TokenRows /\ row.since # None
    BY <2>3, NoneAssumption DEF TokenInv, TokenRows
  <2>6. tokens[t].revoked => row = tokens[t]
    <3>1. tokens[t].revoked => tokens[t].since # None
      BY <2>1 DEF TokenInv
    <3>2. QED BY <2>3, <3>1 DEF TokenRows
  <2> HIDE DEF row
  <2>7. TokenInv'
    BY <1>a, <2>2, <2>4, <2>5, RowWritten
  <2>8. \A u \in Tokens : Frozen(u)
    BY <2>4, <2>6 DEF Frozen, TokenInv
  <2>9. QED BY <2>7, <2>8
<1>7. ASSUME NEW w \in Threads, CheckToken(w)
      PROVE  TokenInv' /\ \A t \in Tokens : Frozen(t)
  <2>1. PICK t \in Tokens : Become(w, IF Usable(t) /\ tokens[t].used # now
                 THEN [at |-> "touch", token |-> t, time |-> now] ELSE Idle)
    BY <1>7 DEF CheckToken
  <2>2. UNCHANGED <<tokens, now>>
    BY <1>7 DEF CheckToken, tableVars, restVars
  <2>3. CASE Usable(t) /\ tokens[t].used # now
    <3>1. work' = [v \in Workers |-> IF v = w THEN [at |-> "touch", token |-> t, time |-> now]
                                     ELSE work[v]]
      BY <2>1, <2>3 DEF Become, TokenInv
    <3>2. tokens[t] # None
      BY <2>3 DEF Usable
    <3>3. QED BY <2>2, <3>1, <3>2 DEF TokenInv, Frozen
  <2>4. CASE ~(Usable(t) /\ tokens[t].used # now)
    <3>1. Become(w, Idle)
      BY <2>1, <2>4
    <3>2. QED BY <1>a, <1>b, <1>1, <2>2, <3>1
  <2>5. QED BY <2>3, <2>4
<1>8. ASSUME NEW w \in Threads, Touch(w)
      PROVE  TokenInv' /\ \A t \in Tokens : Frozen(t)
  <2> DEFINE t == work[w].token
             row == [tokens[t] EXCEPT !.used = work[w].time]
  <2>1. t \in Tokens /\ tokens[t] \in TokenRows /\ work[w].time \in Nat
    BY <1>a, <1>8 DEF Touch, TokenInv
  <2>2. \/ tokens' = tokens
        \/ ~tokens[t].revoked /\ tokens' = [tokens EXCEPT ![t].used = work[w].time]
    BY <1>8 DEF Touch
  <2>3. Become(w, Idle) /\ UNCHANGED now
    BY <1>8 DEF Touch, restVars
  <2>4. CASE tokens' = tokens
    BY <1>a, <1>b, <1>1, <2>3, <2>4
  <2>5. CASE ~tokens[t].revoked /\ tokens' = [tokens EXCEPT ![t].used = work[w].time]
    <3>1. tokens' = [tokens EXCEPT ![t] = row]
      BY <2>1, <2>5 DEF TokenInv
    <3>2. row \in TokenRows /\ (row.revoked => row.since # None)
      BY <2>1, <2>5 DEF TokenRows
    <3> HIDE DEF t, row
    <3>3. TokenInv'
      BY <1>a, <2>1, <2>3, <3>1, <3>2, RowWritten
    <3>4. \A u \in Tokens : Frozen(u)
      BY <2>5, <3>1 DEF Frozen, TokenInv
    <3>5. QED BY <3>3, <3>4
  <2>6. QED BY <2>2, <2>4, <2>5
<1>9. ASSUME Killed PROVE TokenInv' /\ \A t \in Tokens : Frozen(t)
  <2>1. PICK dead \in {Threads, {Cli}} :
          work' = [w \in DOMAIN work |-> IF w \in dead THEN Idle ELSE work[w]]
    BY <1>9 DEF Killed
  <2>2. UNCHANGED <<tokens, now>>
    BY <1>9 DEF Killed, tableVars, restVars
  <2>3. work' = [w \in Workers |-> IF w \in dead THEN Idle ELSE work[w]]
    BY <2>1 DEF TokenInv
  <2>4. QED BY <1>b, <2>2, <2>3 DEF TokenInv, Frozen
<1>10. ASSUME HandEdit \/ Tick \/ UNCHANGED adminVars
       PROVE  TokenInv' /\ \A t \in Tokens : Frozen(t)
  <2>1. UNCHANGED <<tokens, work>> /\ now' \in {now, now + 1}
    BY <1>10 DEF HandEdit, Tick, adminVars, tableVars, restVars
  <2>2. QED BY <2>1 DEF TokenInv, Frozen
<1>11. QED
  BY <1>2, <1>3, <1>4, <1>5, <1>6, <1>7, <1>8, <1>9, <1>10 DEF AdminNext, Workers

\* A revoked token is out of use for good, and an answer that is late does not
\* write its row (revoke_token, token_access).
THEOREM RevokedAlwaysFrozen == AdminSpec => RevokedIsFrozen
<1>1. AdminInit => TokenInv
  BY DEF AdminInit, TokenInv, Idle, Workers
<1>2. TokenInv /\ [AdminNext]_adminVars => TokenInv'
  BY TokenStep
<1>3. TokenInv /\ [AdminNext]_adminVars =>
        [\A t \in Tokens : tokens[t] # None /\ tokens[t].revoked => tokens'[t] = tokens[t]]_adminVars
  BY TokenStep DEF Frozen
<1>4. QED BY <1>1, <1>2, <1>3, PTL DEF AdminSpec, RevokedIsFrozen

-----------------------------------------------------------------------------
(* The request log                                                         *)

\* Rows that have nothing in common are counted one by one.
LEMMA DisjointUnion ==
  ASSUME NEW S, NEW T, IsFiniteSet(S), IsFiniteSet(T), S \cap T = {}
  PROVE  Cardinality(S \cup T) = Cardinality(S) + Cardinality(T)
<1>1. Cardinality(S \cap T) = 0
  BY FS_EmptySet
<1>2. Cardinality(S) \in Nat /\ Cardinality(T) \in Nat
  BY FS_CardinalityType
<1>3. Cardinality(S \cup T) = Cardinality(S) + Cardinality(T) - Cardinality(S \cap T)
  BY FS_Union
<1>4. QED BY <1>1, <1>2, <1>3

\* A counter of rows that have nothing in common is the sum of theirs.
LEMMA CountedUnion ==
  ASSUME NEW key, NEW A, NEW B, IsFiniteSet(A), IsFiniteSet(B), A \cap B = {}
  PROVE  /\ Counted(key, A \cup B).total = Counted(key, A).total + Counted(key, B).total
         /\ Counted(key, A \cup B).hits = Counted(key, A).hits + Counted(key, B).hits
<1> DEFINE MineA == {r \in A : key \in KeysOf(r)}
           MineB == {r \in B : key \in KeysOf(r)}
           HitA  == {r \in MineA : r.hit}
           HitB  == {r \in MineB : r.hit}
           Mine  == {r \in A \cup B : key \in KeysOf(r)}
           Hit   == {r \in Mine : r.hit}
<1>1. Mine = MineA \cup MineB /\ MineA \cap MineB = {} /\ MineA \subseteq A /\ MineB \subseteq B
  OBVIOUS
<1>2. Hit = HitA \cup HitB /\ HitA \cap HitB = {} /\ HitA \subseteq A /\ HitB \subseteq B
  OBVIOUS
<1>3. /\ Counted(key, A).total = Cardinality(MineA)
      /\ Counted(key, A).hits = IF key[1] \in {"repo", "hour"} THEN Cardinality(HitA) ELSE 0
  BY DEF Counted, HitsIn
<1>4. /\ Counted(key, B).total = Cardinality(MineB)
      /\ Counted(key, B).hits = IF key[1] \in {"repo", "hour"} THEN Cardinality(HitB) ELSE 0
  BY DEF Counted, HitsIn
<1>5. /\ Counted(key, A \cup B).total = Cardinality(Mine)
      /\ Counted(key, A \cup B).hits = IF key[1] \in {"repo", "hour"} THEN Cardinality(Hit) ELSE 0
  BY DEF Counted, HitsIn
<1> HIDE DEF MineA, MineB, HitA, HitB, Mine, Hit
<1>6. /\ IsFiniteSet(MineA) /\ IsFiniteSet(MineB) /\ IsFiniteSet(HitA) /\ IsFiniteSet(HitB)
  BY <1>1, <1>2, FS_Subset
<1>7. /\ Cardinality(MineA) \in Nat /\ Cardinality(MineB) \in Nat
      /\ Cardinality(HitA) \in Nat /\ Cardinality(HitB) \in Nat
  BY <1>6, FS_CardinalityType
<1>8. Cardinality(Mine) = Cardinality(MineA) + Cardinality(MineB)
  BY <1>1, <1>6, DisjointUnion
<1>9. Cardinality(Hit) = Cardinality(HitA) + Cardinality(HitB)
  BY <1>2, <1>6, DisjointUnion
<1>10. QED BY <1>3, <1>4, <1>5, <1>8, <1>9

\* A counter is a record of two numbers, and zero where no row has its key.
LEMMA CountedType ==
  ASSUME NEW key, NEW A, IsFiniteSet(A)
  PROVE  /\ Counted(key, A) = [total |-> Counted(key, A).total, hits |-> Counted(key, A).hits]
         /\ Counted(key, A).total \in Nat /\ Counted(key, A).hits \in Nat
         /\ Counted(key, A).total = 0 <=> \A r \in A : key \notin KeysOf(r)
         /\ (\A r \in A : key \notin KeysOf(r)) => Counted(key, A) = Zero
<1> DEFINE Mine == {r \in A : key \in KeysOf(r)}
           Hit  == {r \in Mine : r.hit}
<1>1. Mine \subseteq A /\ Hit \subseteq A /\ (Mine = {} => Hit = {})
  OBVIOUS
<1>2. Counted(key, A) = [total |-> Cardinality(Mine),
                         hits |-> IF key[1] \in {"repo", "hour"} THEN Cardinality(Hit) ELSE 0]
  BY DEF Counted, HitsIn
<1>3. Mine = {} <=> \A r \in A : key \notin KeysOf(r)
  OBVIOUS
<1> HIDE DEF Mine, Hit
<1>4. IsFiniteSet(Mine) /\ IsFiniteSet(Hit)
  BY <1>1, FS_Subset
<1>5. Cardinality(Mine) \in Nat /\ Cardinality(Hit) \in Nat
  BY <1>4, FS_CardinalityType
<1>6. (Cardinality(Mine) = 0 <=> Mine = {}) /\ (Mine = {} => Cardinality(Hit) = 0)
  BY <1>1, <1>4, FS_EmptySet
<1>7. QED BY <1>2, <1>3, <1>5, <1>6 DEF Zero

-----------------------------------------------------------------------------
\* Ids and times of the rows are those given so far.
LogTypes ==
  /\ IsFiniteSet(rows) /\ lastId \in Nat /\ second \in Nat
  /\ \A r \in rows : r.id \in Nat /\ r.id <= lastId /\ r.ts \in Nat /\ r.ts <= second

\* Every key of a row has a counter, and a counter says what counting would say.
CountersMatch ==
  counters # Nothing =>
    /\ \A r \in rows : KeysOf(r) \subseteq DOMAIN counters
    /\ \A k \in DOMAIN counters : counters[k] = Counted(k, rows)

\* Counters that say what counting would say make the reports exact.
LEMMA MatchIsExact ==
  ASSUME LogTypes, CountersMatch
  PROVE  ReportsAreExact
<1> SUFFICES ASSUME counters # Nothing, NEW key \in DOMAIN counters \cup UNION {KeysOf(r) : r \in rows}
             PROVE  Reported(key) = Counted(key, rows)
  BY DEF ReportsAreExact
<1>1. key \in DOMAIN counters
  BY DEF CountersMatch
<1>2. counters[key] = Counted(key, rows)
  BY <1>1 DEF CountersMatch
<1>3. QED BY <1>1, <1>2, CountedType DEF Reported, LogTypes

\* record_request: the row of a datagram is new, with the next id and the time it
\* is.
LEMMA FreshRow ==
  ASSUME LogTypes, NEW d \in Datagrams
  PROVE  /\ RowOf(d) \notin rows
         /\ RowOf(d).id = lastId + 1 /\ RowOf(d).ts = second
         /\ IsFiniteSet(rows \cup {RowOf(d)})
<1>1. RowOf(d).id = lastId + 1 /\ RowOf(d).ts = second
  BY DEF RowOf
<1>2. RowOf(d) \notin rows
  BY <1>1 DEF LogTypes
<1>3. QED BY <1>1, <1>2, FS_AddElement DEF LogTypes

\* record_request: with its row the counters of its keys are raised.
LEMMA AddedMatches ==
  ASSUME LogTypes, CountersMatch, NEW d \in Datagrams,
         rows' = rows \cup {RowOf(d)}, counters' = Added(RowOf(d)), counters # Nothing
  PROVE  CountersMatch'
<1> DEFINE row == RowOf(d)
<1>1. row \notin rows
  BY FreshRow
<1> HIDE DEF row
<1>2. counters' = [k \in DOMAIN counters \cup KeysOf(row) |->
          LET old == IF k \in DOMAIN counters THEN counters[k] ELSE Zero
              one == IF k \in KeysOf(row) THEN Counted(k, {row}) ELSE Zero IN
          [total |-> old.total + one.total, hits |-> old.hits + one.hits]]
  BY DEF Added, row
<1>3. \A r \in rows' : KeysOf(r) \subseteq DOMAIN counters'
  BY <1>2 DEF row, CountersMatch
<1>4. ASSUME NEW k \in DOMAIN counters' PROVE counters'[k] = Counted(k, rows')
  <2>1. (IF k \in DOMAIN counters THEN counters[k] ELSE Zero) = Counted(k, rows)
    BY CountedType DEF CountersMatch, LogTypes
  <2>2. IsFiniteSet({row})
    BY FS_Singleton
  <2>3. (IF k \in KeysOf(row) THEN Counted(k, {row}) ELSE Zero) = Counted(k, {row})
    BY <2>2, CountedType
  <2>4. counters'[k] = [total |-> Counted(k, rows).total + Counted(k, {row}).total,
                        hits |-> Counted(k, rows).hits + Counted(k, {row}).hits]
    BY <1>2, <2>1, <2>3
  <2>5. rows' = rows \cup {row} /\ rows \cap {row} = {} /\ IsFiniteSet(rows')
    BY <1>1, FreshRow DEF row
  <2>6. QED BY <2>2, <2>4, <2>5, CountedUnion, CountedType DEF LogTypes
<1>5. QED BY <1>3, <1>4 DEF CountersMatch

\* _delete_requests: with the rows of a chunk their counters are lowered.
LEMMA RemovedMatches ==
  ASSUME LogTypes, CountersMatch, NEW gone \in SUBSET rows,
         rows' = rows \ gone, counters' = Removed(gone), counters # Nothing
  PROVE  CountersMatch'
<1>1. counters' = [k \in DOMAIN counters |->
           [total |-> counters[k].total - Counted(k, gone).total,
            hits  |-> counters[k].hits - Counted(k, gone).hits]]
  BY DEF Removed
<1>2. IsFiniteSet(gone) /\ IsFiniteSet(rows')
  BY FS_Subset DEF LogTypes
<1>3. rows = rows' \cup gone /\ rows' \cap gone = {}
  OBVIOUS
<1>4. ASSUME NEW k \in DOMAIN counters' PROVE counters'[k] = Counted(k, rows')
  <2>1. k \in DOMAIN counters /\ counters[k] = Counted(k, rows)
    BY <1>1 DEF CountersMatch
  <2>2. /\ counters[k].total = Counted(k, rows').total + Counted(k, gone).total
        /\ counters[k].hits = Counted(k, rows').hits + Counted(k, gone).hits
    BY <1>2, <1>3, <2>1, CountedUnion
  <2>3. /\ counters[k].total - Counted(k, gone).total = Counted(k, rows').total
        /\ counters[k].hits - Counted(k, gone).hits = Counted(k, rows').hits
    BY <1>2, <2>2, CountedType
  <2>4. QED BY <1>1, <1>2, <2>1, <2>3, CountedType
<1>5. QED BY <1>1, <1>4 DEF CountersMatch

\* Every statement, and the migration that fills the counters, keeps them.
LEMMA MatchStep ==
  ASSUME LogTypes, CountersMatch, [LogNext]_logVars
  PROVE  CountersMatch'
<1>1. CASE Receive
  <2>1. PICK d \in Datagrams : rows' = rows \cup {RowOf(d)} /\ counters' = Added(RowOf(d))
    BY <1>1 DEF Receive
  <2>2. CASE counters = Nothing
    BY <2>1, <2>2 DEF Added, CountersMatch
  <2>3. QED BY <2>1, <2>2, AddedMatches
<1>2. CASE OpenStore
  BY <1>2 DEF OpenStore, Backfilled, CountersMatch
<1>3. ASSUME NEW p \in Pruners, DeleteChunk(p) PROVE CountersMatch'
  <2>1. PICK gone \in SUBSET rows : rows' = rows \ gone /\ counters' = Removed(gone)
    BY <1>3 DEF DeleteChunk, Matching
  <2>2. CASE counters = Nothing
    BY <2>1, <2>2 DEF Removed, CountersMatch
  <2>3. QED BY <2>1, <2>2, RemovedMatches
<1>4. ASSUME NEW p \in Pruners, Sweep(p) PROVE CountersMatch'
  <2>1. CASE counters = Nothing
    BY <1>4, <2>1 DEF Sweep, CountersMatch
  <2>2. CASE counters # Nothing
    <3>1. /\ counters' = [k \in {j \in DOMAIN counters : counters[j].total > 0} |-> counters[k]]
          /\ rows' = rows
      BY <1>4, <2>2 DEF Sweep
    <3>2. ASSUME NEW r \in rows, NEW k \in KeysOf(r) PROVE k \in DOMAIN counters'
      <4>1. k \in DOMAIN counters /\ counters[k] = Counted(k, rows)
        BY <2>2 DEF CountersMatch
      <4>2. Counted(k, rows).total \in Nat /\ Counted(k, rows).total # 0
        BY CountedType DEF LogTypes
      <4>3. QED BY <3>1, <4>1, <4>2
    <3>3. QED BY <2>2, <3>1, <3>2 DEF CountersMatch
  <2>3. QED BY <2>1, <2>2
<1>5. CASE UNCHANGED <<rows, counters>>
  BY <1>5 DEF CountersMatch
<1>6. ASSUME NEW p \in Pruners, BeginPrune(p) \/ FindBoundary(p) \/ EndPruner(p)
      PROVE  UNCHANGED <<rows, counters>>
  BY <1>6 DEF BeginPrune, FindBoundary, EndPruner
<1>7. NextSecond \/ UNCHANGED logVars => UNCHANGED <<rows, counters>>
  BY DEF NextSecond, logVars
<1>8. QED
  BY <1>1, <1>2, <1>3, <1>4, <1>5, <1>6, <1>7 DEF LogNext

-----------------------------------------------------------------------------
(* The pruners                                                               *)

\* A pruner that has found the boundary of prune_requests_by_size.
Sized(job) == job.at \in {"older", "equal"}

\* What a pruner remembers: a cut-off that is over, or a row that was there.
IsJob(job) ==
  /\ job.at \in {"idle", "sweep", "age", "boundary", "older", "equal"}
  /\ job.at = "age" =>
       /\ job.cutoff \in Int /\ job.cutoff <= second - Retention
       /\ job = [at |-> "age", cutoff |-> job.cutoff, removed |-> job.removed]
  /\ Sized(job) =>
       /\ job.row.id \in Nat /\ job.row.id <= lastId
       /\ job.row.ts \in Nat /\ job.row.ts <= second
       /\ job = [at |-> job.at, row |-> job.row, removed |-> job.removed]

\* Every pruner is at some point of prune_requests or prune_requests_by_size.
PrunerTypes ==
  /\ pruner = [p \in Pruners |-> pruner[p]]
  /\ inserted \in [Pruners -> Nat]
  /\ \A p \in Pruners : IsJob(pruner[p])

\* Those of some rows that come before a row.
Ahead(some, row) == {q \in some : Before(q, row)}

\* What lies past the boundary of a pruner is over its time or over the limit, of
\* whatever rows have come and gone since it looked.
PastLimit ==
  \A p \in Pruners : Sized(pruner[p]) =>
    \/ pruner[p].row.ts < second - Retention
    \/ Cardinality(Ahead(rows, pruner[p].row)) >= MaxRows

\* What lies before it is the limit and what has come in since; and once the older
\* rows are gone no row is older.
WithinLimit ==
  \A p \in Pruners :
    /\ Sized(pruner[p]) => Cardinality(Ahead(rows, pruner[p].row)) <= MaxRows + inserted[p]
    /\ pruner[p].at = "equal" => \A r \in rows : r.ts >= pruner[p].row.ts

\* Together they are inductive: rows come and go under a pruner that looked
\* before.
LogInv == LogTypes /\ CountersMatch /\ PrunerTypes /\ PastLimit /\ WithinLimit

-----------------------------------------------------------------------------
(* What the steps of a pruner do                                             *)

\* What a statement leaves of a boundary.
PastRow(row) == {r \in rows : ~Before(r, row)}

\* A chunk goes on with the same boundary, from the older rows to those of the
\* second when they are gone, and ends when nothing past it is left.
LEMMA ChunkState ==
  ASSUME LogTypes, PrunerTypes, NEW p \in Pruners, DeleteChunk(p)
  PROVE  /\ \A q \in Pruners \ {p} : pruner'[q] = pruner[q]
         /\ pruner' = [q \in Pruners |-> pruner'[q]]
         /\ UNCHANGED <<lastId, second, inserted>>
         /\ rows' \subseteq rows
         /\ \/ /\ pruner[p].at = "age" /\ ~Sized(pruner'[p])
               /\ \A r \in rows \ rows' : r.ts < pruner[p].cutoff
            \/ /\ Sized(pruner[p])
               /\ \A r \in rows \ rows' : ~Before(r, pruner[p].row)
               /\ Sized(pruner'[p]) =>
                    /\ pruner'[p].row = pruner[p].row
                    /\ pruner'[p].at = "equal" =>
                         pruner[p].at = "equal" \/ \A r \in rows' : r.ts >= pruner[p].row.ts
               /\ pruner[p].at = "equal" /\ ~Sized(pruner'[p]) =>
                    \A r \in rows' : r.ts = pruner[p].row.ts => Before(r, pruner[p].row)
         /\ IsJob(pruner'[p])
<1> DEFINE job == pruner[p]
           found == IF job.at \in {"age", "older", "equal"} THEN Matching(job) ELSE {}
           full == Cardinality(found) >= ChunkSize
<1>1. job.at \in {"age", "older", "equal"} /\ found = Matching(job) /\ IsJob(job)
  BY DEF DeleteChunk, PrunerTypes
<1>2. found \subseteq rows /\ IsFiniteSet(found)
  <2>1. found \subseteq rows
    BY <1>1 DEF Matching
  <2>2. QED BY <2>1, FS_Subset DEF LogTypes
<1>3. PICK gone \in SUBSET found :
        /\ Cardinality(gone) = IF full THEN ChunkSize ELSE Cardinality(found)
        /\ rows' = rows \ gone
        /\ LET some == job.removed \/ gone # {} IN
           pruner' = [pruner EXCEPT ![p] =
             IF full THEN [job EXCEPT !.removed = TRUE]
             ELSE IF job.at = "older" THEN [job EXCEPT !.at = "equal", !.removed = some]
             ELSE IF some THEN [at |-> "sweep"] ELSE Resting]
  BY DEF DeleteChunk
<1>4. UNCHANGED <<lastId, second, inserted>>
  BY DEF DeleteChunk
<1>5. ~full => gone = found
  BY <1>2, <1>3, FS_Subset
<1>6. PICK next :
        /\ pruner' = [pruner EXCEPT ![p] = next]
        /\ full => next = [job EXCEPT !.removed = TRUE]
        /\ ~full /\ job.at = "older" =>
             \E some : next = [job EXCEPT !.at = "equal", !.removed = some]
        /\ ~full /\ job.at # "older" => next \in {[at |-> "sweep"], Resting}
  BY <1>3
<1>7. /\ \A q \in Pruners \ {p} : pruner'[q] = pruner[q]
      /\ pruner' = [q \in Pruners |-> pruner'[q]]
      /\ pruner'[p] = next
  BY <1>6 DEF PrunerTypes
<1>8. rows' \subseteq rows /\ gone \subseteq found /\ rows \ rows' = gone
  BY <1>2, <1>3
<1> HIDE DEF found, full
<1>9. CASE job.at = "age"
  <2>1. job = [at |-> "age", cutoff |-> job.cutoff, removed |-> job.removed]
    BY <1>1, <1>9 DEF IsJob
  <2>2. full => /\ next.at = "age" /\ next.cutoff = job.cutoff
                /\ next = [at |-> "age", cutoff |-> next.cutoff, removed |-> next.removed]
    BY <1>6, <2>1
  <2>3. ~full => next.at \in {"sweep", "idle"}
    BY <1>6, <1>9 DEF Resting
  <2>4. ~Sized(next)
    BY <2>2, <2>3 DEF Sized
  <2>5. IsJob(next) 
    BY <1>1, <1>9, <2>2, <2>3, <2>4 DEF IsJob
  <2>6. \A r \in rows \ rows' : r.ts < job.cutoff
    BY <1>1, <1>8, <1>9 DEF Matching
  <2>7. QED BY <1>4, <1>7, <1>8, <1>9, <2>4, <2>5, <2>6 DEF IsJob
<1>10. CASE Sized(job)
  <2>1. /\ job = [at |-> job.at, row |-> job.row, removed |-> job.removed]
        /\ job.row.id \in Nat /\ job.row.ts \in Nat
    BY <1>1, <1>10 DEF IsJob
  <2>2. full => /\ next.at = job.at /\ next.row = job.row
                /\ next = [at |-> next.at, row |-> next.row, removed |-> next.removed]
    BY <1>6, <2>1
  <2>3. ~full /\ job.at = "older" =>
          /\ next.at = "equal" /\ next.row = job.row
          /\ next = [at |-> next.at, row |-> next.row, removed |-> next.removed]
    BY <1>6, <2>1
  <2>4. ~full /\ job.at = "equal" => next.at \in {"sweep", "idle"}
    BY <1>6 DEF Resting
  <2>5. Sized(next) => next.row = job.row
    BY <1>10, <2>2, <2>3, <2>4 DEF Sized
  <2>6. IsJob(next)
    BY <1>1, <1>10, <2>2, <2>3, <2>4 DEF IsJob, Sized
  <2>7. \A r \in rows \ rows' : ~Before(r, job.row)
    BY <1>1, <1>8, <1>10, <2>1 DEF Matching, LogTypes, Before, Sized
  <2>8. next.at = "equal" => job.at = "equal" \/ \A r \in rows' : r.ts >= job.row.ts
    <3> SUFFICES ASSUME next.at = "equal", job.at = "older" PROVE \A r \in rows' : r.ts >= job.row.ts
      BY <1>10 DEF Sized
    <3>1. gone = {r \in rows : r.ts < job.row.ts}
      BY <1>1, <1>5, <2>2 DEF Matching
    <3>2. QED BY <1>3, <2>1, <3>1 DEF LogTypes
  <2>9. job.at = "equal" /\ ~Sized(next) =>
          \A r \in rows' : r.ts = job.row.ts => Before(r, job.row)
    <3> SUFFICES ASSUME job.at = "equal", ~Sized(next)
                 PROVE  \A r \in rows' : r.ts = job.row.ts => Before(r, job.row)
      OBVIOUS
    <3>1. gone = {r \in rows : r.ts = job.row.ts /\ r.id >= job.row.id}
      BY <1>1, <1>5, <2>2 DEF Matching, Sized
    <3>2. QED BY <1>3, <2>1, <3>1 DEF LogTypes, Before
  <2>10. QED BY <1>4, <1>7, <1>8, <1>10, <2>5, <2>6, <2>7, <2>8, <2>9
<1>11. QED BY <1>1, <1>9, <1>10 DEF Sized

-----------------------------------------------------------------------------
(* The steps                                                                 *)

\* A row that comes in is ahead of every boundary, and counted as inserted.
LEMMA ReceiveStep ==
  ASSUME LogInv, Receive
  PROVE  LogTypes' /\ PrunerTypes' /\ PastLimit' /\ WithinLimit'
<1> USE DEF LogInv
<1>1. PICK d \in Datagrams : rows' = rows \cup {RowOf(d)}
  BY DEF Receive
<1>2. /\ lastId' = lastId + 1 /\ UNCHANGED <<pruner, second>>
      /\ inserted' = [p \in Pruners |-> IF pruner[p].at = "idle" THEN 0 ELSE inserted[p] + 1]
  BY DEF Receive
<1> DEFINE row == RowOf(d)
<1>3. row \notin rows /\ row.id = lastId + 1 /\ row.ts = second /\ IsFiniteSet(rows \cup {row})
  BY FreshRow
<1> HIDE DEF row
<1>4. rows' = rows \cup {row}
  BY <1>1 DEF row
<1>5. LogTypes'
  BY <1>2, <1>3, <1>4 DEF LogTypes
<1>6. ASSUME NEW job, IsJob(job) PROVE IsJob(job)'
  BY <1>2, <1>6 DEF IsJob, LogTypes
<1>7. PrunerTypes'
  <2>1. inserted' \in [Pruners -> Nat]
    BY <1>2 DEF PrunerTypes
  <2>2. ASSUME NEW p \in Pruners PROVE IsJob(pruner[p])'
    <3>1. IsJob(pruner[p])
      BY DEF PrunerTypes
    <3>2. QED BY <1>2, <3>1 DEF IsJob, LogTypes
  <2>3. QED BY <1>2, <2>1, <2>2 DEF PrunerTypes
<1>8. ASSUME NEW p \in Pruners, Sized(pruner[p])
      PROVE  /\ Cardinality(Ahead(rows', pruner[p].row)) >= Cardinality(Ahead(rows, pruner[p].row))
             /\ Cardinality(Ahead(rows', pruner[p].row)) <= Cardinality(Ahead(rows, pruner[p].row)) + 1
             /\ Cardinality(Ahead(rows', pruner[p].row)) \in Nat
             /\ Cardinality(Ahead(rows, pruner[p].row)) \in Nat
  <2> DEFINE old == Ahead(rows, pruner[p].row)
             new == Ahead(rows', pruner[p].row)
  <2>1. old \subseteq rows /\ new \subseteq old \cup {row} /\ old \subseteq new
    BY <1>4 DEF Ahead
  <2>2. Ahead(rows', pruner[p].row) = new
    OBVIOUS
  <2>8. Ahead(rows, pruner[p].row) = old
    OBVIOUS
  <2> HIDE DEF old, new
  <2>3. IsFiniteSet(old) /\ IsFiniteSet(old \cup {row})
    BY <2>1, FS_Subset, FS_AddElement DEF LogTypes
  <2>4. IsFiniteSet(new) /\ Cardinality(new) <= Cardinality(old \cup {row})
    BY <2>1, <2>3, FS_Subset
  <2>5. Cardinality(old) <= Cardinality(new)
    BY <2>1, <2>4, FS_Subset
  <2>6. Cardinality(old) \in Nat /\ Cardinality(new) \in Nat
        /\ Cardinality(old \cup {row}) \in Nat
        /\ Cardinality(old \cup {row}) <= Cardinality(old) + 1
    BY <2>3, <2>4, FS_CardinalityType, FS_AddElement
  <2>7. QED BY <2>2, <2>8, <2>4, <2>5, <2>6
<1>9. PastLimit'
  <2> SUFFICES ASSUME NEW p \in Pruners, Sized(pruner[p])
               PROVE  \/ pruner[p].row.ts < second - Retention
                      \/ Cardinality(Ahead(rows', pruner[p].row)) >= MaxRows
    BY <1>2 DEF PastLimit, Sized, Ahead, Before
  <2>1. \/ pruner[p].row.ts < second - Retention
        \/ Cardinality(Ahead(rows, pruner[p].row)) >= MaxRows
    BY DEF PastLimit
  <2>2. QED BY <1>8, <2>1, LimitsAssumption
<1>10. WithinLimit'
  <2> SUFFICES ASSUME NEW p \in Pruners
               PROVE  /\ Sized(pruner[p]) =>
                           Cardinality(Ahead(rows', pruner[p].row)) <= MaxRows + inserted'[p]
                      /\ pruner[p].at = "equal" => \A r \in rows' : r.ts >= pruner[p].row.ts
    BY <1>2 DEF WithinLimit, Sized, Ahead, Before
  <2>1. ASSUME Sized(pruner[p])
        PROVE  Cardinality(Ahead(rows', pruner[p].row)) <= MaxRows + inserted'[p]
    <3>1. Cardinality(Ahead(rows, pruner[p].row)) <= MaxRows + inserted[p]
      BY <2>1 DEF WithinLimit
    <3>2. inserted'[p] = inserted[p] + 1 /\ inserted[p] \in Nat
      BY <1>2, <2>1 DEF Sized, PrunerTypes
    <3>3. QED BY <1>8, <2>1, <3>1, <3>2, LimitsAssumption
  <2>2. ASSUME pruner[p].at = "equal"
        PROVE  \A r \in rows' : r.ts >= pruner[p].row.ts
    <3>1. pruner[p].row.ts \in Nat /\ pruner[p].row.ts <= second
      BY <2>2 DEF PrunerTypes, IsJob, Sized
    <3>2. QED BY <1>3, <1>4, <2>2, <3>1 DEF WithinLimit, LogTypes
  <2>3. QED BY <2>1, <2>2
<1>11. QED BY <1>5, <1>7, <1>9, <1>10

\* These rows are over their time, or past a boundary that is, or is over the limit.
Expendable(gone) ==
  \/ \A r \in gone : r.ts < second - Retention
  \/ \E b :
       /\ b.ts \in Nat /\ b.id \in Nat
       /\ \A r \in gone : ~Before(r, b)
       /\ b.ts < second - Retention \/ Cardinality(Ahead(rows, b)) >= MaxRows

\* Rows that go for their age or past the boundary of one pruner take nothing
\* from what another one counts on.
LEMMA KeptByOthers ==
  ASSUME LogInv, NEW gone \in SUBSET rows, NEW p \in Pruners, Sized(pruner[p]),
         Expendable(gone)
  PROVE  \/ pruner[p].row.ts < second - Retention
         \/ Cardinality(Ahead(rows \ gone, pruner[p].row)) >= MaxRows
<1> USE DEF LogInv
<1> DEFINE own == pruner[p].row
           left == Ahead(rows \ gone, own)
<1>1. own.ts \in Nat /\ own.id \in Nat
  BY DEF PrunerTypes, IsJob
<1>2. own.ts < second - Retention \/ Cardinality(Ahead(rows, own)) >= MaxRows
  BY DEF PastLimit
<1> HIDE DEF own
<1>3. left \subseteq rows /\ IsFiniteSet(left)
  <2>1. left \subseteq rows
    BY DEF Ahead
  <2>2. QED BY <2>1, FS_Subset DEF LogTypes
<1>4. CASE \A r \in gone : ~Before(r, own)
  <2>1. left = Ahead(rows, own)
    BY <1>4 DEF Ahead
  <2>2. QED BY <1>2, <2>1 DEF own
<1>5. ASSUME NEW r \in gone, Before(r, own)
      PROVE  own.ts < second - Retention \/ Cardinality(left) >= MaxRows
  <2>1. r.ts \in Nat /\ r.id \in Nat /\ own.ts <= r.ts
    BY <1>1, <1>5 DEF LogTypes, Before
  <2>2. CASE r.ts < second - Retention
    BY <1>1, <2>1, <2>2, LimitsAssumption DEF LogTypes
  <2>3. ASSUME NEW b, b.ts \in Nat, b.id \in Nat, \A s \in gone : ~Before(s, b),
               b.ts < second - Retention \/ Cardinality(Ahead(rows, b)) >= MaxRows
        PROVE  own.ts < second - Retention \/ Cardinality(left) >= MaxRows
    <3>1. ~Before(r, b)
      BY <2>3
    <3>2. CASE b.ts < second - Retention
      BY <1>1, <2>1, <2>3, <3>1, <3>2, LimitsAssumption DEF LogTypes, Before
    <3>3. CASE Cardinality(Ahead(rows, b)) >= MaxRows
      <4>1. Ahead(rows, b) \subseteq left
        <5> SUFFICES ASSUME NEW s \in rows, Before(s, b) PROVE s \notin gone /\ Before(s, own)
          BY DEF Ahead
        <5>1. s \notin gone
          BY <2>3
        <5>2. s.ts \in Nat /\ s.id \in Nat
          BY DEF LogTypes
        <5>3. Before(s, own)
          BY <1>1, <1>5, <2>1, <2>3, <3>1, <5>2 DEF Before
        <5>4. QED BY <5>1, <5>3
      <4>2. Cardinality(Ahead(rows, b)) <= Cardinality(left)
        BY <1>3, <4>1, FS_Subset
      <4>3. Cardinality(Ahead(rows, b)) \in Nat /\ Cardinality(left) \in Nat
        BY <1>3, <4>1, FS_Subset, FS_CardinalityType
      <4>4. QED BY <3>3, <4>2, <4>3, LimitsAssumption
    <3>4. QED BY <2>3, <3>2, <3>3
  <2>4. QED BY <2>2, <2>3 DEF Expendable
<1>6. QED BY <1>4, <1>5 DEF own

\* What a chunk removes belongs to no row that is kept for its age or the limit.
LEMMA ChunkGone ==
  ASSUME LogInv, NEW p \in Pruners, DeleteChunk(p)
  PROVE  /\ rows' \subseteq rows
         /\ Expendable(rows \ rows')
<1> USE DEF LogInv
<1>1. rows' \subseteq rows
  BY ChunkState
<1>2. CASE pruner[p].at = "age" /\ \A r \in rows \ rows' : r.ts < pruner[p].cutoff
  <2>1. pruner[p].cutoff \in Int /\ pruner[p].cutoff <= second - Retention
    BY <1>2 DEF PrunerTypes, IsJob
  <2>2. \A r \in rows \ rows' : r.ts < second - Retention
    BY <1>2, <2>1, LimitsAssumption DEF LogTypes
  <2>3. QED BY <1>1, <2>2 DEF Expendable
<1>3. CASE Sized(pruner[p]) /\ \A r \in rows \ rows' : ~Before(r, pruner[p].row)
  <2>1. pruner[p].row.ts \in Nat /\ pruner[p].row.id \in Nat
    BY <1>3 DEF PrunerTypes, IsJob
  <2>2. \/ pruner[p].row.ts < second - Retention
        \/ Cardinality(Ahead(rows, pruner[p].row)) >= MaxRows
    BY <1>3 DEF PastLimit
  <2>3. QED BY <1>1, <1>3, <2>1, <2>2 DEF Expendable
<1>4. QED BY <1>2, <1>3, ChunkState

\* One DELETE of _delete_requests, by age or past a boundary, of one pruner among
\* many.
LEMMA ChunkStep ==
  ASSUME LogInv, NEW p \in Pruners, DeleteChunk(p)
  PROVE  LogTypes' /\ PrunerTypes' /\ PastLimit' /\ WithinLimit'
<1> USE DEF LogInv
<1>1. /\ \A q \in Pruners \ {p} : pruner'[q] = pruner[q]
      /\ pruner' = [q \in Pruners |-> pruner'[q]]
      /\ UNCHANGED <<lastId, second, inserted>>
      /\ rows' \subseteq rows /\ IsJob(pruner'[p])
  BY ChunkState
<1>2. LogTypes'
  BY <1>1, FS_Subset DEF LogTypes
<1>3. PrunerTypes'
  BY <1>1 DEF PrunerTypes, IsJob
<1>4. ASSUME NEW q \in Pruners, Sized(pruner'[q])
      PROVE  Sized(pruner[q]) /\ pruner'[q].row = pruner[q].row
  BY <1>1, <1>4, ChunkState
<1>5. ASSUME NEW q \in Pruners, Sized(pruner[q])
      PROVE  \/ pruner[q].row.ts < second - Retention
             \/ Cardinality(Ahead(rows', pruner[q].row)) >= MaxRows
  <2>1. rows' = rows \ (rows \ rows') /\ rows \ rows' \in SUBSET rows
    BY <1>1
  <2> DEFINE gone == rows \ rows'
  <2>2. Expendable(gone)
    BY ChunkGone
  <2>3. rows' = rows \ gone /\ gone \in SUBSET rows
    BY <2>1
  <2> HIDE DEF gone
  <2>4. \/ pruner[q].row.ts < second - Retention
        \/ Cardinality(Ahead(rows \ gone, pruner[q].row)) >= MaxRows
    BY <1>5, <2>2, <2>3, KeptByOthers
  <2>5. QED BY <2>3, <2>4
<1>6. PastLimit'
  <2> SUFFICES ASSUME NEW q \in Pruners, Sized(pruner'[q])
               PROVE  \/ pruner'[q].row.ts < second' - Retention
                      \/ Cardinality(Ahead(rows', pruner'[q].row)) >= MaxRows
    BY DEF PastLimit, Sized, Ahead, Before
  <2>1. QED BY <1>1, <1>4, <1>5
<1>7. ASSUME NEW b PROVE Cardinality(Ahead(rows', b)) <= Cardinality(Ahead(rows, b))
                         /\ Cardinality(Ahead(rows', b)) \in Nat /\ Cardinality(Ahead(rows, b)) \in Nat
  <2>1. Ahead(rows', b) \subseteq Ahead(rows, b) /\ Ahead(rows, b) \subseteq rows
    BY <1>1 DEF Ahead
  <2>2. IsFiniteSet(Ahead(rows, b)) /\ IsFiniteSet(Ahead(rows', b))
    BY <2>1, FS_Subset DEF LogTypes
  <2>3. QED BY <2>1, <2>2, FS_Subset, FS_CardinalityType
<1>8. WithinLimit'
  <2> SUFFICES ASSUME NEW q \in Pruners
               PROVE  /\ Sized(pruner'[q]) =>
                           Cardinality(Ahead(rows', pruner'[q].row)) <= MaxRows + inserted'[q]
                      /\ pruner'[q].at = "equal" => \A r \in rows' : r.ts >= pruner'[q].row.ts
    BY DEF WithinLimit, Sized, Ahead, Before
  <2>1. ASSUME Sized(pruner'[q])
        PROVE  Cardinality(Ahead(rows', pruner'[q].row)) <= MaxRows + inserted'[q]
    <3>1. Cardinality(Ahead(rows, pruner[q].row)) <= MaxRows + inserted[q] /\ inserted[q] \in Nat
      BY <1>4, <2>1 DEF WithinLimit, PrunerTypes
    <3>2. pruner'[q].row = pruner[q].row /\ inserted'[q] = inserted[q]
      BY <1>1, <1>4, <2>1
    <3>3. QED BY <1>7, <3>1, <3>2, LimitsAssumption
  <2>2. ASSUME pruner'[q].at = "equal"
        PROVE  \A r \in rows' : r.ts >= pruner'[q].row.ts
    <3>1. pruner'[q].row = pruner[q].row
      BY <1>4, <2>2 DEF Sized
    <3>2. pruner[q].at = "equal" \/ \A r \in rows' : r.ts >= pruner[q].row.ts
      BY <1>1, <2>2, ChunkState DEF Sized
    <3>3. QED BY <1>1, <3>1, <3>2 DEF WithinLimit
  <2>3. QED BY <2>1, <2>2
<1>9. QED BY <1>2, <1>3, <1>6, <1>8

\* The other steps of a pruner leave the rows, and only looking for a boundary
\* gives it one.
LEMMA BoundaryStep ==
  ASSUME LogInv, NEW p \in Pruners, FindBoundary(p)
  PROVE  LogTypes' /\ PrunerTypes' /\ PastLimit' /\ WithinLimit'
<1> USE DEF LogInv
<1>1. PICK next : /\ pruner' = [pruner EXCEPT ![p] = next]
                  /\ \/ next = Resting
                     \/ \E r \in Boundary : next = [at |-> "older", row |-> r, removed |-> FALSE]
  BY DEF FindBoundary
<1>2. UNCHANGED <<rows, lastId, counters, second>> /\ inserted' = [inserted EXCEPT ![p] = 0]
  BY DEF FindBoundary
<1>3. /\ \A q \in Pruners \ {p} : pruner'[q] = pruner[q] /\ inserted'[q] = inserted[q]
      /\ pruner'[p] = next /\ inserted'[p] = 0
      /\ pruner' = [q \in Pruners |-> pruner'[q]]
      /\ inserted' \in [Pruners -> Nat]
  BY <1>1, <1>2 DEF PrunerTypes
<1>4. \/ ~Sized(next) /\ next.at = "idle"
      \/ /\ next.at = "older" /\ next.row \in rows
         /\ Cardinality(Ahead(rows, next.row)) = MaxRows
         /\ next = [at |-> "older", row |-> next.row, removed |-> next.removed]
  <2>1. CASE next = Resting
    BY <2>1 DEF Resting, Sized
  <2>2. ASSUME NEW r \in Boundary, next = [at |-> "older", row |-> r, removed |-> FALSE]
        PROVE  /\ next.at = "older" /\ next.row \in rows
               /\ Cardinality(Ahead(rows, next.row)) = MaxRows
               /\ next = [at |-> "older", row |-> next.row, removed |-> next.removed]
    <3>1. r \in rows /\ Cardinality({q \in rows : Before(q, r)}) = MaxRows
      BY DEF Boundary
    <3>2. Ahead(rows, r) = {q \in rows : Before(q, r)}
      BY DEF Ahead
    <3>3. Cardinality(Ahead(rows, r)) = MaxRows
      BY <3>1, <3>2
    <3>4. next.row = r /\ next.at = "older" /\ next.removed = FALSE
      BY <2>2
    <3>5. QED BY <2>2, <3>1, <3>3, <3>4
  <2>3. QED BY <1>1, <2>1, <2>2
<1>5. IsJob(next)
  BY <1>4 DEF IsJob, Sized, LogTypes
<1>6. PrunerTypes'
  BY <1>2, <1>3, <1>5 DEF PrunerTypes, IsJob
<1>7. ASSUME NEW q \in Pruners, Sized(pruner'[q])
      PROVE  /\ \/ pruner'[q].row.ts < second - Retention
                \/ Cardinality(Ahead(rows, pruner'[q].row)) >= MaxRows
             /\ Cardinality(Ahead(rows, pruner'[q].row)) <= MaxRows + inserted'[q]
             /\ pruner'[q].at = "equal" => \A r \in rows : r.ts >= pruner'[q].row.ts
  <2>1. CASE q # p
    BY <1>3, <1>7, <2>1 DEF PastLimit, WithinLimit
  <2>2. CASE q = p
    BY <1>3, <1>4, <1>7, <2>2, LimitsAssumption
  <2>3. QED BY <2>1, <2>2
<1>8. PastLimit' /\ WithinLimit'
  BY <1>2, <1>7 DEF PastLimit, WithinLimit, Sized, Ahead, Before
<1>9. LogTypes'
  BY <1>2 DEF LogTypes
<1>10. QED BY <1>6, <1>8, <1>9

\* Beginning a pass, _sweep_rollups, and the end of a pass, killed or not.
LEMMA OtherStep ==
  ASSUME LogInv, NEW p \in Pruners, BeginPrune(p) \/ Sweep(p) \/ EndPruner(p)
  PROVE  LogTypes' /\ PrunerTypes' /\ PastLimit' /\ WithinLimit'
<1> USE DEF LogInv
<1>1. PICK next : /\ pruner' = [pruner EXCEPT ![p] = next]
                  /\ \/ next = Resting
                     \/ \E at \in {"age", "boundary"} :
                          next = [at |-> at, cutoff |-> second - Retention, removed |-> FALSE]
  BY DEF BeginPrune, Sweep, EndPruner
<1>2. /\ UNCHANGED <<rows, lastId, second>>
      /\ inserted' = inserted \/ inserted' = [inserted EXCEPT ![p] = 0]
  BY DEF BeginPrune, Sweep, EndPruner
<1>3. /\ \A q \in Pruners \ {p} : pruner'[q] = pruner[q] /\ inserted'[q] = inserted[q]
      /\ pruner'[p] = next
      /\ pruner' = [q \in Pruners |-> pruner'[q]]
      /\ inserted' \in [Pruners -> Nat]
  BY <1>1, <1>2 DEF PrunerTypes
<1>4. ~Sized(next) /\ IsJob(next)
  BY <1>1, LimitsAssumption DEF Resting, Sized, IsJob, LogTypes
<1>5. PrunerTypes'
  BY <1>2, <1>3, <1>4 DEF PrunerTypes, IsJob
<1>6. \A q \in Pruners : Sized(pruner'[q]) =>
         q # p /\ pruner'[q] = pruner[q] /\ inserted'[q] = inserted[q]
  BY <1>3, <1>4
<1>7. PastLimit'
  BY <1>2, <1>6 DEF PastLimit, Sized, Ahead, Before
<1>8. WithinLimit'
  BY <1>2, <1>6 DEF WithinLimit, Sized, Ahead, Before
<1>9. LogTypes'
  BY <1>2 DEF LogTypes
<1>10. QED BY <1>5, <1>7, <1>8, <1>9

\* Every step of the listener, the pruners and the reports.
LEMMA LogStep ==
  ASSUME LogInv, [LogNext]_logVars
  PROVE  LogInv'
<1>1. CountersMatch'
  BY MatchStep DEF LogInv
<1>2. CASE OpenStore
  BY <1>1, <1>2 DEF OpenStore, LogInv, LogTypes, PrunerTypes, IsJob, PastLimit, WithinLimit, Sized, Ahead, Before
<1>3. CASE NextSecond
  <2>1. /\ second' = second + 1 /\ UNCHANGED <<rows, lastId, pruner, inserted>>
    BY <1>3 DEF NextSecond
  <2>2. LogTypes'
    BY <2>1 DEF LogInv, LogTypes
  <2>3. PrunerTypes'
    BY <2>1, LimitsAssumption DEF LogInv, LogTypes, PrunerTypes, IsJob, Sized
  <2>4. PastLimit'
    <3> SUFFICES ASSUME NEW p \in Pruners, Sized(pruner[p])
                 PROVE  \/ pruner[p].row.ts < second' - Retention
                        \/ Cardinality(Ahead(rows, pruner[p].row)) >= MaxRows
      BY <2>1 DEF PastLimit, Sized, Ahead, Before
    <3>1. pruner[p].row.ts \in Nat
      BY DEF LogInv, PrunerTypes, IsJob
    <3>2. QED BY <2>1, <3>1, LimitsAssumption DEF LogInv, LogTypes, PastLimit
  <2>5. WithinLimit'
    BY <2>1 DEF LogInv, WithinLimit, Sized, Ahead, Before
  <2>6. QED BY <1>1, <2>2, <2>3, <2>4, <2>5 DEF LogInv
<1>4. CASE UNCHANGED logVars
  BY <1>1, <1>4 DEF logVars, LogInv, LogTypes, PrunerTypes, IsJob, PastLimit, WithinLimit, Sized, Ahead, Before
<1>5. QED
  BY <1>1, <1>2, <1>3, <1>4, ReceiveStep, ChunkStep, BoundaryStep, OtherStep DEF LogNext, LogInv

\* An empty table, or one from before the counters, has no pruner at work.
LEMMA LogStart == LogInit => LogInv
<1> SUFFICES ASSUME LogInit PROVE LogInv
  OBVIOUS
<1>1. LogTypes
  BY FS_EmptySet DEF LogInit, LogTypes
<1>2. CountersMatch
  BY DEF LogInit, CountersMatch
<1>3. PrunerTypes /\ \A p \in Pruners : pruner[p].at = "idle"
  BY DEF LogInit, PrunerTypes, IsJob, Resting, Sized
<1>4. PastLimit /\ WithinLimit
  BY <1>3 DEF PastLimit, WithinLimit, Sized
<1>5. QED BY <1>1, <1>2, <1>3, <1>4 DEF LogInv

\* For any number of pruners, whatever limit and retention they are given.
THEOREM LogInvariant == LogSpec => []LogInv
BY LogStart, LogStep, PTL DEF LogSpec

\* The counters of get_top_client_ips and the other reports say what counting the
\* rows would say, or are not there (schema migration), at every commit.
THEOREM ReportsAreAlwaysExact == LogSpec => []ReportsAreExact
<1>1. LogInv => ReportsAreExact
  BY MatchIsExact DEF LogInv
<1>2. QED BY <1>1, LogInvariant, PTL

\* prune_requests and prune_requests_by_size delete no row that is within its
\* retention and among the newest max_rows.
THEOREM NewestAreAlwaysKept == LogSpec => NewestAreKept
<1>1. ASSUME LogInv, [LogNext]_logVars, NEW r \in rows \ rows'
      PROVE  \/ r.ts < second - Retention
             \/ Cardinality({q \in rows' : q.ts >= r.ts}) >= MaxRows
  <2>1. PICK p \in Pruners : DeleteChunk(p)
    BY <1>1 DEF LogNext, logVars, Receive, OpenStore, NextSecond, BeginPrune, FindBoundary, Sweep, EndPruner
  <2>2. Expendable(rows \ rows')
    BY <1>1, <2>1, ChunkGone
  <2>3. rows' \subseteq rows
    BY <1>1, <2>1, ChunkGone
  <2>4. r.ts \in Nat /\ r.id \in Nat
    BY <1>1 DEF LogInv, LogTypes
  <2>5. ASSUME NEW b, b.ts \in Nat, b.id \in Nat, \A s \in rows \ rows' : ~Before(s, b),
               b.ts < second - Retention \/ Cardinality(Ahead(rows, b)) >= MaxRows
        PROVE  \/ r.ts < second - Retention
               \/ Cardinality({q \in rows' : q.ts >= r.ts}) >= MaxRows
    <3>1. r.ts <= b.ts
      BY <1>1, <2>4, <2>5 DEF Before
    <3>2. CASE b.ts < second - Retention
      BY <1>1, <2>4, <2>5, <3>1, <3>2, LimitsAssumption DEF LogInv, LogTypes
    <3>3. CASE Cardinality(Ahead(rows, b)) >= MaxRows
      <4> DEFINE stay == {q \in rows' : q.ts >= r.ts}
      <4>1. Ahead(rows, b) \subseteq stay
        <5> SUFFICES ASSUME NEW s \in rows, Before(s, b) PROVE s \in rows' /\ s.ts >= r.ts
          BY DEF Ahead
        <5>1. s \in rows'
          BY <2>5
        <5>2. s.ts \in Nat
          BY <1>1 DEF LogInv, LogTypes
        <5>3. QED BY <2>4, <2>5, <3>1, <5>1, <5>2 DEF Before
      <4>2. IsFiniteSet(stay) /\ IsFiniteSet(Ahead(rows, b))
        <5>1. stay \subseteq rows /\ Ahead(rows, b) \subseteq rows
          BY <2>3 DEF Ahead
        <5>2. QED BY <1>1, <5>1, FS_Subset DEF LogInv, LogTypes
      <4> HIDE DEF stay
      <4>3. Cardinality(Ahead(rows, b)) <= Cardinality(stay)
        BY <4>1, <4>2, FS_Subset
      <4>4. Cardinality(Ahead(rows, b)) \in Nat /\ Cardinality(stay) \in Nat
        BY <4>2, FS_CardinalityType
      <4>5. Cardinality(stay) >= MaxRows
        BY <3>3, <4>3, <4>4, LimitsAssumption
      <4>6. QED BY <4>5 DEF stay
    <3>4. QED BY <2>5, <3>2, <3>3
  <2>6. QED BY <1>1, <2>2, <2>5 DEF Expendable
<1>2. LogInv /\ [LogNext]_logVars =>
        [\A r \in rows \ rows' :
           \/ r.ts < second - Retention
           \/ Cardinality({q \in rows' : q.ts >= r.ts}) >= MaxRows]_logVars
  BY <1>1
<1>3. QED BY <1>2, LogInvariant, PTL DEF LogSpec, NewestAreKept

\* When prune_requests_by_size is through, the table holds no more than max_rows
\* and what has been inserted meanwhile.
THEOREM LimitIsAlwaysReached == LogSpec => LimitIsReached
<1>1. ASSUME LogInv, [LogNext]_logVars, NEW p \in Pruners,
             pruner[p].at = "equal", pruner'[p].at \in {"sweep", "idle"}, ~EndPruner(p)
      PROVE  Cardinality(rows') <= MaxRows + inserted[p]
  <2>1. pruner'[p] # pruner[p]
    BY <1>1
  <2>2. DeleteChunk(p)
    <3>1. ASSUME NEW q \in Pruners, q # p,
                 BeginPrune(q) \/ FindBoundary(q) \/ DeleteChunk(q) \/ Sweep(q) \/ EndPruner(q)
          PROVE  FALSE
      <4>1. \E next : pruner' = [pruner EXCEPT ![q] = next]
        BY <3>1 DEF BeginPrune, FindBoundary, DeleteChunk, Sweep, EndPruner
      <4>2. QED BY <2>1, <3>1, <4>1
    <3>2. ~BeginPrune(p) /\ ~FindBoundary(p) /\ ~Sweep(p)
      BY <1>1 DEF BeginPrune, FindBoundary, Sweep, Resting
    <3>3. UNCHANGED logVars \/ Receive \/ OpenStore \/ NextSecond => pruner' = pruner
      BY DEF logVars, Receive, OpenStore, NextSecond
    <3>4. QED BY <1>1, <2>1, <3>1, <3>2, <3>3 DEF LogNext
  <2> DEFINE b == pruner[p].row
  <2>3. Sized(pruner[p]) /\ ~Sized(pruner'[p])
    BY <1>1 DEF Sized
  <2>4. /\ rows' \subseteq rows
        /\ \A r \in rows' : r.ts = b.ts => Before(r, b)
    BY <1>1, <2>2, <2>3, ChunkState DEF LogInv, Sized
  <2>5. b.ts \in Nat /\ \A r \in rows : r.ts \in Nat /\ r.ts >= b.ts
    BY <1>1, <2>3 DEF LogInv, LogTypes, PrunerTypes, IsJob, WithinLimit
  <2>6. rows' \subseteq Ahead(rows, b)
    BY <2>4, <2>5 DEF Ahead, Before
  <2>7. IsFiniteSet(Ahead(rows, b))
    <3>1. Ahead(rows, b) \subseteq rows
      BY DEF Ahead
    <3>2. QED BY <1>1, <3>1, FS_Subset DEF LogInv, LogTypes
  <2>8. Cardinality(rows') <= Cardinality(Ahead(rows, b)) /\ IsFiniteSet(rows')
    BY <2>6, <2>7, FS_Subset
  <2>9. Cardinality(Ahead(rows, b)) <= MaxRows + inserted[p]
    BY <1>1, <2>3 DEF LogInv, WithinLimit
  <2>10. Cardinality(rows') \in Nat /\ Cardinality(Ahead(rows, b)) \in Nat /\ inserted[p] \in Nat
    BY <1>1, <2>7, <2>8, FS_CardinalityType DEF LogInv, PrunerTypes
  <2> HIDE DEF b
  <2>11. QED BY <2>8, <2>9, <2>10, LimitsAssumption
<1>2. LogInv /\ [LogNext]_logVars =>
        [\A p \in Pruners :
           pruner[p].at = "equal" /\ pruner'[p].at \in {"sweep", "idle"} /\ ~EndPruner(p)
             => Cardinality(rows') <= MaxRows + inserted[p]]_logVars
  BY <1>1
<1>3. QED BY <1>2, LogInvariant, PTL DEF LogSpec, LimitIsReached

-----------------------------------------------------------------------------
(* The budget                                                              *)

\* Of some numbers one is the least.
LEMMA NatMin ==
  ASSUME NEW T, T \subseteq Nat, T # {}
  PROVE  \E x \in T : \A y \in T : x <= y
<1> DEFINE R == OpToRel(<,Nat)
<1>1. IsWellFoundedOn(R, Nat)
  BY NatLessThanWellFounded
<1>2. R = {ss \in Nat \X Nat : ss[1] < ss[2]}
  BY DEF OpToRel
<1> HIDE DEF R
<1>3. PICK x \in T : \A y \in T : ~(<<y, x>> \in R)
  BY <1>1, WFMin
<1>4. \A y \in T : ~(y < x)
  BY <1>2, <1>3
<1>5. QED BY <1>3, <1>4

-----------------------------------------------------------------------------
(* The schedule                                                              *)

\* A multiple of a number is not less than it.
LEMMA Product ==
  ASSUME NEW a \in Nat \ {0}, NEW n \in Nat \ {0}
  PROVE  a * n >= a /\ a * n \in Nat
OBVIOUS

\* The remainder is the only one.
LEMMA Remainder ==
  ASSUME NEW W \in Nat \ {0}, NEW q \in Int, NEW r \in 0..(W-1)
  PROVE  (W * q + r) % W = r
<1> DEFINE y == W * q + r
           p == y \div W
           s == y % W
<1>1. y \in Int /\ p \in Int /\ s \in 0..(W-1) /\ y = W * p + s
  OBVIOUS
<1>2. W * (q - p) = s - r
  <2>1. W * (q - p) = W * q - W * p /\ W * q \in Int /\ W * p \in Int
    BY <1>1
  <2>2. QED BY <1>1, <2>1
<1> HIDE DEF p, s
<1>3. ~(q - p >= 1)
  <2> SUFFICES ASSUME q - p >= 1 PROVE FALSE
    OBVIOUS
  <2>1. W * (q - p) >= W
    BY <1>1, Product
  <2>2. QED BY <1>1, <1>2, <2>1
<1>4. ~(p - q >= 1)
  <2> SUFFICES ASSUME p - q >= 1 PROVE FALSE
    OBVIOUS
  <2>1. W * (p - q) >= W
    BY <1>1, Product
  <2>2. W * (p - q) = -(W * (q - p))
    BY <1>1
  <2>3. QED BY <1>1, <1>2, <2>1, <2>2
<1>5. s = r
  BY <1>1, <1>2, <1>3, <1>4
<1>6. QED BY <1>5 DEF s

\* Minutes of the week counted from x on come to m again.
LEMMA Around ==
  ASSUME NEW W \in Nat \ {0}, NEW m \in 0..(W-1), NEW x \in Int
  PROVE  (m - x) % W \in 0..(W-1) /\ (x + ((m - x) % W)) % W = m
<1> DEFINE o == (m - x) % W
           q == (m - x) \div W
<1>1. o \in 0..(W-1) /\ q \in Int /\ m - x = W * q + o
  OBVIOUS
<1> DEFINE n == -q
<1>2. x + o = W * n + m /\ n \in Int
  BY <1>1
<1> HIDE DEF o, q, n
<1>3. (W * n + m) % W = m
  BY <1>2, Remainder
<1>4. QED BY <1>1, <1>2, <1>3 DEF o

\* A minute that a window covers is one it occupies, as validate_schedule counts
\* them and as scheduled_limit asks.
LEMMA CoveredIsOccupied ==
  ASSUME NEW w \in Windows, NEW d \in w.days, NEW m \in Minutes,
         (m - (d * Day + w.start)) % (Day * Days) < Duration(w)
  PROVE  m \in Slots(w, d)
<1> DEFINE W == Day * Days
           x == d * Day + w.start
           o == (m - x) % W
<1>1. W \in Nat \ {0}
  BY BudgetAssumption, Product
<1>2. d \in Int /\ w.start \in Int /\ w.end \in Int
  BY BudgetAssumption DEF Windows
<1>3. x \in Int /\ m \in 0..(W-1)
  BY <1>2, BudgetAssumption DEF Minutes
<1>4. o \in 0..(W-1) /\ (x + o) % W = m
  <2> HIDE DEF x, W
  <2>1. QED BY <1>1, <1>3, Around
<1>5. Duration(w) \in Int
  <2>1. (w.end - w.start) % Day \in Int
    BY <1>2, BudgetAssumption
  <2>2. QED BY <2>1, BudgetAssumption DEF Duration
<1>6. o \in 0..(Duration(w) - 1)
  <2> HIDE DEF o
  <2>1. o < Duration(w)
    BY DEF o
  <2>2. QED BY <1>1, <1>4, <1>5, <2>1
<1>7. Slots(w, d) = {(x + n) % W : n \in 0..(Duration(w) - 1)}
  BY DEF Slots
<1> HIDE DEF o, x, W
<1>8. QED BY <1>4, <1>6, <1>7

\* No minute falls into two windows of a schedule that validate_schedule passes.
LEMMA ValidCovers ==
  ASSUME NEW windows \in Seq(Windows), ValidSchedule(windows), NEW m \in Minutes
  PROVE  Cardinality(Covering(windows, m)) <= 1
<1> DEFINE cov == Covering(windows, m)
<1>1. ASSUME NEW i \in cov, NEW j \in cov, i # j PROVE FALSE
  <2>1. i \in DOMAIN windows /\ j \in DOMAIN windows
    BY DEF Covering
  <2>2. windows[i] \in Windows /\ windows[j] \in Windows
    BY <2>1
  <2>3. PICK d \in windows[i].days :
          (m - (d * Day + windows[i].start)) % (Day * Days) < Duration(windows[i])
    BY DEF Covering
  <2>4. PICK e \in windows[j].days :
          (m - (e * Day + windows[j].start)) % (Day * Days) < Duration(windows[j])
    BY DEF Covering
  <2>5. m \in Slots(windows[i], d) /\ m \in Slots(windows[j], e)
    BY <2>2, <2>3, <2>4, CoveredIsOccupied
  <2>6. QED BY <1>1, <2>1, <2>5 DEF ValidSchedule
<1> HIDE DEF cov
<1>2. CASE cov = {}
  BY <1>2, FS_EmptySet DEF cov
<1>3. CASE cov # {}
  <2>0. PICK i : i \in cov
    BY <1>3
  <2>1. cov = {i}
    BY <1>1, <2>0
  <2>2. Cardinality(cov) = 1
    BY <2>1, FS_Singleton
  <2>3. QED BY <2>2 DEF cov
<1>4. QED BY <1>2, <1>3

-----------------------------------------------------------------------------
(* Rates                                                                     *)

\* The stricter of some limits is a limit (None, unlimited, included).
LEMMA StricterIsLimit ==
  ASSUME NEW limits, limits \subseteq Limits
  PROVE  Stricter(limits) \in Limits
<1>1. CASE limits \subseteq {Unlimited}
  BY <1>1 DEF Stricter, Limits
<1>2. CASE ~(limits \subseteq {Unlimited})
  <2> DEFINE some == limits \ {Unlimited}
  <2>1. some \subseteq Nat /\ some # {} /\ some \subseteq Limits
    BY <1>2 DEF Limits
  <2>2. Stricter(limits) = CHOOSE l \in some : \A m \in some : l <= m
    BY <1>2 DEF Stricter
  <2> HIDE DEF some
  <2>3. \E l \in some : \A m \in some : l <= m
    BY <2>1, NatMin
  <2>4. Stricter(limits) \in some
    BY <2>2, <2>3
  <2>5. QED BY <2>1, <2>4
<1>3. QED BY <1>1, <1>2

\* scheduled_limit yields a limit, whichever window is open.
LEMMA ScheduledIsLimit ==
  ASSUME NEW config \in Configs, NEW minute
  PROVE  ScheduledLimit(config, minute) \in Limits
<1> DEFINE cov == Covering(config.windows, minute)
<1>1. config.limit \in Limits /\ config.windows \in Seq(Windows)
  BY DEF Configs
<1>2. cov \subseteq DOMAIN config.windows /\ cov \subseteq Nat
  BY <1>1 DEF Covering
<1>3. CASE cov = {}
  BY <1>1, <1>3 DEF ScheduledLimit
<1>4. CASE cov # {}
  <2>1. ScheduledLimit(config, minute) =
          config.windows[CHOOSE i \in cov : \A j \in cov : i <= j].limit
    BY <1>4 DEF ScheduledLimit
  <2> HIDE DEF cov
  <2>2. \E i \in cov : \A j \in cov : i <= j
    BY <1>2, <1>4, NatMin
  <2>3. PICK i \in cov : i = CHOOSE k \in cov : \A j \in cov : k <= j
    BY <2>2
  <2>4. config.windows[i] \in Windows
    BY <1>1, <1>2, <2>3
  <2>5. QED BY <2>1, <2>3, <2>4 DEF Windows
<1>5. QED BY <1>3, <1>4

\* _step: the rate of a bucket is a limit.
LEMMA RateIsLimit ==
  ASSUME policy \in Configs, fallback \in [Downloads -> Limits], queue \in Seq(Downloads),
         NEW key \in Keys, NEW minute
  PROVE  Rate(key, minute) \in Limits
<1>1. CASE key = All
  BY <1>1, ScheduledIsLimit DEF Rate
<1>2. CASE key # All /\ policy.limits[key] # Gone
  BY <1>2 DEF Rate, Keys, Configs
<1>3. CASE key # All /\ policy.limits[key] = Gone
  <2> DEFINE some == {fallback[d] : d \in {e \in Waiting : RepoOf[e] = key}}
  <2>1. Waiting \subseteq Downloads
    BY DEF Waiting
  <2>2. some \subseteq Limits
    BY <2>1
  <2>3. Rate(key, minute) = Stricter(some)
    BY <1>3 DEF Rate
  <2> HIDE DEF some
  <2>4. QED BY <2>2, <2>3, StricterIsLimit
<1>4. QED BY <1>1, <1>2, <1>3

-----------------------------------------------------------------------------
(* The policy                                                                *)

\* A thread that reloads has a stamp that was on disk before the content it has.
Vouched ==
  /\ onDisk \in DOMAIN Contents
  /\ policy \in Configs /\ ValidSchedule(policy.windows)
  /\ stamp # Absent => stamp \in Nat /\ stamp <= onDisk
  /\ stamp = onDisk => policy = Contents[onDisk]
  /\ reader = [d \in Downloads |-> reader[d]]
  /\ \A d \in Downloads : reader[d] # Absent =>
       /\ reader[d].at \in {"stat", "load", "store"}
       /\ reader[d].at \in {"load", "store"} => reader[d].stamp \in Nat /\ reader[d].stamp <= onDisk
       /\ reader[d].at = "store" =>
            /\ reader[d].policy \in Configs /\ ValidSchedule(reader[d].policy.windows)
            /\ reader[d].stamp = onDisk => reader[d].policy = Contents[onDisk]

\* Every step of _refresh, of any number of downloads, and of who writes the
\* file.
LEMMA VouchedStep ==
  ASSUME Vouched, [BudgetNext]_budgetVars
  PROVE  Vouched'
<1>0. Len(Contents) \in Nat /\ DOMAIN Contents = 1..Len(Contents) /\ onDisk \in Nat
  BY ContentsAssumption DEF Vouched
<1>1. ASSUME NEW d \in Downloads, BeginReload(d) PROVE Vouched'
  BY <1>1 DEF BeginReload, Vouched
<1>2. ASSUME NEW d \in Downloads, Stat(d) PROVE Vouched'
  BY <1>0, <1>2 DEF Stat, Vouched
<1>3. ASSUME NEW d \in Downloads, Load(d) PROVE Vouched'
  <2>1. CASE Loads(Contents[onDisk])
    <3> DEFINE next == [at |-> "store", stamp |-> reader[d].stamp, policy |-> Contents[onDisk]]
    <3>1. reader' = [reader EXCEPT ![d] = next] /\ UNCHANGED <<policy, stamp, onDisk>>
      BY <1>3, <2>1 DEF Load
    <3>2. Contents[onDisk] \in Configs /\ ValidSchedule(Contents[onDisk].windows)
      BY <2>1, ContentsAssumption DEF Loads, Vouched
    <3>3. /\ next.at = "store" /\ next.policy = Contents[onDisk] /\ next.stamp = reader[d].stamp
      OBVIOUS
    <3>4. reader[d].stamp \in Nat /\ reader[d].stamp <= onDisk
      BY <1>3 DEF Load, Vouched
    <3> HIDE DEF next
    <3>5. \A e \in Downloads : reader'[e] = IF e = d THEN next ELSE reader[e]
      BY <3>1 DEF Vouched
    <3>6. QED BY <3>1, <3>2, <3>3, <3>4, <3>5 DEF Vouched
  <2>2. CASE ~Loads(Contents[onDisk])
    BY <1>3, <2>2 DEF Load, Vouched
  <2>3. QED BY <2>1, <2>2
<1>4. ASSUME NEW d \in Downloads, Store(d) PROVE Vouched'
  BY <1>4 DEF Store, Vouched
<1>5. CASE EditPolicy
  <2>1. onDisk' = onDisk + 1 /\ onDisk' \in DOMAIN Contents /\ UNCHANGED <<policy, stamp, reader>>
    BY <1>0, <1>5 DEF EditPolicy
  <2>2. stamp # onDisk'
    BY <1>0, <2>1, BudgetAssumption DEF Vouched
  <2>3. QED BY <1>0, <2>1, <2>2 DEF Vouched
<1>6. CASE UNCHANGED <<policy, stamp, reader, onDisk>>
  BY <1>6 DEF Vouched
<1>7. ASSUME NEW d \in Downloads, Consume(d) \/ Join(d) \/ BeginTurn(d) \/ Abandon(d)
      PROVE  UNCHANGED <<policy, stamp, reader, onDisk>>
  BY <1>7 DEF Consume, Join, BeginTurn, Abandon, policyVars
<1>8. Serve \/ EndTurn \/ TimePasses \/ SecondPasses \/ UNCHANGED budgetVars
        => UNCHANGED <<policy, stamp, reader, onDisk>>
  BY DEF Serve, EndTurn, TimePasses, SecondPasses, budgetVars, policyVars
<1>9. QED
  BY <1>1, <1>2, <1>3, <1>4, <1>5, <1>6, <1>7, <1>8 DEF BudgetNext, Reload

\* No policy has been read, and the default one has an empty schedule.
LEMMA VouchedStart == BudgetInit => Vouched
<1> SUFFICES ASSUME BudgetInit PROVE Vouched
  OBVIOUS
<1>1. 1 \in DOMAIN Contents /\ Contents[1] \in Configs /\ ValidSchedule(Contents[1].windows)
  BY ContentsAssumption DEF Loads
<1>2. QED BY <1>1, BudgetAssumption DEF BudgetInit, Vouched

\* Whoever reads the policy, whatever is written meanwhile.
LEMMA VouchedInvariant == BudgetSpec => []Vouched
BY VouchedStart, VouchedStep, PTL DEF BudgetSpec

\* _refresh: the stamp that is remembered is never newer than the policy that was
\* read, so that a change of the file is not missed for good; and what is in
\* force is valid.
THEOREM PolicyIsAlwaysVouched == BudgetSpec => []PolicyVouched
<1>1. Vouched => PolicyVouched
  BY ValidCovers DEF Vouched, PolicyVouched, Configs
<1>2. QED BY <1>1, VouchedInvariant, PTL

-----------------------------------------------------------------------------
(* The queue                                                                 *)

\* The queue is of downloads, and a turn serves one for some bytes.
QueueTypes ==
  /\ queue \in Seq(Downloads)
  /\ remaining \in [Downloads -> Nat] /\ fallback \in [Downloads -> Limits]
  /\ stage \in [Downloads -> {"idle", "joining", "queued"}]
  /\ turn # Absent => turn \in [by : Downloads, left : Nat]

\* Who waits is in the queue once; the turn serves only who waits.
QueueInv ==
  /\ QueueTypes /\ QueueIsExact
  /\ \A d \in Downloads : stage[d] = "joining" => remaining[d] > 0
  /\ turn # Absent => turn.left <= Len(queue) /\ stage[turn.by] = "queued"

\* No request is twice in a sequence.
Distinct(requests) == \A i, j \in DOMAIN requests : requests[i] = requests[j] => i = j
\* The requests of a sequence.
Listed(requests) == {requests[i] : i \in DOMAIN requests}

\* consume: a request that was not waiting is put at the end once.
LEMMA AppendOne ==
  ASSUME NEW q \in Seq(Downloads), Distinct(q), NEW d \in Downloads, d \notin Listed(q)
  PROVE  /\ Append(q, d) \in Seq(Downloads) /\ Len(Append(q, d)) = Len(q) + 1
         /\ Distinct(Append(q, d)) /\ Listed(Append(q, d)) = Listed(q) \cup {d}
<1> DEFINE r == Append(q, d)
<1>1. /\ r \in Seq(Downloads) /\ Len(r) = Len(q) + 1 /\ Len(q) \in Nat
      /\ DOMAIN q = 1..Len(q) /\ DOMAIN r = 1..(Len(q) + 1)
      /\ \A i \in 1..Len(q) : r[i] = q[i]
      /\ r[Len(q) + 1] = d
  OBVIOUS
<1> HIDE DEF r
<1>2. \A i \in DOMAIN q : q[i] # d
  BY DEF Listed
<1>3. Distinct(r)
  BY <1>1, <1>2 DEF Distinct
<1>4. Listed(r) = Listed(q) \cup {d}
  <2>1. ASSUME NEW e \in Listed(r) PROVE e \in Listed(q) \cup {d}
    BY <1>1, <2>1 DEF Listed
  <2>2. ASSUME NEW e \in Listed(q) PROVE e \in Listed(r)
    <3>1. PICK i \in DOMAIN q : e = q[i]
      BY <2>2 DEF Listed
    <3>2. i \in DOMAIN r /\ r[i] = e
      BY <1>1, <3>1
    <3>3. QED BY <3>2 DEF Listed
  <2>3. d \in Listed(r)
    BY <1>1 DEF Listed
  <2>4. QED BY <2>1, <2>2, <2>3
<1>5. QED BY <1>1, <1>3, <1>4 DEF r

\* _step: the first request leaves the head of the queue.
LEMMA TailOne ==
  ASSUME NEW q \in Seq(Downloads), q # <<>>, Distinct(q)
  PROVE  /\ Tail(q) \in Seq(Downloads) /\ Len(Tail(q)) = Len(q) - 1 /\ Len(q) \in Nat \ {0}
         /\ Head(q) \in Listed(q) /\ Listed(q) \subseteq Downloads
         /\ Distinct(Tail(q)) /\ Listed(Tail(q)) = Listed(q) \ {Head(q)}
<1> DEFINE r == Tail(q)
           h == Head(q)
<1>1. /\ r \in Seq(Downloads) /\ Len(r) = Len(q) - 1 /\ Len(q) \in Nat /\ Len(q) >= 1
      /\ DOMAIN q = 1..Len(q) /\ DOMAIN r = 1..(Len(q) - 1)
      /\ \A i \in 1..(Len(q) - 1) : r[i] = q[i + 1]
      /\ h = q[1]
  <2>1. q \in Seq(Downloads) /\ q # <<>>
    OBVIOUS
  <2>2. Len(q) \in Nat /\ Len(q) >= 1 /\ DOMAIN q = 1..Len(q)
    BY <2>1, SMTT(30)
  <2>3. r \in Seq(Downloads) /\ Len(r) = Len(q) - 1
    BY <2>1, SMTT(30)
  <2>4. DOMAIN r = 1..(Len(q) - 1)
    BY <2>3, SMTT(30)
  <2>5. \A i \in 1..(Len(q) - 1) : r[i] = q[i + 1]
    BY <2>1, SMTT(30)
  <2>6. QED
    BY <2>2, <2>3, <2>4, <2>5
<1> HIDE DEF r, h
<1>2. Distinct(r)
  <2>1. SUFFICES ASSUME NEW i \in DOMAIN r, NEW j \in DOMAIN r, r[i] = r[j] PROVE i = j
    BY DEF Distinct
  <2>2. /\ i \in Nat /\ j \in Nat /\ i + 1 \in DOMAIN q /\ j + 1 \in DOMAIN q
        /\ q[i + 1] = r[i] /\ q[j + 1] = r[j]
    BY <1>1
  <2>3. i + 1 = j + 1
    BY <2>1, <2>2 DEF Distinct
  <2>4. QED BY <2>2, <2>3
<1>3. Listed(r) = Listed(q) \ {h}
  <2>1. ASSUME NEW e \in Listed(r) PROVE e \in Listed(q) \ {h}
    <3>1. PICK i \in DOMAIN r : e = r[i]
      BY <2>1 DEF Listed
    <3>2. i + 1 \in DOMAIN q /\ 1 \in DOMAIN q /\ e = q[i + 1] /\ i + 1 # 1
      BY <1>1, <3>1
    <3>3. QED BY <1>1, <3>2 DEF Listed, Distinct
  <2>2. ASSUME NEW e \in Listed(q), e # h PROVE e \in Listed(r)
    <3>1. PICK i \in DOMAIN q : e = q[i]
      BY <2>2 DEF Listed
    <3>2. i # 1 /\ i - 1 \in DOMAIN r /\ r[i - 1] = e
      BY <1>1, <2>2, <3>1
    <3>3. QED BY <3>2 DEF Listed
  <2>3. QED BY <2>1, <2>2
<1>4. h \in Listed(q) /\ Listed(q) \subseteq Downloads
  BY <1>1 DEF Listed
<1>5. QED BY <1>1, <1>2, <1>3, <1>4 DEF r, h

\* consume, cancelled: the request goes from wherever it is.
LEMMA WithoutOne ==
  ASSUME NEW q \in Seq(Downloads), Distinct(q), NEW d \in Downloads
  PROVE  /\ Without(q, d) \in Seq(Downloads)
         /\ Distinct(Without(q, d)) /\ Listed(Without(q, d)) = Listed(q) \ {d}
<1>1. CASE \A i \in DOMAIN q : q[i] # d
  BY <1>1 DEF Without, Listed
<1>2. CASE \E i \in DOMAIN q : q[i] = d
  <2> DEFINE r == Without(q, d)
  <2>0. DOMAIN q = 1..Len(q) /\ Len(q) \in Nat
    OBVIOUS
  <2>1. PICK at \in DOMAIN q : q[at] = d
    BY <1>2
  <2>2. \A i \in DOMAIN q : q[i] = d /\ (\A j \in 1..(i - 1) : q[j] # d) <=> i = at
    BY <2>0, <2>1 DEF Distinct
  <2>3. at = CHOOSE i \in DOMAIN q : q[i] = d /\ \A j \in 1..(i - 1) : q[j] # d
    BY <2>1, <2>2
  <2>4. r = [i \in 1..(Len(q) - 1) |-> IF i < at THEN q[i] ELSE q[i + 1]]
    BY <1>2, <2>3 DEF Without
  <2> HIDE DEF r
  <2>5. r \in Seq(Downloads) /\ DOMAIN r = 1..(Len(q) - 1)
    <3>1. Len(q) - 1 \in Nat
      BY <2>0, <2>1
    <3>2. \A i \in 1..(Len(q) - 1) : i \in DOMAIN q /\ i + 1 \in DOMAIN q
      BY <2>0
    <3>3. r \in [1..(Len(q) - 1) -> Downloads]
      BY <2>4, <3>2
    <3>4. QED BY <3>1, <3>3
  <2>6. Distinct(r)
    BY <2>0, <2>1, <2>4, <2>5 DEF Distinct
  <2>7. Listed(r) = Listed(q) \ {d}
    <3>1. ASSUME NEW e \in Listed(r) PROVE e \in Listed(q) \ {d}
      <4>1. PICK i \in DOMAIN r : e = r[i]
        BY <3>1 DEF Listed
      <4>2. \E j \in DOMAIN q : e = q[j] /\ j # at
        <5>1. CASE i < at
          BY <2>0, <2>1, <2>4, <2>5, <4>1, <5>1
        <5>2. CASE ~(i < at)
          <6>1. e = q[i + 1] /\ i + 1 \in DOMAIN q /\ i + 1 # at
            BY <2>0, <2>1, <2>4, <2>5, <4>1, <5>2
          <6>2. QED BY <6>1
        <5>3. QED BY <5>1, <5>2
      <4>3. QED BY <2>1, <4>2 DEF Listed, Distinct
    <3>2. ASSUME NEW e \in Listed(q), e # d PROVE e \in Listed(r)
      <4>1. PICK j \in DOMAIN q : e = q[j]
        BY <3>2 DEF Listed
      <4>2. CASE j < at
        <5>1. j \in DOMAIN r /\ r[j] = e
          BY <2>0, <2>1, <2>4, <2>5, <4>1, <4>2
        <5>2. QED BY <5>1 DEF Listed
      <4>3. CASE j > at
        <5>1. j - 1 \in DOMAIN r /\ r[j - 1] = e
          BY <2>0, <2>1, <2>4, <2>5, <4>1, <4>3
        <5>2. QED BY <5>1 DEF Listed
      <4>4. j # at
        BY <2>1, <3>2, <4>1
      <4>5. QED BY <2>0, <4>2, <4>3, <4>4
    <3>3. QED BY <3>1, <3>2
  <2>8. QED BY <2>5, <2>6, <2>7 DEF r
<1>3. QED BY <1>1, <1>2

\* The queue and what waits are the same requests.
LEMMA WaitingIsListed == Waiting = Listed(queue) /\ (QueueIsExact => Distinct(queue))
BY DEF Waiting, Listed, QueueIsExact, Distinct

\* Who waits, of a later queue.
Exact(q, s, r) ==
  /\ \A d \in Downloads : d \in Listed(q) <=> s[d] = "queued" /\ r[d] > 0
  /\ Distinct(q)

\* Exact, of the variables, is QueueIsExact.
LEMMA ExactIsExact == QueueIsExact <=> Exact(queue, stage, remaining)
BY DEF Waiting, Listed, QueueIsExact, Distinct, Exact

\* And of the variables after a step.
LEMMA ExactLater == Exact(queue', stage', remaining') => QueueIsExact'
BY DEF Waiting, Listed, QueueIsExact, Distinct, Exact

\* What a request takes is at most what it needs, and what a bucket has.
LEMMA AffordsAtMost ==
  ASSUME NEW b \in Buckets, NEW n \in Nat
  PROVE  /\ Affords(b, n) \in Nat /\ Affords(b, n) <= n
         /\ b.rate # Unlimited => Affords(b, n) <= b.credit
BY DEF Affords, Lesser, Buckets

\* Of every request of the queue, and of all together, there is a bucket while a
\* turn lasts, just refilled.
InTurn(k) == k = All \/ \E e \in Waiting : RepoOf[e] = k
TurnIsPaid ==
  /\ bucket \in [Keys -> Buckets \cup {Absent}]
  /\ turn # Absent => \A k \in Keys : InTurn(k) => bucket[k] # Absent /\ bucket[k].age = 0

\* Every step keeps who waits in the queue once, and a turn inside the queue.
LEMMA QueueStep ==
  ASSUME QueueInv, TurnIsPaid, Vouched, [BudgetNext]_budgetVars
  PROVE  QueueInv'
<1> USE DEF QueueInv, QueueTypes
<1>a. Exact(queue, stage, remaining) /\ Distinct(queue) /\ Waiting = Listed(queue)
  BY ExactIsExact DEF Exact, Waiting, Listed
<1>b. Listed(queue) \subseteq Downloads /\ Len(queue) \in Nat
  BY DEF Listed
<1>1. ASSUME NEW d \in Downloads, Consume(d) PROVE QueueInv'
  <2>1. PICK n \in 1..Chunk, v \in 1..onDisk :
          /\ Loads(Contents[v]) /\ Contents[v].limits[RepoOf[d]] # Gone
          /\ remaining' = [remaining EXCEPT ![d] = n]
          /\ fallback' = [fallback EXCEPT ![d] = Contents[v].limits[RepoOf[d]]]
    BY <1>1 DEF Consume
  <2>2. /\ stage[d] = "idle" /\ stage' = [stage EXCEPT ![d] = "joining"]
        /\ UNCHANGED <<queue, turn>>
    BY <1>1 DEF Consume
  <2>3. Contents[v].limits[RepoOf[d]] \in Limits
    <3>1. v \in DOMAIN Contents
      BY ContentsAssumption DEF Vouched
    <3>2. Contents[v] \in Configs
      BY <2>1, <3>1, ContentsAssumption DEF Loads
    <3>3. QED BY <2>1, <3>2, BudgetAssumption DEF Configs
  <2>4. n \in Nat \ {0}
    BY BudgetAssumption
  <2>5. Exact(queue', stage', remaining')
    BY <1>a, <2>1, <2>2 DEF Exact
  <2>6. QED BY <2>1, <2>2, <2>3, <2>4, <2>5, ExactLater
<1>2. ASSUME NEW d \in Downloads, Join(d) PROVE QueueInv'
  <2>1. /\ stage[d] = "joining" /\ stage' = [stage EXCEPT ![d] = "queued"]
        /\ queue' = Append(queue, d) /\ turn = Absent
        /\ UNCHANGED <<remaining, fallback, turn>>
    BY <1>2 DEF Join
  <2>2. d \notin Listed(queue)
    BY <1>a, <2>1 DEF Exact
  <2>3. /\ queue' \in Seq(Downloads) /\ Distinct(queue') /\ Listed(queue') = Listed(queue) \cup {d}
    BY <1>a, <2>1, <2>2, AppendOne
  <2>4. Exact(queue', stage', remaining')
    BY <1>a, <2>1, <2>3 DEF Exact
  <2>5. QED BY <2>1, <2>3, <2>4, ExactLater
<1>3. ASSUME NEW d \in Downloads, BeginTurn(d) PROVE QueueInv'
  <2>1. turn' = [by |-> d, left |-> Len(queue)] /\ stage[d] = "queued"
        /\ UNCHANGED <<queue, remaining, fallback, stage>>
    BY <1>3 DEF BeginTurn
  <2>2. Exact(queue', stage', remaining')
    BY <1>a, <2>1
  <2>3. QED BY <1>b, <2>1, <2>2, ExactLater
<1>4. ASSUME NEW d \in Downloads, Abandon(d) PROVE QueueInv'
  <2>1. /\ stage' = [stage EXCEPT ![d] = "idle"] /\ queue' = Without(queue, d)
        /\ remaining' = [remaining EXCEPT ![d] = 0] /\ turn = Absent
        /\ UNCHANGED <<fallback, turn>>
    BY <1>4 DEF Abandon
  <2>2. queue' \in Seq(Downloads) /\ Distinct(queue') /\ Listed(queue') = Listed(queue) \ {d}
    BY <1>a, <2>1, WithoutOne
  <2>3. Exact(queue', stage', remaining')
    BY <1>a, <2>1, <2>2 DEF Exact
  <2>4. QED BY <2>1, <2>2, <2>3, ExactLater
<1>5. CASE Serve
  <2> DEFINE d == Head(queue)
             k == RepoOf[d]
             n == Affords(bucket[k], Affords(bucket[All], remaining[d]))
  <2>1. /\ turn # Absent /\ turn.left > 0
        /\ remaining' = [remaining EXCEPT ![d] = @ - n]
        /\ queue' = IF n = remaining[d] THEN Tail(queue) ELSE Append(Tail(queue), d)
        /\ turn' = [turn EXCEPT !.left = @ - 1]
        /\ UNCHANGED <<fallback, stage>>
    BY <1>5 DEF Serve
  <2>2. queue # <<>> /\ turn.left \in Nat /\ turn.left <= Len(queue)
    BY <2>1
  <2>3. /\ Tail(queue) \in Seq(Downloads) /\ Len(Tail(queue)) = Len(queue) - 1
        /\ d \in Listed(queue) /\ Distinct(Tail(queue)) /\ Listed(Tail(queue)) = Listed(queue) \ {d}
    BY <1>a, <2>2, TailOne
  <2>4. d \in Downloads /\ k \in Keys /\ All \in Keys /\ InTurn(k) /\ InTurn(All)
    BY <1>a, <1>b, <2>3, BudgetAssumption DEF Keys, InTurn
  <2>5. bucket[k] \in Buckets /\ bucket[All] \in Buckets
    BY <2>1, <2>4 DEF TurnIsPaid
  <2>6. n \in Nat /\ n <= remaining[d]
    <3>1. Affords(bucket[All], remaining[d]) \in Nat /\ Affords(bucket[All], remaining[d]) <= remaining[d]
      BY <2>4, <2>5, AffordsAtMost
    <3>2. n \in Nat /\ n <= Affords(bucket[All], remaining[d])
      BY <2>5, <3>1, AffordsAtMost
    <3>3. remaining[d] \in Nat
      BY <2>4
    <3> HIDE DEF n
    <3>4. QED BY <3>1, <3>2, <3>3
  <2> HIDE DEF d, k, n
  <2>7. remaining' \in [Downloads -> Nat] /\ remaining'[d] = remaining[d] - n
        /\ \A e \in Downloads \ {d} : remaining'[e] = remaining[e]
    BY <2>1, <2>4, <2>6
  <2>8. /\ queue' \in Seq(Downloads) /\ Distinct(queue')
        /\ Len(queue') >= Len(queue) - 1
        /\ Listed(queue') = IF n = remaining[d] THEN Listed(queue) \ {d} ELSE Listed(queue)
    <3>1. CASE n = remaining[d]
      BY <1>b, <2>1, <2>3, <3>1
    <3>2. CASE n # remaining[d]
      <4>1. d \notin Listed(Tail(queue))
        BY <2>3
      <4>2. queue' = Append(Tail(queue), d)
        BY <2>1, <3>2
      <4>3. /\ queue' \in Seq(Downloads) /\ Distinct(queue')
            /\ Len(queue') = Len(Tail(queue)) + 1
            /\ Listed(queue') = Listed(Tail(queue)) \cup {d}
        BY <2>3, <2>4, <4>1, <4>2, AppendOne
      <4>4. QED BY <1>b, <2>3, <3>2, <4>3
    <3>3. QED BY <3>1, <3>2
  <2>9. Exact(queue', stage', remaining')
    BY <1>a, <1>b, <2>1, <2>3, <2>4, <2>6, <2>7, <2>8 DEF Exact
  <2>10. turn' \in [by : Downloads, left : Nat] /\ turn'.by = turn.by /\ turn'.left = turn.left - 1
    <3>1. turn \in [by : Downloads, left : Nat]
      BY <2>1
    <3>2. turn.left - 1 \in Nat
      BY <2>1, <3>1
    <3>3. QED BY <2>1, <3>1, <3>2
  <2>11. turn'.left <= Len(queue') /\ stage'[turn'.by] = "queued"
    BY <1>b, <2>1, <2>2, <2>8, <2>10
  <2>12. \A e \in Downloads : stage'[e] = "joining" => remaining'[e] > 0
    BY <1>a, <2>1, <2>3, <2>7 DEF Exact
  <2>13. QED BY <2>1, <2>7, <2>8, <2>9, <2>10, <2>11, <2>12, ExactLater
<1>6. CASE EndTurn
  <2> DEFINE d == turn.by
             h == Head(queue)
  <2>1. /\ turn # Absent /\ turn' = Absent
        /\ queue' = IF queue = <<>> THEN queue ELSE Append(Tail(queue), h)
        /\ stage' = [stage EXCEPT ![d] = IF remaining[d] = 0 THEN "idle" ELSE "queued"]
        /\ UNCHANGED <<remaining, fallback>>
    BY <1>6 DEF EndTurn
  <2>2. d \in Downloads /\ stage[d] = "queued"
    BY <2>1
  <2>3. queue' \in Seq(Downloads) /\ Distinct(queue') /\ Listed(queue') = Listed(queue)
    <3>1. CASE queue = <<>>
      BY <1>a, <2>1, <3>1
    <3>2. CASE queue # <<>>
      <4>1. /\ Tail(queue) \in Seq(Downloads) /\ h \in Listed(queue) /\ h \in Downloads
            /\ Distinct(Tail(queue)) /\ Listed(Tail(queue)) = Listed(queue) \ {h}
        BY <1>a, <3>2, TailOne
      <4>2. queue' = Append(Tail(queue), h)
        BY <2>1, <3>2
      <4> HIDE DEF h
      <4>3. /\ queue' \in Seq(Downloads) /\ Distinct(queue')
            /\ Listed(queue') = Listed(Tail(queue)) \cup {h}
        BY <4>1, <4>2, AppendOne
      <4>4. QED BY <4>1, <4>3
    <3>3. QED BY <3>1, <3>2
  <2> HIDE DEF d, h
  <2>4. Exact(queue', stage', remaining')
    BY <1>a, <2>1, <2>2, <2>3 DEF Exact
  <2>5. QED BY <2>1, <2>2, <2>3, <2>4, ExactLater
<1>7. CASE UNCHANGED <<queue, remaining, fallback, stage, turn>>
  <2>1. Exact(queue', stage', remaining')
    BY <1>a, <1>7
  <2>2. QED BY <1>7, <2>1, ExactLater
<1>8. ASSUME NEW d \in Downloads, Reload(d) PROVE UNCHANGED <<queue, remaining, fallback, stage, turn>>
  BY <1>8 DEF Reload, BeginReload, Stat, Load, Store, accountVars
<1>9. TimePasses \/ SecondPasses \/ EditPolicy \/ UNCHANGED budgetVars
        => UNCHANGED <<queue, remaining, fallback, stage, turn>>
  BY DEF TimePasses, SecondPasses, EditPolicy, budgetVars, accountVars
<1>10. QED
  BY <1>1, <1>2, <1>3, <1>4, <1>5, <1>6, <1>7, <1>8, <1>9 DEF BudgetNext

-----------------------------------------------------------------------------
(* The rate                                                                  *)

\* What an ideal bucket of one key has left, and at which rate it is filled.
Meters == [rate : Limits, slack : Int]

\* An ideal bucket m is never below zero; and a bucket b of the code, when it is
\* refilled, never has more than the ideal one.
Covered(m, b) ==
  /\ m.rate # Unlimited => m.slack >= 0
  /\ b # Absent =>
       /\ b.rate = m.rate
       /\ b.rate # Unlimited =>
            /\ b.credit <= Burst * b.rate
            /\ Lesser(Burst * b.rate, b.credit + b.age * b.rate) <= m.slack

\* No bucket of the code is ahead of the ideal one.
Metered ==
  /\ meter \in [Keys -> Meters]
  /\ \A k \in Keys : Covered(meter[k], bucket[k])

\* Together they are inductive: a turn pays from buckets of which it has refilled
\* all.
BudgetInv == Vouched /\ QueueInv /\ TurnIsPaid /\ Metered

\* _Bucket.refill: a new rate empties the bucket, the old one fills it to the
\* burst.
LEMMA Refilled ==
  ASSUME NEW b \in Buckets, NEW rate \in Limits
  PROVE  /\ Refill(b, rate) \in Buckets /\ Refill(b, rate).rate = rate /\ Refill(b, rate).age = 0
         /\ rate # Unlimited =>
              /\ Refill(b, rate).credit <= Burst * rate
              /\ Refill(b, rate).credit =
                   IF rate # b.rate THEN 0 ELSE Lesser(Burst * rate, b.credit + b.age * rate)
<1>1. CASE rate = Unlimited \/ rate # b.rate
  <2>1. Refill(b, rate) = [rate |-> rate, age |-> 0, credit |-> 0]
    BY <1>1 DEF Refill
  <2>2. rate # Unlimited => Burst * rate \in Nat /\ rate # b.rate
    BY <1>1, BudgetAssumption DEF Limits
  <2>3. QED BY <2>1, <2>2 DEF Buckets
<1>2. CASE rate # Unlimited /\ rate = b.rate
  <2> DEFINE c == Lesser(Burst * rate, b.credit + b.age * rate)
  <2>1. Refill(b, rate) = [rate |-> rate, age |-> 0, credit |-> c]
    BY <1>2 DEF Refill
  <2>2. b.credit \in Nat /\ b.age \in Nat /\ rate \in Nat /\ Burst \in Nat
    BY <1>2, BudgetAssumption DEF Buckets, Limits
  <2>3. Burst * rate \in Nat /\ b.credit + b.age * rate \in Nat
    BY <2>2
  <2>4. c \in Nat /\ c <= Burst * rate
    BY <2>3 DEF Lesser
  <2> HIDE DEF c
  <2>5. Refill(b, rate) \in Buckets
    BY <2>1, <2>4 DEF Buckets
  <2>6. QED BY <1>2, <2>1, <2>4, <2>5 DEF c
<1>3. QED BY <1>1, <1>2

\* A refill takes no more than an ideal bucket has, also one that starts anew.
LEMMA RefillCovered ==
  ASSUME NEW m \in Meters, NEW b \in Buckets \cup {Absent}, Covered(m, b), NEW rate \in Limits
  PROVE  LET old == IF b = Absent THEN NewBucket ELSE b
             next == Refill(old, rate) IN
         /\ next \in Buckets /\ next.age = 0
         /\ Covered(IF rate # m.rate THEN [rate |-> rate, slack |-> 0] ELSE m, next)
<1> DEFINE old == IF b = Absent THEN NewBucket ELSE b
           next == Refill(old, rate)
           n == IF rate # m.rate THEN [rate |-> rate, slack |-> 0] ELSE m
<1>1. old \in Buckets
  BY DEF NewBucket, Buckets, Limits
<1>2. /\ next \in Buckets /\ next.rate = rate /\ next.age = 0
      /\ rate # Unlimited =>
           /\ next.credit <= Burst * rate
           /\ next.credit = IF rate # old.rate THEN 0 ELSE Lesser(Burst * rate, old.credit + old.age * rate)
  BY <1>1, Refilled
<1>3. n \in Meters /\ n.rate = rate
  BY DEF Meters
<1>4. ASSUME rate # Unlimited
      PROVE  /\ n.slack >= 0
             /\ next.credit <= Burst * rate
             /\ Lesser(Burst * rate, next.credit + next.age * rate) <= n.slack
  <2>1. rate \in Nat /\ Burst * rate \in Nat /\ next.credit \in Nat /\ n.slack \in Int
    BY <1>2, <1>3, <1>4, BudgetAssumption DEF Limits, Buckets, Meters
  <2>2. next.credit <= n.slack
    <3>1. CASE rate # m.rate
      <4>1. b # Absent => b.rate = m.rate
        BY DEF Covered
      <4>2. rate # old.rate
        BY <1>4, <3>1, <4>1 DEF NewBucket
      <4>3. next.credit = 0 /\ n.slack = 0
        BY <1>2, <1>4, <3>1, <4>2
      <4>4. QED BY <4>3
    <3>2. CASE rate = m.rate /\ b = Absent
      <4>1. n = m /\ m.slack >= 0 /\ old = NewBucket
        BY <1>4, <3>2 DEF Covered
      <4>2. next.credit = 0
        BY <1>2, <1>4, <4>1 DEF NewBucket
      <4>3. QED BY <4>1, <4>2
    <3>3. CASE rate = m.rate /\ b # Absent
      BY <1>2, <1>4, <3>3 DEF Covered
    <3>4. QED BY <3>1, <3>2, <3>3
  <2>3. next.age * rate = 0
    BY <1>2, <2>1
  <2> HIDE DEF next, n
  <2>4. Lesser(Burst * rate, next.credit + next.age * rate) = next.credit
    BY <1>2, <1>4, <2>1, <2>3 DEF Lesser
  <2>5. QED BY <1>2, <1>4, <2>1, <2>2, <2>4
<1>5. Covered(n, next)
  BY <1>2, <1>3, <1>4 DEF Covered
<1>6. QED BY <1>2, <1>5

\* While a turn lasts, what is paid from a bucket is paid from the ideal one.
LEMMA PayCovered ==
  ASSUME NEW m \in Meters, NEW b \in Buckets, Covered(m, b), b.age = 0,
         NEW n \in Nat, b.rate # Unlimited => n <= b.credit
  PROVE  /\ Pay(b, n) \in Buckets /\ Pay(b, n).age = 0
         /\ (IF m.rate # Unlimited THEN [m EXCEPT !.slack = @ - n] ELSE m) \in Meters
         /\ Covered(IF m.rate # Unlimited THEN [m EXCEPT !.slack = @ - n] ELSE m, Pay(b, n))
<1>0. b # Absent /\ b.rate = m.rate
  BY BudgetAssumption DEF Covered
<1>1. CASE b.rate = Unlimited
  BY <1>0, <1>1 DEF Pay
<1>2. CASE b.rate # Unlimited
  <2> DEFINE p == [b EXCEPT !.credit = @ - n]
             q == [m EXCEPT !.slack = @ - n]
  <2>1. /\ b.credit \in Nat /\ n <= b.credit /\ m.slack \in Int
        /\ b.rate \in Nat /\ Burst * b.rate \in Nat
    BY <1>2, BudgetAssumption DEF Buckets, Limits, Meters
  <2>2. p \in Buckets /\ p.age = 0 /\ p.rate = b.rate /\ p.credit = b.credit - n
    BY <2>1 DEF Buckets
  <2>3. q \in Meters /\ q.rate = m.rate /\ q.slack = m.slack - n
    BY <2>1 DEF Meters
  <2>4. b.credit <= Burst * b.rate /\ Lesser(Burst * b.rate, b.credit + b.age * b.rate) <= m.slack
    BY <1>0, <1>2 DEF Covered
  <2>5. b.age * b.rate = 0 /\ p.age * p.rate = 0
    BY <2>1, <2>2
  <2>6. b.credit <= m.slack
    BY <2>1, <2>4, <2>5 DEF Lesser
  <2>7. Pay(b, n) = p
    BY <1>2 DEF Pay
  <2> HIDE DEF p, q
  <2>8. p.credit <= Burst * p.rate /\ q.slack >= 0
        /\ Lesser(Burst * p.rate, p.credit + p.age * p.rate) <= q.slack
    BY <2>1, <2>2, <2>3, <2>4, <2>5, <2>6 DEF Lesser
  <2>9. Covered(q, p)
    BY <1>0, <2>2, <2>3, <2>8 DEF Covered
  <2>10. QED BY <1>0, <1>2, <2>2, <2>3, <2>7, <2>9 DEF q
<1>3. QED BY <1>1, <1>2

\* A tick gives the ideal bucket what the late refill will count.
LEMMA TickCovered ==
  ASSUME NEW m \in Meters, NEW b \in Buckets, Covered(m, b)
  PROVE  LET p == [b EXCEPT !.age = Lesser(@ + 1, Forget + 1)]
             q == IF m.rate = Unlimited THEN m
                  ELSE [m EXCEPT !.slack = Lesser(Burst * m.rate, @ + m.rate)] IN
         p \in Buckets /\ q \in Meters /\ Covered(q, p)
<1> DEFINE p == [b EXCEPT !.age = Lesser(@ + 1, Forget + 1)]
           q == IF m.rate = Unlimited THEN m
                ELSE [m EXCEPT !.slack = Lesser(Burst * m.rate, @ + m.rate)]
<1>0. b # Absent /\ b.rate = m.rate
  BY BudgetAssumption DEF Covered
<1>1. b.age \in Nat /\ Lesser(b.age + 1, Forget + 1) \in Nat /\ Lesser(b.age + 1, Forget + 1) <= b.age + 1
  BY BudgetAssumption DEF Buckets, Lesser
<1>2. p \in Buckets /\ p.rate = b.rate /\ p.credit = b.credit
      /\ p.age \in Nat /\ p.age <= b.age + 1
  BY <1>1 DEF Buckets
<1>3. CASE m.rate = Unlimited
  BY <1>0, <1>2, <1>3 DEF Covered
<1>4. CASE m.rate # Unlimited
  <2>1. /\ b.credit \in Nat /\ m.slack \in Int /\ m.slack >= 0
        /\ m.rate \in Nat /\ Burst * m.rate \in Nat
    BY <1>0, <1>4, BudgetAssumption DEF Buckets, Limits, Meters, Covered
  <2>2. /\ q.rate = m.rate /\ q.slack = Lesser(Burst * m.rate, m.slack + m.rate) /\ q.slack \in Int
        /\ q \in Meters
    BY <1>4, <2>1 DEF Meters, Lesser
  <2>3. b.credit <= Burst * m.rate /\ Lesser(Burst * m.rate, b.credit + b.age * m.rate) <= m.slack
    BY <1>0, <1>4 DEF Covered
  <2> HIDE DEF p, q
  <2>4. p.age * m.rate <= b.age * m.rate + m.rate /\ p.age * m.rate \in Nat /\ b.age * m.rate \in Nat
    <3>1. p.age * m.rate <= (b.age + 1) * m.rate
      <4>1. (b.age + 1 - p.age) * m.rate \in Nat
        BY <1>1, <1>2, <2>1
      <4>2. QED BY <1>1, <1>2, <2>1, <4>1
    <3>2. (b.age + 1) * m.rate = b.age * m.rate + m.rate
      BY <1>1, <2>1
    <3>3. QED BY <1>1, <1>2, <2>1, <3>1, <3>2
  <2>5. Lesser(Burst * m.rate, b.credit + p.age * m.rate) <= q.slack /\ q.slack >= 0
    <3> DEFINE x == b.age * m.rate
               y == p.age * m.rate
               z == Burst * m.rate
    <3>1. /\ x \in Nat /\ y \in Nat /\ z \in Nat /\ y <= x + m.rate
          /\ Lesser(z, b.credit + x) <= m.slack /\ q.slack = Lesser(z, m.slack + m.rate)
      BY <2>1, <2>2, <2>3, <2>4
    <3> HIDE DEF x, y, z
    <3>2. Lesser(z, b.credit + y) <= q.slack /\ q.slack >= 0
      BY <2>1, <3>1 DEF Lesser
    <3>3. QED BY <3>2 DEF y, z
  <2>6. Covered(q, p)
    BY <1>0, <1>2, <2>2, <2>3, <2>5 DEF Covered
  <2>7. QED BY <1>2, <2>2, <2>6 DEF p, q
<1>5. QED BY <1>3, <1>4

\* Every step: refills, payments and the time that passes.
LEMMA MeterStep ==
  ASSUME BudgetInv, [BudgetNext]_budgetVars
  PROVE  TurnIsPaid' /\ Metered'
<1>a. /\ bucket \in [Keys -> Buckets \cup {Absent}] /\ meter \in [Keys -> Meters]
      /\ \A k \in Keys : Covered(meter[k], bucket[k])
  BY DEF BudgetInv, TurnIsPaid, Metered
<1>b. Waiting \subseteq Downloads /\ \A d \in Downloads : RepoOf[d] \in Keys /\ RepoOf[d] # All
  BY BudgetAssumption DEF BudgetInv, QueueInv, QueueTypes, Waiting, Keys
<1>1. ASSUME NEW d \in Downloads, BeginTurn(d) PROVE TurnIsPaid' /\ Metered'
  <2> DEFINE keys == {All} \cup {RepoOf[e] : e \in Waiting}
  <2>1. PICK minute \in Minutes :
          /\ bucket' = [k \in Keys |-> IF k \in keys THEN Refill(BucketOf(k), Rate(k, minute))
                                       ELSE bucket[k]]
          /\ meter' = [k \in Keys |->
               IF k \in keys /\ Rate(k, minute) # meter[k].rate
               THEN [rate |-> Rate(k, minute), slack |-> 0] ELSE meter[k]]
    BY <1>1 DEF BeginTurn
  <2>2. UNCHANGED queue
    BY <1>1 DEF BeginTurn
  <2>3. \A k \in Keys : Rate(k, minute) \in Limits
    BY RateIsLimit DEF BudgetInv, Vouched, QueueInv, QueueTypes
  <2>4. ASSUME NEW k \in Keys
        PROVE  /\ bucket'[k] \in Buckets \cup {Absent} /\ meter'[k] \in Meters
               /\ Covered(meter'[k], bucket'[k])
               /\ k \in keys => bucket'[k] # Absent /\ bucket'[k].age = 0
    <3>1. CASE k \notin keys
      <4>1. bucket'[k] = bucket[k] /\ meter'[k] = meter[k]
        BY <2>1, <3>1
      <4>2. QED BY <1>a, <3>1, <4>1
    <3>2. CASE k \in keys
      <4> DEFINE r == Rate(k, minute)
      <4>1. /\ bucket'[k] = Refill(IF bucket[k] = Absent THEN NewBucket ELSE bucket[k], r)
            /\ meter'[k] = IF r # meter[k].rate THEN [rate |-> r, slack |-> 0] ELSE meter[k]
        BY <2>1, <3>2 DEF BucketOf
      <4>2. r \in Limits /\ meter[k] \in Meters /\ bucket[k] \in Buckets \cup {Absent}
            /\ Covered(meter[k], bucket[k])
        BY <1>a, <2>3
      <4> HIDE DEF r
      <4>3. /\ bucket'[k] \in Buckets /\ bucket'[k].age = 0
            /\ Covered(meter'[k], bucket'[k])
        BY <4>1, <4>2, RefillCovered
      <4>4. meter'[k] \in Meters
        BY <4>1, <4>2 DEF Meters
      <4>5. QED BY <4>3, <4>4, BudgetAssumption
    <3>3. QED BY <3>1, <3>2
  <2>5. \A k \in Keys : InTurn(k)' <=> k \in keys
    BY <2>2 DEF InTurn, Waiting
  <2> HIDE DEF keys
  <2>6. bucket' \in [Keys -> Buckets \cup {Absent}] /\ meter' \in [Keys -> Meters]
    <3>1. bucket' = [k \in Keys |-> bucket'[k]] /\ meter' = [k \in Keys |-> meter'[k]]
      BY <2>1
    <3>2. QED BY <2>4, <3>1
  <2>7. QED BY <2>4, <2>5, <2>6 DEF TurnIsPaid, Metered
<1>2. CASE Serve
  <2> DEFINE d == Head(queue)
             r == RepoOf[d]
             n == Affords(bucket[r], Affords(bucket[All], remaining[d]))
  <2>1. /\ turn # Absent
        /\ bucket' = [bucket EXCEPT ![r] = Pay(@, n), ![All] = Pay(@, n)]
        /\ meter' = [j \in Keys |-> IF j \in {r, All} /\ meter[j].rate # Unlimited
                                    THEN [meter[j] EXCEPT !.slack = @ - n] ELSE meter[j]]
        /\ queue' = IF n = remaining[d] THEN Tail(queue) ELSE Append(Tail(queue), d)
    BY <1>2 DEF Serve
  <2>2. queue \in Seq(Downloads) /\ queue # <<>> /\ d \in Downloads /\ d \in Waiting
    BY <1>2 DEF Serve, BudgetInv, QueueInv, QueueTypes, Waiting
  <2>3. r \in Keys /\ All \in Keys /\ r # All /\ InTurn(r) /\ InTurn(All)
    BY <1>b, <2>2 DEF InTurn, Keys
  <2>4. /\ bucket[r] \in Buckets /\ bucket[r].age = 0
        /\ bucket[All] \in Buckets /\ bucket[All].age = 0
    BY <1>a, <2>1, <2>3 DEF BudgetInv, TurnIsPaid
  <2>5. /\ n \in Nat
        /\ bucket[r].rate # Unlimited => n <= bucket[r].credit
        /\ bucket[All].rate # Unlimited => n <= bucket[All].credit
    <3> DEFINE a == Affords(bucket[All], remaining[d])
    <3>1. remaining[d] \in Nat
      BY <2>2 DEF BudgetInv, QueueInv, QueueTypes
    <3>2. a \in Nat /\ bucket[All].rate # Unlimited => a <= bucket[All].credit
      BY <2>4, <3>1, AffordsAtMost
    <3>2a. a \in Nat
      BY <2>4, <3>1, AffordsAtMost
    <3>3. n = Affords(bucket[r], a)
      OBVIOUS
    <3> HIDE DEF a, n
    <3>4. n \in Nat /\ n <= a /\ (bucket[r].rate # Unlimited => n <= bucket[r].credit)
      BY <2>4, <3>2a, <3>3, AffordsAtMost
    <3>5. bucket[All].credit \in Nat
      BY <2>4 DEF Buckets
    <3>6. QED BY <3>2, <3>2a, <3>4, <3>5
  <2> HIDE DEF d, r, n
  <2>6. \A k \in Keys : bucket'[k] = IF k \in {r, All} THEN Pay(bucket[k], n) ELSE bucket[k]
    BY <1>a, <2>1, <2>3
  <2>7. ASSUME NEW k \in Keys
        PROVE  /\ bucket'[k] \in Buckets \cup {Absent} /\ meter'[k] \in Meters
               /\ Covered(meter'[k], bucket'[k])
               /\ bucket'[k] = Absent <=> bucket[k] = Absent
               /\ bucket[k] # Absent /\ bucket[k].age = 0 => bucket'[k].age = 0
    <3>1. CASE k \notin {r, All}
      <4>1. bucket'[k] = bucket[k] /\ meter'[k] = meter[k]
        BY <2>1, <2>6, <3>1
      <4>2. QED BY <1>a, <4>1
    <3>2. CASE k \in {r, All}
      <4>1. /\ bucket'[k] = Pay(bucket[k], n)
            /\ meter'[k] = IF meter[k].rate # Unlimited THEN [meter[k] EXCEPT !.slack = @ - n] ELSE meter[k]
        BY <2>1, <2>6, <3>2
      <4>2. /\ meter[k] \in Meters /\ bucket[k] \in Buckets /\ Covered(meter[k], bucket[k])
            /\ bucket[k].age = 0 /\ (bucket[k].rate # Unlimited => n <= bucket[k].credit)
        BY <1>a, <2>4, <2>5, <3>2
      <4>3. /\ bucket'[k] \in Buckets /\ bucket'[k].age = 0 /\ meter'[k] \in Meters
            /\ Covered(meter'[k], bucket'[k])
        BY <2>5, <4>1, <4>2, PayCovered
      <4>4. QED BY <4>2, <4>3, BudgetAssumption
    <3>3. QED BY <3>1, <3>2
  <2>8. Listed(queue') \subseteq Listed(queue)
    <3>1. Distinct(queue)
      BY WaitingIsListed DEF BudgetInv, QueueInv
    <3>2. /\ Tail(queue) \in Seq(Downloads) /\ Distinct(Tail(queue)) /\ d \in Listed(queue)
          /\ Listed(Tail(queue)) = Listed(queue) \ {d}
      BY <2>2, <3>1, TailOne DEF d
    <3>3. CASE queue' = Tail(queue)
      BY <3>2, <3>3
    <3>4. CASE queue' = Append(Tail(queue), d)
      <4>1. d \notin Listed(Tail(queue))
        BY <3>2
      <4>2. Listed(queue') = Listed(Tail(queue)) \cup {d}
        BY <2>2, <3>2, <3>4, <4>1, AppendOne
      <4>3. QED BY <3>2, <4>2
    <3>5. QED BY <2>1, <3>3, <3>4
  <2>9. \A k \in Keys : InTurn(k)' => InTurn(k)
    BY <2>8 DEF InTurn, Waiting, Listed
  <2>10. bucket' \in [Keys -> Buckets \cup {Absent}] /\ meter' \in [Keys -> Meters]
    <3>1. bucket' = [k \in Keys |-> bucket'[k]] /\ meter' = [k \in Keys |-> meter'[k]]
      BY <1>a, <2>1
    <3>2. QED BY <2>7, <3>1
  <2>11. TurnIsPaid'
    BY <2>1, <2>7, <2>9, <2>10 DEF BudgetInv, TurnIsPaid
  <2>12. QED BY <2>7, <2>10, <2>11 DEF Metered
<1>3. CASE EndTurn
  <2>1. /\ turn' = Absent /\ meter' = meter
        /\ bucket' \in [Keys -> Buckets \cup {Absent}]
        /\ \A k \in Keys : bucket'[k] \in {bucket[k], Absent}
    BY <1>a, <1>3 DEF EndTurn
  <2>2. \A k \in Keys : Covered(meter[k], bucket'[k])
    BY <1>a, <2>1 DEF Covered
  <2>3. QED BY <1>a, <2>1, <2>2 DEF TurnIsPaid, Metered
<1>4. CASE TimePasses
  <2>1. /\ turn = Absent /\ turn' = Absent
        /\ bucket' = [k \in Keys |-> IF bucket[k] = Absent THEN Absent
                                     ELSE [bucket[k] EXCEPT !.age = Lesser(@ + 1, Forget + 1)]]
        /\ meter' = [k \in Keys |-> IF meter[k].rate = Unlimited THEN meter[k]
                 ELSE [meter[k] EXCEPT !.slack = Lesser(Burst * meter[k].rate,
                                                        @ + meter[k].rate)]]
    BY <1>4 DEF TimePasses
  <2>2. ASSUME NEW k \in Keys
        PROVE  /\ bucket'[k] \in Buckets \cup {Absent} /\ meter'[k] \in Meters
               /\ Covered(meter'[k], bucket'[k])
    <3> DEFINE m == meter[k]
               b == bucket[k]
    <3>1. m \in Meters /\ b \in Buckets \cup {Absent} /\ Covered(m, b)
      BY <1>a
    <3>2. /\ bucket'[k] = IF b = Absent THEN Absent ELSE [b EXCEPT !.age = Lesser(@ + 1, Forget + 1)]
          /\ meter'[k] = IF m.rate = Unlimited THEN m
                         ELSE [m EXCEPT !.slack = Lesser(Burst * m.rate, @ + m.rate)]
      BY <2>1
    <3> HIDE DEF m, b
    <3>3. CASE b # Absent
      BY <3>1, <3>2, <3>3, TickCovered
    <3>4. CASE b = Absent
      <4>1. CASE m.rate = Unlimited
        BY <3>1, <3>2, <3>4, <4>1 DEF Covered
      <4>2. CASE m.rate # Unlimited
        <5> DEFINE q == [m EXCEPT !.slack = Lesser(Burst * m.rate, @ + m.rate)]
        <5>1. m.slack \in Int /\ m.slack >= 0 /\ m.rate \in Nat /\ Burst * m.rate \in Nat
          BY <3>1, <4>2, BudgetAssumption DEF Covered, Meters, Limits
        <5>2. q \in Meters /\ q.slack >= 0
          BY <3>1, <5>1 DEF Meters, Lesser
        <5>3. meter'[k] = q /\ bucket'[k] = Absent
          BY <3>2, <3>4, <4>2
        <5> HIDE DEF q
        <5>4. QED BY <5>2, <5>3 DEF Covered
      <4>3. QED BY <4>1, <4>2
    <3>5. QED BY <3>3, <3>4
  <2>3. bucket' \in [Keys -> Buckets \cup {Absent}] /\ meter' \in [Keys -> Meters]
    <3>1. bucket' = [k \in Keys |-> bucket'[k]] /\ meter' = [k \in Keys |-> meter'[k]]
      BY <2>1
    <3>2. QED BY <2>2, <3>1
  <2>4. QED BY <2>1, <2>2, <2>3 DEF TurnIsPaid, Metered
<1>5. CASE UNCHANGED <<bucket, meter>> /\ (turn' = Absent \/ UNCHANGED <<queue, turn>>)
  BY <1>a, <1>5 DEF BudgetInv, TurnIsPaid, Metered, InTurn, Waiting
<1>6. ASSUME NEW d \in Downloads, Consume(d) \/ Join(d) \/ Abandon(d) \/ Reload(d)
      PROVE  UNCHANGED <<bucket, meter>> /\ (turn' = Absent \/ UNCHANGED <<queue, turn>>)
  BY <1>6 DEF Consume, Join, Abandon, Reload, BeginReload, Stat, Load, Store, accountVars
<1>7. SecondPasses \/ EditPolicy \/ UNCHANGED budgetVars
        => UNCHANGED <<bucket, meter>> /\ UNCHANGED <<queue, turn>>
  BY DEF SecondPasses, EditPolicy, budgetVars, accountVars
<1>8. QED
  BY <1>1, <1>2, <1>3, <1>4, <1>5, <1>6, <1>7 DEF BudgetNext

\* Nobody waits and there is no bucket.
LEMMA BudgetStart == BudgetInit => BudgetInv
<1> SUFFICES ASSUME BudgetInit PROVE BudgetInv
  OBVIOUS
<1>1. QueueInv
  <2>1. queue = <<>> /\ DOMAIN queue = {} /\ queue \in Seq(Downloads)
    BY DEF BudgetInit
  <2>2. QueueTypes
    BY <2>1 DEF BudgetInit, QueueTypes, Limits
  <2>3. QueueIsExact
    BY <2>1 DEF BudgetInit, QueueIsExact, Waiting
  <2>4. QED BY <2>2, <2>3 DEF BudgetInit, QueueInv
<1>2. TurnIsPaid /\ Metered
  <2>1. [rate |-> Unlimited, slack |-> 0] \in Meters
    BY DEF Meters, Limits
  <2>2. QED BY <2>1 DEF BudgetInit, TurnIsPaid, Metered, Covered
<1>3. QED BY <1>1, <1>2, VouchedStart DEF BudgetInv

\* For any number of downloads and repositories, schedule and contents of the
\* file.
THEOREM BudgetInvariant == BudgetSpec => []BudgetInv
<1>1. BudgetInv /\ [BudgetNext]_budgetVars => BudgetInv'
  BY VouchedStep, QueueStep, MeterStep DEF BudgetInv
<1>2. QED BY <1>1, BudgetStart, PTL DEF BudgetSpec

\* Every request that still needs bytes waits once in the deque, and no other
\* does, however often requests are cancelled (consume, finally).
THEOREM QueueIsAlwaysExact == BudgetSpec => []QueueIsExact
<1>1. BudgetInv => QueueIsExact
  BY DEF BudgetInv, QueueInv
<1>2. QED BY <1>1, BudgetInvariant, PTL

\* No repository and not all of them together are given more than their rate
\* allows, also when the rate changes, requests are cancelled or the policy is
\* reloaded.
THEOREM AlwaysWithinRate == BudgetSpec => []WithinRate
<1>1. BudgetInv => WithinRate
  BY DEF BudgetInv, Metered, Covered, WithinRate
<1>2. QED BY <1>1, BudgetInvariant, PTL
=============================================================================
