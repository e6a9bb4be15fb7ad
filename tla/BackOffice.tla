----------------------------- MODULE BackOffice -----------------------------
(* The back office: signing in, approving a change behind the second password, *)
(* and the commands that change accounts, their providers, risk policies and   *)
(* their bindings, the universe of symbols, and secrets.  The controls that    *)
(* stop and start trading are in TradingControls.                              *)
(*                                                                             *)
(* A command reads the facts of its panel again, opens its ledger row, spends  *)
(* its approval and writes, each in a transaction of its own, under READ       *)
(* COMMITTED.                                                                  *)
EXTENDS Integers, FiniteSets

CONSTANTS
    Accounts,      \* exec_account aliases
    Versions,      \* risk_policy_version rows there may be
    Approved,      \* the versions the program's approved definitions describe
    Code(_),       \* the policy a version belongs to
    Scope(_),      \* the currency or settlement asset of a version
    Dates,         \* effective dates of universe snapshots
    SecretVersions,\* versions of one logical secret name
    Logins,        \* login states
    Requests,      \* requests of browsers; each has a command id of its own
    Approvals,     \* approval ids
    FirstSession,  \* a session that exists already
    MaxFaults,     \* bound on restarts and lost acknowledgements
    InitialStores, \* the states of the tables to begin with
    Menus          \* the sets of commands that are given together

ASSUME BackOfficeAssumption ==
    /\ Approved \subseteq Versions
    /\ Dates \subseteq Nat /\ IsFiniteSet(Dates) /\ SecretVersions \subseteq Nat
    /\ MaxFaults \in Nat
    /\ FirstSession \notin Requests
    /\ Logins \cap Approvals = {}

VARIABLES
    menu,          \* the commands the operators give
    store,         \* the tables, as committed
    logins,        \* login state -> NEW, IN_FLIGHT or SPENT
    sessions,      \* the sessions Redis holds
    granted,       \* approval id -> what it may be spent on, Unissued or Spent
    req,           \* request -> what it has come to
    entries,       \* request -> the status of its ops_backoffice_command row
    applied,       \* request -> the facts its committed change replaced, or Nothing
    spentBy,       \* login state or approval id -> the requests that redeemed it
    faults

backOfficeVars == <<menu, store, logins, sessions, granted, req, entries, applied, spentBy, faults>>
redis == <<logins, sessions, granted, spentBy>>

Unissued == [state |-> "UNISSUED"]
Spent == [state |-> "SPENT"]
Nothing == <<>>
Unapproved == "no approval"

Gated ==
    ({"ENABLE"} \X Accounts)
    \cup ({"BIND_PROVIDER"} \X (Accounts \X {"OWN", "OTHER"}))
    \cup ({"BIND_POLICY"} \X (Accounts \X Versions))
    \cup ({"ACTIVATE_POLICY"} \X Versions)
    \cup ({"ACTIVATE_UNIVERSE"} \X Dates)
    \cup ({"ACTIVATE_SECRET"} \X SecretVersions)
    \cup {<<"RETIRE_SECRET", 0>>}
Ungated ==
    ({"CREATE", "DISABLE"} \X Accounts)
    \cup ({"CREATE_POLICY"} \X Approved)
    \cup ({"STAGE"} \X Dates)
Unaudited == ({"DELETE"} \X Accounts) \cup ({"REGISTER_SECRET"} \X SecretVersions)
IsSecret(k) == k[1] \in {"ACTIVATE_SECRET", "RETIRE_SECRET"}

Idle == [at |-> "idle", cmd |-> <<"NONE", 0>>]
Live(r) == req[r].at \notin {"idle", "done"}

InForce(u) == {d \in Dates : u[d].state = "ACTIVE"}
ActiveSecret(db) == {v \in SecretVersions : db.secrets[v] = "ACTIVE"}

(* The tables: accounts with the revision of their provider binding and their   *)
(* policies, the versions of policies and secrets, the snapshots of a universe. *)
AccountRows == [stored : BOOLEAN, enabled : BOOLEAN, revision : Nat]
Stores ==
    [accounts : [Accounts -> AccountRows],
     bound : [Accounts -> [active : SUBSET Versions, past : SUBSET Versions]],
     policies : [Versions -> {"NONE", "INACTIVE", "ACTIVE"}],
     universe : [Dates -> [state : {"NONE", "STAGED", "ACTIVE", "SUPERSEDED"}, id : Nat]],
     secrets : [SecretVersions -> {"NONE", "STORED", "ACTIVE", "RETIRED"}]]

(* The tables to begin with are some an earlier back office may have left. *)
ASSUME StoresAssumption ==
    /\ InitialStores \subseteq Stores
    /\ \A db \in InitialStores :
          /\ \A c, d \in InForce(db.universe) : c = d
          /\ \A v, w \in ActiveSecret(db) : v = w
          /\ \A a \in Accounts : db.accounts[a].enabled =>
                db.accounts[a].stored /\ db.accounts[a].revision > 0

(* Every column that refers to an account: its provider bindings, its policies. *)
References(db, a) ==
    db.accounts[a].revision > 0 \/ db.bound[a].active \cup db.bound[a].past # {}

BackOfficeInit ==
    /\ menu \in Menus /\ store \in InitialStores
    /\ logins = [l \in Logins |-> "NEW"]
    /\ sessions = {FirstSession}
    /\ granted = [p \in Approvals |-> Unissued]
    /\ req = [r \in Requests |-> Idle]
    /\ entries = [r \in Requests |-> "NONE"]
    /\ applied = [r \in Requests |-> Nothing]
    /\ spentBy = [x \in Logins \cup Approvals |-> {}]
    /\ faults = 0

-----------------------------------------------------------------------------
(* What a panel shows.  The approval is bound to a digest of it.               *)

Loadable(db, v) == v \in Approved /\ db.policies[v] # "NONE"

EnableFacts(db, a) == <<db.accounts[a].enabled, db.accounts[a].revision > 0>>
BindingFacts(db, a, provider) ==
    <<IF provider = "OWN" THEN db.accounts[a].revision ELSE 0>>
PolicyBindingFacts(db, a) == <<db.bound[a].active>>
PolicyFacts(db, v) == <<{w \in Versions : Code(w) = Code(v) /\ db.policies[w] = "ACTIVE"}>>
ActivationFacts(db, d) == <<InForce(db.universe)>>
SecretFacts(db) == <<ActiveSecret(db)>>

PanelFacts(db, k) ==
    CASE k[1] = "ENABLE" -> EnableFacts(db, k[2])
      [] k[1] = "DISABLE" -> EnableFacts(db, k[2])
      [] k[1] = "BIND_PROVIDER" -> BindingFacts(db, k[2][1], k[2][2])
      [] k[1] = "BIND_POLICY" -> PolicyBindingFacts(db, k[2][1])
      [] k[1] = "ACTIVATE_POLICY" -> PolicyFacts(db, k[2])
      [] k[1] = "ACTIVATE_UNIVERSE" -> ActivationFacts(db, k[2])
      [] IsSecret(k) -> SecretFacts(db)
      [] OTHER -> <<TRUE>>

(* What has no panel: the row, the version or the snapshot is not there. *)
Readable(db, k) ==
    CASE k[1] \in {"ENABLE", "DISABLE"} -> db.accounts[k[2]].stored
      [] k[1] = "BIND_PROVIDER" -> db.accounts[k[2][1]].stored
      [] k[1] = "BIND_POLICY" ->
            /\ db.accounts[k[2][1]].stored
            /\ Loadable(db, k[2][2]) /\ db.policies[k[2][2]] = "ACTIVE"
      [] k[1] = "ACTIVATE_POLICY" -> Loadable(db, k[2]) /\ db.policies[k[2]] # "ACTIVE"
      [] k[1] = "ACTIVATE_UNIVERSE" -> db.universe[k[2]].state = "STAGED"
      [] k[1] = "ACTIVATE_SECRET" -> db.secrets[k[2]] # "NONE"
      [] k[1] = "RETIRE_SECRET" -> ActiveSecret(db) # {}
      [] OTHER -> TRUE

(* What set_enabled refuses besides, before it opens the ledger. *)
SetEnabledAcceptsBug(db, k) ==
    /\ k[1] = "ENABLE" => ~db.accounts[k[2]].enabled
    /\ k[1] = "DISABLE" => db.accounts[k[2]].enabled
SetEnabledAccepts(db, k) ==
    /\ k[1] = "ENABLE" => ~db.accounts[k[2]].enabled /\ db.accounts[k[2]].revision > 0
    /\ k[1] = "DISABLE" => db.accounts[k[2]].enabled

-----------------------------------------------------------------------------
(* Signing in.                                                                 *)

Login(l) ==
    /\ logins[l] = "NEW"
    /\ logins' = [logins EXCEPT ![l] = "IN_FLIGHT"]
    /\ UNCHANGED <<menu, store, sessions, granted, req, entries, applied, spentBy, faults>>

(* GETDEL: the state is spent whatever comes of the callback. *)
TakeLogin(l) == logins' = [logins EXCEPT ![l] = "SPENT"]

CallbackBegins(r, l) ==
    /\ req[r] = Idle /\ logins[l] = "IN_FLIGHT"
    /\ TakeLogin(l)
    /\ spentBy' = [spentBy EXCEPT ![l] = @ \cup {r}]
    /\ req' = [req EXCEPT ![r] = [at |-> "verifying", cmd |-> <<"LOGIN", l>>]]
    /\ UNCHANGED <<menu, store, sessions, granted, entries, applied, faults>>

(* The provider's answer: a session, or the one refusal there is. *)
CallbackEnds(r) ==
    /\ req[r].at = "verifying"
    /\ sessions' \in {sessions, sessions \cup {r}}
    /\ req' = [req EXCEPT ![r].at = "done"]
    /\ UNCHANGED <<menu, store, logins, granted, entries, applied, spentBy, faults>>

(* Logging out, and what Redis drops when its time is up. *)
EndSession(s) ==
    /\ s \in sessions
    /\ sessions' = sessions \ {s}
    /\ UNCHANGED <<menu, store, logins, granted, req, entries, applied, spentBy, faults>>

RedisExpires ==
    /\ \/ \E p \in Approvals :
            /\ granted[p] \notin {Unissued, Spent}
            /\ granted' = [granted EXCEPT ![p] = Spent]
            /\ UNCHANGED logins
       \/ \E l \in Logins :
            /\ logins[l] = "IN_FLIGHT"
            /\ logins' = [logins EXCEPT ![l] = "SPENT"]
            /\ UNCHANGED granted
    /\ UNCHANGED <<menu, store, sessions, req, entries, applied, spentBy, faults>>

-----------------------------------------------------------------------------
(* The second password.                                                        *)

Binding(s, k, facts) == [session |-> s, cmd |-> k, facts |-> facts]

(* An approve handler given the right password, with attempts left: a wrong    *)
(* one, or too many of them, change nothing here.                              *)
Approve(s, k, p) ==
    /\ s \in sessions /\ k \in Gated /\ granted[p] = Unissued
    /\ Readable(store, k)
    /\ granted' = [granted EXCEPT ![p] = Binding(s, k, PanelFacts(store, k))]
    /\ UNCHANGED <<menu, store, logins, sessions, req, entries, applied, spentBy, faults>>

-----------------------------------------------------------------------------
(* A command.                                                                  *)

(* The facts are read again and the ledger row is committed IN_PROGRESS. *)
Open(r, s, k, p) ==
    /\ req[r] = Idle /\ s \in sessions
    /\ k \in Gated <=> p \in Approvals
    /\ Readable(store, k) /\ SetEnabledAccepts(store, k)
    /\ req' = [req EXCEPT ![r] =
                 [at |-> IF k \in Gated THEN "opened" ELSE "cleared", cmd |-> k, session |-> s,
                  approval |-> p, facts |-> PanelFacts(store, k), seen |-> {}, held |-> {},
                  waited |-> FALSE]]
    /\ entries' = [entries EXCEPT ![r] = IF k \in Unaudited THEN "NONE" ELSE "IN_PROGRESS"]
    /\ UNCHANGED <<menu, store, redis, applied, faults>>

(* GETDEL: spent, also when it was for something else. *)
Redeem(p) == granted' = [granted EXCEPT ![p] = Spent]

Consume(r) ==
    LET q == req[r]  p == req[r].approval IN
    /\ q.at = "opened"
    /\ IF granted[p] = Binding(q.session, q.cmd, q.facts)
       THEN /\ Redeem(p)
            /\ spentBy' = [spentBy EXCEPT ![p] = @ \cup {r}]
            /\ req' = [req EXCEPT ![r].at = "cleared"]
       ELSE /\ granted' = [granted EXCEPT ![p] = IF @ = Unissued THEN @ ELSE Spent]
            /\ req' = [req EXCEPT ![r].at = "failing"]
            /\ UNCHANGED spentBy
    /\ UNCHANGED <<menu, store, logins, sessions, entries, applied, faults>>

-----------------------------------------------------------------------------
(* The transaction of a command: what it reads, what it locks, what it and     *)
(* the schema refuse, and what it writes.                                      *)

(* The rows a command reads to replace them. *)
Current(db, k) ==
    CASE k[1] = "BIND_POLICY" -> db.bound[k[2][1]].active
      [] k[1] = "ACTIVATE_UNIVERSE" -> InForce(db.universe)
      [] IsSecret(k) -> ActiveSecret(db)
      [] OTHER -> {}

(* SELECT ... FOR UPDATE locks the rows it finds, and nothing where it finds none. *)
Locks(db, k) ==
    CASE k[1] \in {"ENABLE", "DISABLE"} -> {<<"ACCOUNT", k[2]>>}
      [] k[1] = "BIND_PROVIDER" -> {<<"ACCOUNT", k[2][1]>>}
      [] k[1] = "BIND_POLICY" -> {<<"BINDING", <<k[2][1], v>> >> : v \in Current(db, k)}
      [] IsSecret(k) -> {<<"SECRET", v>> : v \in Current(db, k)}
      [] OTHER -> {}

Held(taken) ==
    \E r \in Requests : Live(r) /\ req[r].at = "writing" /\ req[r].held \cap taken # {}

(* What the repositories refuse, from what they read. *)
BindRefuses(db, a, v, seen) ==
    \/ ~Loadable(db, v) \/ db.policies[v] # "ACTIVE"
    \/ v \in seen \cup db.bound[a].active \cup db.bound[a].past
ActivateUniverseRefusesBug(db, d, seen) == db.universe[d].state # "STAGED"
ActivateUniverseRefuses(db, d, seen) ==
    db.universe[d].state # "STAGED" \/ \E c \in seen : c > d
DeleteRefuses(db, a) ==
    ~db.accounts[a].stored \/ db.accounts[a].enabled \/ References(db, a)

Refuses(db, k, seen) ==
    CASE k[1] \in {"ENABLE", "DISABLE"} -> ~db.accounts[k[2]].stored
      [] k[1] = "BIND_PROVIDER" -> ~db.accounts[k[2][1]].stored \/ k[2][2] = "OTHER"
      [] k[1] = "BIND_POLICY" -> BindRefuses(db, k[2][1], k[2][2], seen)
      [] k[1] = "ACTIVATE_UNIVERSE" -> ActivateUniverseRefuses(db, k[2], seen)
      [] k[1] = "RETIRE_SECRET" -> seen = {}
      [] k[1] = "DELETE" -> DeleteRefuses(db, k[2])
      [] OTHER -> FALSE

(* What the keys of the schema refuse at the flush.  The updates of one flush  *)
(* are made in the order of the primary keys, ids of the order of staging: a   *)
(* snapshot staged before the one in force gets its marker while that one      *)
(* still has it.                                                               *)
UniverseCollidesBug(db, d, seen) == FALSE
UniverseCollides(db, d, seen) ==
    \E c \in InForce(db.universe) \ {d} :
        c \notin seen \/ db.universe[d].id < db.universe[c].id
BindingCollides(db, a, v, seen) ==
    \/ ~db.accounts[a].stored
    \/ v \in db.bound[a].active \cup db.bound[a].past
    \/ \E w \in db.bound[a].active \ seen : Scope(w) = Scope(v)
SecretCollides(db, v, seen) ==
    db.secrets[v] # "STORED" \/ ActiveSecret(db) \ seen # {}
DeleteCollides(db, a) == ~db.accounts[a].stored \/ References(db, a)

Collides(db, k, seen) ==
    CASE k[1] = "CREATE" -> db.accounts[k[2]].stored
      [] k[1] = "DELETE" -> DeleteCollides(db, k[2])
      [] k[1] = "CREATE_POLICY" -> db.policies[k[2]] # "NONE"
      [] k[1] = "BIND_POLICY" -> BindingCollides(db, k[2][1], k[2][2], seen)
      [] k[1] = "STAGE" -> db.universe[k[2]].state # "NONE"
      [] k[1] = "ACTIVATE_UNIVERSE" -> UniverseCollides(db, k[2], seen)
      [] k[1] = "ACTIVATE_SECRET" -> SecretCollides(db, k[2], seen)
      [] k[1] = "REGISTER_SECRET" -> db.secrets[k[2]] # "NONE"
      [] OTHER -> FALSE

NextId(db) == 1 + Cardinality({d \in Dates : db.universe[d].state # "NONE"})

(* What each command writes. *)
NewAccount == [stored |-> TRUE, enabled |-> FALSE, revision |-> 0]
NoAccount == [stored |-> FALSE, enabled |-> FALSE, revision |-> 0]
bind(b, v, seen) == [active |-> (b.active \ seen) \cup {v}, past |-> b.past \cup seen]
switch(p, v) ==
    [w \in Versions |-> IF w = v THEN "ACTIVE"
                        ELSE IF Code(w) = Code(v) /\ p[w] = "ACTIVE" THEN "INACTIVE" ELSE p[w]]
stage(db, d) == [db.universe EXCEPT ![d] = [state |-> "STAGED", id |-> NextId(db)]]
activate(u, d, seen) ==
    [c \in Dates |-> IF c = d THEN [u[c] EXCEPT !.state = "ACTIVE"]
                     ELSE IF c \in seen THEN [u[c] EXCEPT !.state = "SUPERSEDED"] ELSE u[c]]
(* register_secret stores a version without activating it. *)
store_in(s, v) == [s EXCEPT ![v] = "STORED"]
activate_secret(s, new, seen) ==
    [v \in SecretVersions |-> IF v \in new THEN "ACTIVE"
                              ELSE IF v \in seen THEN "RETIRED" ELSE s[v]]

Written(db, k, seen) ==
    CASE k[1] = "CREATE" -> [db EXCEPT !.accounts[k[2]] = NewAccount]
      [] k[1] = "DELETE" -> [db EXCEPT !.accounts[k[2]] = NoAccount]
      [] k[1] = "ENABLE" -> [db EXCEPT !.accounts[k[2]].enabled = TRUE]
      [] k[1] = "DISABLE" -> [db EXCEPT !.accounts[k[2]].enabled = FALSE]
      [] k[1] = "BIND_PROVIDER" -> [db EXCEPT !.accounts[k[2][1]].revision = @ + 1]
      [] k[1] = "BIND_POLICY" -> [db EXCEPT !.bound[k[2][1]] = bind(@, k[2][2], seen)]
      [] k[1] = "CREATE_POLICY" -> [db EXCEPT !.policies[k[2]] = "INACTIVE"]
      [] k[1] = "ACTIVATE_POLICY" -> [db EXCEPT !.policies = switch(@, k[2])]
      [] k[1] = "STAGE" -> [db EXCEPT !.universe = stage(db, k[2])]
      [] k[1] = "ACTIVATE_UNIVERSE" -> [db EXCEPT !.universe = activate(@, k[2], seen)]
      [] k[1] = "ACTIVATE_SECRET" -> [db EXCEPT !.secrets = activate_secret(@, {k[2]}, seen)]
      [] k[1] = "RETIRE_SECRET" -> [db EXCEPT !.secrets = activate_secret(@, {}, seen)]
      [] k[1] = "REGISTER_SECRET" -> [db EXCEPT !.secrets = store_in(@, k[2])]

(* The transaction waits for the rows another one has locked; what it finds    *)
(* then may miss the row that took their place.                                *)
Wait(r) ==
    /\ req[r].at = "cleared" /\ ~req[r].waited
    /\ Held(Locks(store, req[r].cmd))
    /\ req' = [req EXCEPT ![r].waited = TRUE]
    /\ UNCHANGED <<menu, store, redis, entries, applied, faults>>

Read(r) ==
    LET k == req[r].cmd IN
    /\ req[r].at = "cleared" /\ ~Held(Locks(store, k))
    /\ \E seen \in {Current(store, k)} \cup (IF req[r].waited THEN {{}} ELSE {}) :
          req' = [req EXCEPT ![r] =
                    [@ EXCEPT !.at = IF Refuses(store, k, seen) THEN "failing" ELSE "writing",
                              !.seen = seen, !.held = Locks(store, k)]]
    /\ UNCHANGED <<menu, store, redis, entries, applied, faults>>

(* The change and its SUCCEEDED are one transaction, except for a secret's. *)
Succeed(r) ==
    entries' = [entries EXCEPT ![r] = IF @ = "NONE" \/ IsSecret(req[r].cmd) THEN @ ELSE "SUCCEEDED"]

(* A delete waits for whoever has the row of its account. *)
Flushes(r) ==
    /\ req[r].at = "writing"
    /\ req[r].cmd[1] = "DELETE" => ~Held({<<"ACCOUNT", req[r].cmd[2]>>})

(* A key refuses the flush, and the transaction is rolled back. *)
RollBack(r) ==
    /\ Flushes(r) /\ Collides(store, req[r].cmd, req[r].seen)
    /\ req' = [req EXCEPT ![r].at = "failing"]
    /\ UNCHANGED <<menu, store, redis, entries, applied, faults>>

(* The commit; a lost acknowledgement of it looks like a failure. *)
Commit(r) ==
    LET k == req[r].cmd  seen == req[r].seen IN
    /\ Flushes(r) /\ ~Collides(store, k, seen)
    /\ store' = Written(store, k, seen)
    /\ applied' = [applied EXCEPT ![r] = PanelFacts(store, k)]
    /\ Succeed(r)
    /\ \/ /\ req' = [req EXCEPT ![r].at = IF IsSecret(k) THEN "written" ELSE "done"]
          /\ UNCHANGED faults
       \/ /\ faults < MaxFaults
          /\ faults' = faults + 1
          /\ req' = [req EXCEPT ![r].at = "failing"]
    /\ UNCHANGED <<menu, redis>>

(* A secret's success, in a transaction after the one that changed it. *)
SecretSucceeds(r) ==
    /\ req[r].at = "written"
    /\ entries' = [entries EXCEPT ![r] = "SUCCEEDED"]
    /\ req' = [req EXCEPT ![r].at = "done"]
    /\ UNCHANGED <<menu, store, redis, applied, faults>>

FailedStatusBug(status) == IF status = "NONE" THEN status ELSE "FAILED"
FailedStatus(status) == IF status = "IN_PROGRESS" THEN "FAILED" ELSE status

FailCommand(r) ==
    /\ req[r].at = "failing"
    /\ entries' = [entries EXCEPT ![r] = FailedStatus(@)]
    /\ req' = [req EXCEPT ![r].at = "done"]
    /\ UNCHANGED <<menu, store, redis, applied, faults>>

(* The server dies: what was not committed never was. *)
Restart ==
    /\ faults < MaxFaults /\ \E r \in Requests : Live(r)
    /\ faults' = faults + 1
    /\ req' = [r \in Requests |-> IF Live(r) THEN [req[r] EXCEPT !.at = "done"] ELSE req[r]]
    /\ UNCHANGED <<menu, store, redis, entries, applied>>

BackOfficeNext ==
    \/ \E l \in Logins : Login(l) \/ \E r \in Requests : CallbackBegins(r, l)
    \/ \E s \in sessions : EndSession(s)
    \/ \E s \in sessions, k \in Gated \cap menu, p \in Approvals : Approve(s, k, p)
    \/ \E r \in Requests, s \in sessions, k \in Gated \cap menu, p \in Approvals : Open(r, s, k, p)
    \/ \E r \in Requests, s \in sessions, k \in (Ungated \cup Unaudited) \cap menu :
          Open(r, s, k, Unapproved)
    \/ \E r \in Requests :
          \/ CallbackEnds(r) \/ Consume(r) \/ Wait(r) \/ Read(r)
          \/ Commit(r) \/ RollBack(r) \/ SecretSucceeds(r) \/ FailCommand(r)
    \/ RedisExpires \/ Restart

BackOfficeSpec == BackOfficeInit /\ [][BackOfficeNext]_backOfficeVars

-----------------------------------------------------------------------------
(* A login state is redeemed by at most one callback and an approval lets at   *)
(* most one command through, however many requests carry it at once            *)
(* (take_login, ApprovalStore.consume).                                        *)
SpentOnce ==
    \A x \in Logins \cup Approvals : Cardinality(spentBy[x]) <= 1

(* MySqlCommandLedger: it says SUCCEEDED of exactly the commands whose change  *)
(* is committed, whatever was lost or raced in between.  Of a secret's command *)
(* it says so only of a change that was made.                                  *)
LedgerTellsTruth ==
    \A r \in Requests : entries[r] # "NONE" =>
        IF IsSecret(req[r].cmd)
        THEN entries[r] = "SUCCEEDED" => applied[r] # Nothing
        ELSE entries[r] = "SUCCEEDED" <=> applied[r] # Nothing

(* One snapshot of a universe is in force, and one version of a secret,        *)
(* however the activations of two of them overlap: UniverseAuthorities.activate *)
(* locks nothing, and a FOR UPDATE that finds no row locks none.               *)
OneInForce ==
    Cardinality(InForce(store.universe)) <= 1 /\ Cardinality(ActiveSecret(store)) <= 1

(* snapshot_in_force: the newest list ever activated that was effective then. *)
snapshot_in_force(u, as_of) ==
    {d \in Dates :
        /\ d <= as_of /\ u[d].state \in {"ACTIVE", "SUPERSEDED"}
        /\ \A c \in Dates : c <= as_of /\ u[c].state \in {"ACTIVE", "SUPERSEDED"} => c <= d}

(* Once a list is in force, what was in force on any day up to it is settled:  *)
(* a decision of the past is judged by the same list for ever.                 *)
HistoryIsSettled ==
    [][\A d \in InForce(store.universe), as_of \in Dates :
          as_of <= d =>
              snapshot_in_force(store.universe', as_of)
                  = snapshot_in_force(store.universe, as_of)]_backOfficeVars

(* An account that may trade exists and has a provider, whatever was bound,    *)
(* disabled or deleted while set_enabled was at work on what it had read.      *)
EnabledIsBound ==
    \A a \in Accounts : store.accounts[a].enabled =>
        store.accounts[a].stored /\ store.accounts[a].revision > 0

(* A gated change replaces what the operator was shown (ApprovalRequest): the  *)
(* facts its approval is bound to are those its write found.                   *)
ChangesWhatWasShown ==
    \A r \in Requests :
        req[r].cmd \in Gated /\ applied[r] # Nothing => applied[r] = req[r].facts
=============================================================================
