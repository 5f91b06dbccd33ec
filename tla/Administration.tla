----------------------------- MODULE Administration -----------------------------
(***************************************************************************)
(* Accounts and the administration panel of one server:                     *)
(*   platform/auth.py, api/routers/auth.py, api/auth_deps.py   accounts      *)
(*   api/routers/admin.py       roles, settings, job switches               *)
(*   platform/settings_store.py, credentials.py   settings over .env        *)
(*   scheduler/service.py       one job as the live scheduler has it        *)
(* A request is authorised and reads its rows, and commits later: requests  *)
(* of several administrators overlap.                                       *)
(*                                                                         *)
(* Left out: passwords, tokens (a role is read from the row on every        *)
(* request), rate limits, the plan (Marketplace), sites (WebMarket), logs,  *)
(* statistics, backups and updates, which change nothing here; what a run   *)
(* does and manual runs (SyncJob).  Hours are ticks.                        *)
(***************************************************************************)
EXTENDS Naturals, FiniteSets

CONSTANTS
    Users,       \* e-mail addresses
    Requests,    \* requests in flight at once (bound)
    Hours,       \* cadences an administrator may choose
    Cadence,     \* the job's cadence in JOB_SPECS
    Retry,       \* RETRY_DELAY
    SecretKeys,  \* values of SECRET_KEY the server is started with
    EnvKey,      \* .env holds the source's API key
    MaxPatches,  \* bound on requests that change the job
    None

ASSUME AdministrationAssumption ==
    /\ Hours \subseteq Nat \ {0} /\ Cadence \in Hours /\ Retry \in Nat
    /\ None \notin SecretKeys /\ EnvKey \in BOOLEAN /\ MaxPatches \in Nat

VARIABLES
    role,      \* per user: app_user.role, "none" without an account
    stored,    \* the API key saved in the panel: the SECRET_KEY it is encrypted with
    secret,    \* SECRET_KEY of the running process
    config,    \* the job_config row: [row, enabled, hours]
    live,      \* the job in the scheduler: [state, trigger, cadence, wait]
    up,        \* the server runs
    run,       \* the scheduled run: idle, working, or skipped for want of a key
    request,   \* per request in flight: what it read and will write
    patches,   \* requests that changed the job, as far as MaxPatches
    applied    \* the last change of the job met neither a run nor another change

keyVars == <<stored, secret>>
jobVars == <<config, live, run, patches, applied>>
vars == <<role, keyVars, jobVars, up, request>>

Roles == {"user", "admin"}      \* an expert is no administrator either
Idle == [kind |-> "idle"]
Absent == [state |-> "absent", trigger |-> Cadence, cadence |-> Cadence, wait |-> 0]

Init ==
    /\ role = [u \in Users |-> "none"]
    /\ stored = None /\ secret \in SecretKeys
    /\ config = [row |-> FALSE, enabled |-> TRUE, hours |-> Cadence]
    /\ live = [state |-> "planned", trigger |-> Cadence, cadence |-> Cadence, wait |-> 0]
    /\ up = TRUE /\ run = "idle"
    /\ request = [q \in Requests |-> Idle]
    /\ patches = 0 /\ applied = TRUE

-----------------------------------------------------------------------------
(* Accounts.                                                                *)

Admins == { u \in Users : role[u] = "admin" }
NoAccounts == \A u \in Users : role[u] = "none"

Begin(q, r) == up /\ request[q] = Idle /\ request' = [request EXCEPT ![q] = r]
End(q) == request' = [request EXCEPT ![q] = Idle]

\* register_account, register: the first account owns the server (registration_open may
\* withhold the others).
BeginRegister(q, u) ==
    /\ role[u] = "none"
    /\ Begin(q, [kind |-> "register", user |-> u,
                 role |-> IF NoAccounts THEN "admin" ELSE "user"])
    /\ UNCHANGED <<role, keyVars, jobVars, up>>

\* The e-mail is unique: of two registrations of one address the later fails.
EndRegister(q) ==
    LET r == request[q]
    IN  /\ r.kind = "register"
        /\ role' = IF role[r.user] = "none" THEN [role EXCEPT ![r.user] = r.role] ELSE role
        /\ End(q)
        /\ UNCHANGED <<keyVars, jobVars, up>>

\* Mutant of MayAssign: an administrator may step down.
MayAssignAny(by, u, r) == role[by] = "admin" /\ role[u] # "none" /\ role[u] # r
\* patch_user: nobody demotes themselves; an unchanged role is not written.
MayAssign(by, u, r) ==
    /\ role[by] = "admin" /\ role[u] \notin {"none", r}
    /\ u = by => r = "admin"

BeginRole(q, by, u, r) ==
    /\ MayAssign(by, u, r)
    /\ Begin(q, [kind |-> "role", by |-> by, user |-> u, role |-> r])
    /\ UNCHANGED <<role, keyVars, jobVars, up>>

EndRole(q) ==
    /\ request[q].kind = "role"
    /\ role' = [role EXCEPT ![request[q].user] = request[q].role]
    /\ End(q)
    /\ UNCHANGED <<keyVars, jobVars, up>>

-----------------------------------------------------------------------------
(* Settings: one row each, written with the SECRET_KEY of the process.      *)

\* put_settings: the key is given, or taken back.
BeginKey(q, saved) ==
    /\ Admins # {}
    /\ Begin(q, [kind |-> "key", saved |-> saved])
    /\ UNCHANGED <<role, keyVars, jobVars, up>>

EndKey(q) ==
    /\ request[q].kind = "key"
    /\ stored' = IF request[q].saved THEN secret ELSE None
    /\ End(q)
    /\ UNCHANGED <<role, secret, jobVars, up>>

\* Mutant of Usable: a key in the panel does not override an empty .env.
UsableFromEnv == EnvKey
\* SettingsStore.get, has_numista: what the panel saved if it can be decrypted, else .env.
Usable == IF stored = secret THEN TRUE ELSE EnvKey

-----------------------------------------------------------------------------
(* The job's switches.                                                      *)

Patching == { q \in Requests : request[q].kind \in {"job", "saved"} }

\* patch_job reads the row, or makes a new one; a field that is not sent is kept, and one
\* sent as it was read is not written.
Changed(sent, read) == IF sent = read THEN None ELSE sent
BeginPatch(q, enabled, hours) ==
    /\ Admins # {} /\ patches < MaxPatches
    /\ patches' = patches + 1
    /\ up /\ request[q] = Idle
    /\ request' = [k \in Requests |->
          CASE k = q -> [kind |-> "job", new |-> ~config.row,
                         on |-> Changed(enabled, config.enabled),
                         every |-> Changed(hours, config.hours),
                         enabled |-> IF enabled = None THEN config.enabled ELSE enabled,
                         hours |-> IF hours = None THEN config.hours ELSE hours,
                         alone |-> Patching = {}]
            [] k \in Patching -> [request[k] EXCEPT !.alone = FALSE]
            [] OTHER -> request[k]]
    /\ applied' = FALSE
    /\ UNCHANGED <<role, keyVars, config, live, run, up>>

\* The commit: only the fields changed are updated; a second new row fails on its key.
SavePatch(q) ==
    LET r == request[q]
    IN  /\ r.kind = "job"
        /\ IF r.new /\ config.row
           THEN End(q) /\ UNCHANGED config
           ELSE /\ request' = [request EXCEPT ![q].kind = "saved"]
                /\ config' = IF r.new
                             THEN [row |-> TRUE, enabled |-> r.enabled, hours |-> r.hours]
                             ELSE [row |-> TRUE,
                                   enabled |-> IF r.on = None THEN config.enabled ELSE r.on,
                                   hours |-> IF r.every = None THEN config.hours ELSE r.every]
        /\ UNCHANGED <<role, keyVars, live, run, patches, applied, up>>

\* reschedule_job and resume_job, or pause_job.
Rescheduled(r) ==
    IF r.enabled THEN [live EXCEPT !.state = "planned", !.trigger = r.hours, !.wait = r.hours]
    ELSE [live EXCEPT !.state = "paused"]

\* "apply live, no restart": what the request read and wrote, if the job is registered.
ApplyPatch(q) ==
    /\ request[q].kind = "saved"
    /\ live' = IF live.state = "absent" THEN live ELSE Rescheduled(request[q])
    /\ applied' = (run = "idle" /\ request[q].alone)
    /\ End(q)
    /\ UNCHANGED <<role, keyVars, config, run, patches, up>>

-----------------------------------------------------------------------------
(* The live scheduler.                                                      *)

Tick ==
    /\ live.wait > 0 /\ live.state = "planned"
    /\ live' = [live EXCEPT !.wait = @ - 1]
    /\ UNCHANGED <<role, keyVars, config, run, patches, applied, up, request>>

\* The trigger plans the next time at once; max_instances=1 skips a run that is still on.
\* The runner reads the credentials and skips without a key.
Fire ==
    /\ live.state = "planned" /\ live.wait = 0
    /\ live' = [live EXCEPT !.wait = live.trigger]
    /\ run' = IF run # "idle" THEN run ELSE IF Usable THEN "working" ELSE "skipped"
    /\ UNCHANGED <<role, keyVars, config, patches, applied, up, request>>

\* The run ends and plans the next one by the cadence it was registered with; a time for
\* the next run resumes a paused job.
EndRun(failed) ==
    /\ run # "idle"
    /\ failed => run = "working"
    /\ run' = "idle"
    /\ live' = [live EXCEPT !.state = "planned", !.wait = IF failed THEN Retry ELSE live.cadence]
    /\ UNCHANGED <<role, keyVars, config, patches, applied, up, request>>

\* An exception outside the run's own handling (the database is down): nothing is re-planned,
\* the next time is the trigger's.
RaiseRun ==
    /\ run # "idle" /\ run' = "idle"
    /\ UNCHANGED <<role, keyVars, config, live, patches, applied, up, request>>

\* The process ends; requests in flight and the run go with it.
Stop ==
    /\ up /\ up' = FALSE
    /\ live' = Absent /\ run' = "idle"
    /\ request' = [q \in Requests |-> Idle]
    /\ UNCHANGED <<role, keyVars, config, patches, applied>>

\* Mutant of Registered: the switch is not read at boot.
RegisteredAll(wait) == [state |-> "planned", trigger |-> config.hours,
                        cadence |-> config.hours, wait |-> wait]
\* enabled_job_specs, build_scheduler: a job that is off is not registered at all.
Registered(wait) ==
    IF config.enabled
    THEN [state |-> "planned", trigger |-> config.hours, cadence |-> config.hours, wait |-> wait]
    ELSE Absent

\* The next run is due within its cadence, or within the retry delay of a failure
\* (plan_next_run); SECRET_KEY may be another.
Start(wait) ==
    /\ ~up /\ up' = TRUE
    /\ wait \in 0..config.hours \cup 0..Retry
    /\ secret' \in SecretKeys
    /\ live' = Registered(wait)
    /\ applied' = TRUE
    /\ UNCHANGED <<role, stored, config, run, patches, request>>

Next ==
    \/ \E q \in Requests, u \in Users : BeginRegister(q, u)
    \/ \E q \in Requests, by, u \in Users, r \in Roles : BeginRole(q, by, u, r)
    \/ \E q \in Requests, on \in BOOLEAN \cup {None}, every \in Hours \cup {None} :
          BeginPatch(q, on, every)
    \/ \E q \in Requests : EndRegister(q) \/ EndRole(q) \/ SavePatch(q) \/ ApplyPatch(q)
    \/ \E q \in Requests : EndKey(q) \/ \E b \in BOOLEAN : BeginKey(q, b)
    \/ Tick \/ Fire \/ (\E failed \in BOOLEAN : EndRun(failed)) \/ RaiseRun
    \/ Stop \/ (\E h \in Hours \cup {Retry} : \E wait \in 0..h : Start(wait))

Spec == Init /\ [][Next]_vars

\* The event loop serves the timer and a run ends.
FairSpec == Spec /\ WF_vars(Tick) /\ WF_vars(Fire) /\ WF_vars(RaiseRun \/ \E f \in BOOLEAN : EndRun(f))

-----------------------------------------------------------------------------
(* Properties.                                                              *)

TypeOK ==
    /\ role \in [Users -> Roles \cup {"none"}]
    /\ stored \in SecretKeys \cup {None} /\ secret \in SecretKeys
    /\ config \in [row : BOOLEAN, enabled : BOOLEAN, hours : Hours]
    /\ live \in [state : {"absent", "paused", "planned"}, trigger : Hours, cadence : Hours,
                 wait : Nat]
    /\ up \in BOOLEAN /\ run \in {"idle", "working", "skipped"}
    /\ patches \in 0..MaxPatches /\ applied \in BOOLEAN
    /\ ~up => run = "idle" /\ live = Absent

\* A server with accounts keeps an administrator: the last one goes only by the request of
\* somebody who was one when it was authorised and is not any more (patch_user refuses to
\* demote oneself; two administrators may still demote each other at once).
KeepsAnOwner ==
    [][Admins # {} /\ Admins' = {} =>
          \E q \in Requests : /\ request[q].kind = "role" /\ request'[q] = Idle
                               /\ role[request[q].by] # "admin"]_vars

\* The switch is in force: once a change of the job met neither a run nor another change, or
\* after a start, a job that is off is not planned, and one that is on and registered is
\* (patch_job: "apply live, no restart"; a run that was on resumes what was paused).
SwitchInForce ==
    applied => (live.state = "planned" => config.enabled)
               /\ (config.enabled => live.state # "paused")

\* A key saved in the panel takes effect without a restart: a planned job runs with it
\* unless the key, the job or the server goes first (_creds is read by every run).
KeyTakesEffect ==
    (stored = secret /\ live.state = "planned")
        ~> (run = "working" \/ stored # secret \/ live.state # "planned")
================================================================================
